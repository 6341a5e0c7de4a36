# A verification project for unifi-jpix-tunnel-repair

`unifi-jpix` keeps a fixed-address IPIP tunnel of a JPIX provider alive on a
UniFi gateway. It is run again and again, compares kernel and UDAPI state with
the wish of its configuration, and repairs the difference in a transaction
with inverses. These modules model that transaction and what surrounds it: the
allocation of resources, the WAN policy, the managed WAN, the migration to it,
the triggers and the releases. TLC checks them on small instances, and TLAPS
proves the main invariants for every value of the constants.

Source references are `file:line` under `src/src/unifi_jpix/` where no
directory is given.

## 1. Inventory

| Part | State | Operations | What is hard | Correct when |
| --- | --- | --- | --- | --- |
| Transaction engine, lock, state store (core.py 294-367, 790-885, 1096-1105) | five JSON files, operation.lock, inverses in memory | reconcile | commands that fail, with or without effect, signals between two writes, drift between plan and check | one run at a time; a rollback restores; a commit has converged; the records agree; from outside a run is one atomic step |
| Standalone planner (core.py 516-784) | none: reads kernel, firewall, runtime.json | plan | its own leftovers from an earlier endpoint | never refuses because of what the project left behind |
| Resource allocation (core.py 472-514) | `resources` of runtime.json | allocate_resources | a replan before the record, rivals, a crash before the record | recorded for good; a failed run gives back all that its inverses could; named resources get served |
| Provider notification (core.py 848-863, 911-971) | pending-provider.json | notify, defer, retry | an exception or signal around it | the provider knows the endpoint or the notification is pending; never undoes a data plane |
| Router recovery (router.py) | router-recovery.json, UDAPI monitor flags, two rules | enrol, plan, _put, health_check | check-then-PUT, reserved priorities | the enrolment agrees with the record |
| WAN policy dispatch (wan_policy.py) | four rules in UniFi's chains | rules, validate | rules of others before, behind and between; chains that UniFi rebuilds | a healthy run means that the tunnel's packets meet the policy of the native WAN; a rollback keeps the layout acceptable and moves no packet of others |
| Managed WAN adapter (managed.py, router.py 148-163) | managed-wan.json, UDAPI interfaces and services | plan, put_interfaces, _put, health check | a controller that writes at any time, late rebuilds, PUTs of unknown outcome | foreign edits survive, no write war, health and rollback mean what they say |
| WAN migration (integration.py) | managed-migration.json, units, config-v2.json, a transient timer | activate, recover, confirm | a ten-minute timer beside the command, records outside the lock, power loss | the record of the decision is true; a confirmed WAN is left alone; every trial is decided |
| Releases (release.py, cli.py 123-146, unifi-jpix-bootstrap.sh, install-v2.sh) | links current, verified, previous | upgrade, rollback, boot, install | power loss between two links, two attempts to move back, a service shared with the monitors | the gateway comes back to a release that serves it; verified means verified |
| Triggers (unifi-jpix-event-monitor.sh, timer, path, cli.py 183-196) | debounce directory, systemd jobs, attempts left | start the services, retry | merged and dropped events, events a repair makes itself | every drift is repaired; the monitor hears again; no self-triggering for ever once a run can succeed |
| deactivate (core.py 1018-1094) | | | no command reaches it | |
| Discovery, configuration, parsing helpers, webhook, build scripts | none | | | |

How they interact: the triggers, the bootstrap, the migration and the operator
start `reconcile`; `operation.lock` lets one in and the others are turned away.
It calls the planner, which calls the allocation, the router adapter and the WAN
policy and returns actions; it applies them to the kernel and to UDAPI, which
the controller and other programs change at the same time; it looks again after
a delay, checks health, writes its records and then talks to the provider. The
bootstrap waits for the result and moves the links; the next start runs the
code `current` points to. The migration stops the units, changes the mode under
the lock, and runs reconcile with the adapter of the new mode.

The composition follows the same lines. Module Transaction holds the whole of
reconcile over an abstract network. Every other module that contains a
reconcile takes from it what its properties need and no more: in Migration,
Release and Triggers a reconcile is one to three steps that commit or leave
everything as it was, which is what `Implements` (below) shows of Transaction;
in Allocation, Managed and WanPolicy it keeps actions and inverses, since there
their content is the point, and one run at a time, which is `OneTransaction`.

## 2. Modules

    Planner  <-  Transaction  <-  TransactionRefinement  <-  MCTransaction
       ^                                   |  INSTANCE ... WITH
       +--------  AtomicRepair  <----------+
    TransactionProofs (EXTENDS Transaction), AtomicityProofs (EXTENDS both sides)

    Allocation  <-  MCAllocation, AllocationProofs
    Managed     <-  MCManaged,    ManagedProofs
    Migration   <-  MCMigration,  MigrationProofs
    Release     <-  MCRelease,    ReleaseProofs
    Triggers    <-  MCTriggers,   TriggersProofs
    WanPolicy   <-  MCWanPolicy,  WanPolicyProofs

Mutated operators (`Goal_WithoutCleanup`, `Settle_OldJournal`, ...; marked *Fault*) stand right
before the definition they are a plausible bug of. No specification uses them;
they show that a property notices the bug.

### Planner

The network is a function from *slots* to *cells*. A slot is one asset the
planner inspects: an endpoint address, the tunnel (its cell is the local
endpoint), the alias that marks it as owned, the fixed address, a route, a
policy rule, a tagged firewall rule, the enrolment and the monitor flags.
A cell is absent, as wished or somebody else's; for a firewall rule it is the
number of its copies. `Goal` is the wish of a plan, `Changes` the slots for which it holds
an action, `Owned` the checks that make it a foreign conflict.

A command leads one slot from one cell to another (`Steps`: one `-D` for each
superfluous copy), and its inverse is the command that leads back (`InverseOf`).
`Works` says when it fails by itself: on a device that is not there, an address
or rule that exists, one that does not. `Effect` is what it does *whatever is
there*: `-A` and `-I` add a copy, `-D` takes one, and deleting the device takes
along what lives on it. An inverse is run by the same operators as an action; it is
not assumed to restore anything. `Rank` is the order of the actions.

Abstracted: the three TCPMSS rules are one slot, the two local rules of router
recovery are one, the DNS SNAT rule behaves like the SNAT slot and is not
repeated, the WAN dispatch rules are in module WanPolicy; the configuration is
fixed; standalone mode. A plan reads the
kernel in one step; what changes while it reads belongs to the next plan or to
a drift right after it.

### Transaction

`reconcile`, one action per command, file and decision.

| Action | Code |
| --- | --- |
| Start, Plan, Refuse | 790-806: flock, plan, old runtime, begin_transaction; a refused plan only records |
| Apply, ApplyFails | 814-821; the inverse is pushed first (815-816), so a command that failed without effect is undone like one that worked |
| Settle, SettleFails | 822-838: replan after the delay, journal extended |
| ApplyDone, HealthPasses, HealthFails | 839-840, 887-909 |
| WritePrevious .. FinishVerified | 841-847, one action per file |
| DecideNotify .. Report | 848-866 |
| Raise | an exception or a signal anywhere in the try block |
| Undo, UndoFails, RollbackDone | 867-877: each inverse is a command; one that fails is counted and skipped |
| FailJournal, RecordFailure, Quarantine | 878-882, and 799-804 |
| Die, Reboot | nothing more is written; a boot empties the kernel and keeps files and UDAPI |
| Drift, MovePrefix | other programs; the ISP |

The locals of a run are `tx[p]`: the two endpoints, the network the plan saw,
its goal, the slots left, the inverses, the replans left, the reason. The
variables `before`, `disturbed`, `unsettled`, `torn` and `faults` are history
that no action of the program reads. `disturbed` and `unsettled` say which slots
others have touched since the first and since the latest plan; the promises of a
transaction are about all other slots. `tx[p].kept` is history, too: the rule whose
`-D` failed without effect. Its inverse, an `-A`, works and leaves one copy more
than there was, with `rollback_failed` False; `Left` says so, and so does every
property that the copy bears on (section 4).

### AtomicRepair and TransactionRefinement

`AtomicRepair` is what a reconcile promises to whoever looks only at its
outcome: `Begin`, and then `Commit` (everything nobody touched is as one plan
wants it), `Abort` (nothing has happened, but that one firewall rule may be there
once more), `Break` (health.json says the
rollback failed) or `Tear` (the run was killed). It has no lock, no actions, no
inverses, no replan. `TransactionRefinement` maps Transaction to it: while a
process is between its plan and its last record, the network *shown* is the one
its first plan saw. `Implements` is the refinement, checked by run `transaction`
and proved in AtomicityProofs.

### Allocation

Table and window of priorities, with the assets of the project and of others
as a set of records (rule, route, enrolment, flags). A plan allocates
(`Allocation`), checks ownership (`Unowned`) and lists what is missing;
`Settle` is the replan of standalone mode, which allocates again. A failing run
takes back what it did, except the assets whose inverses failed (any set of them;
core.py 875-876 goes on with the next one). `leaked` is history: the assets that died
runs and failed inverses have left since the last boot.

### Managed

reconcile of managed mode against the two documents of the controller. A
document is its controlled fields (`own`) and everything else in it (`rest`,
named by the edit of the controller it is from). The local assets are the
enrolment, the kernel endpoint and the project rules. `Compare`, `Put`,
`PutConfirmed` and `PutFails` are put_interfaces and `_put`, for actions and
inverses alike; `Settle` is the eleven looks of `_settle_delays`; `Edit` lets
the controller write a document at any point, `Converging` lets a plan, a round or
a health check refuse while UniFi has yet to rebuild (managed.py 147-160),
`Unreadable` lets a comparison fail because the services changed their topology,
`Rebuild` lets UniFi undo the kernel endpoint and the rules some time after any write. Two documents stand
for the planned PUTs of a transaction; which fields are controlled
(managed.py 21-54, router.py 41-55) is the split into `own` and `rest`.

### Migration

activate, recover and confirm, one action per file, PUT, `systemctl` call or
lock, run by the operator's shells and by the services that recovery timers start
(`Alarms`); the reconcile services (`Service`) run next to them. A timer fires at any
moment after it was armed, also while its activation is still on its way, and an
activation looks at neither the record nor a recovery under way once it has begun:
no guard keeps the two apart, since the code has none but the lock. What the WAN carries is named
relative to the record: its `original` and `desired` fields, somebody's
`edited` ones. `run[p]` keeps what a command holds in memory, since activate
writes back a record it has kept since before the timer was armed
(integration.py 161-164), outside the lock; a recovery writes its own outside the lock
as well (109-110). `ActivateFails` is the handler of 165-172, which covers all of
the lines 151-164. `Orderly` restricts the operator to
the commands of the guide; the timer is a transient unit, which `PowerLoss`
forgets. `hist.overtaken` is history: an activation has changed over although a recovery
had decided its trial, or had let go of the lock and was still to repair or to write
"recovered" (section 4). A recovery is assumed to find the field values of the record
it has read, whichever trial that was.

### Triggers

Event monitor (debounce directory and its background subshell), UDAPI path and
timer over the two services, whose starts are merged with a running job. A
drift may be heard as a netlink event, as a new UDAPI state, both or not at
all; so may every repair and every rollback, which is how the program can
trigger itself. `Attempt`, `Apply`, `Commit`, `HealthFails` and `Fails` are the retry loop of
cli.py 183-196 around a reconcile. During an `outage` every health check fails, as often
as it is made: all four attempts of a run, and of the run that the events of its rollback
start, at the cost of one fault. A SIGTERM at TimeoutStartSec is a JpixError
inside reconcile and therefore one more failed attempt.

### WanPolicy

The chains of UniFi's filter table that wan_policy.py names, as sequences of
rules; `Validate`, the four rules, their actions, duplicates and inverses in a
transaction. `Path` is the traversal of iptables, as a relation: a packet's path
has `<<x, y>>` when it meets policy or verdict `x`, and not `y` before it; a
chain is evaluated from the paths through the chains its rules jump to, which
nest four deep. `Edit` is UniFi
rebuilding the chains or somebody adding or deleting a rule, first or last in a
chain, of every kind the texts of validate distinguish. The model says what the
accepted texts *mean*, which the code never computes. The transaction remembers an
inverse before its action runs, so an inverse can fail because there is nothing
to undo (`Undo`); it can also really fail, before or after its effect (`UndoFails`: the
xtables lock, a signal), and the rollback goes on. `hist.stuck` (history) says that
one failed without effect; `RollbackKeepsPaths` says for both cases what is left.

### Release

The three links, one command or boot at a time (as installation.md and
rollback.md ask) and, as the other actor, the reconcile service that monitoring
units start too. `job.pc` walks through upgrade (keep, switch), the bootstrap
(boot, wait, mark, promote, monitors) and the return to the command. `service`
is the release whose code runs in the unit: a start while it runs joins that
run. `passed` (history) holds the releases whose own code has passed. Archives,
signatures and manifests are names: a release that fails verification is never
installed, and a manifest that fails at boot is one of the ways a script stops.
The read of a link and the write it leads to are one step, as nobody else writes
links meanwhile. Two simultaneous commands are not modelled, and neither is the
first installation, which has nothing to go back to.

## 3. Runs

| Run | Question | States |
| --- | --- | --- |
| transaction | Do exclusion, rollback, commit and records hold under any three faults of different kinds, and is a run atomic from outside? | 3.3 million |
| repair | Do repeated runs heal network, records and provider, and never stop at their own leftovers? | 477 thousand |
| allocation | Is an allocation kept, agreed on, given back, and are named resources served? | 255 thousand |
| managed | Do foreign edits survive, do health and rollback mean what they say, is the WAN repaired in the end? | 2.2 million |
| migration | Is the record of the decision true, a confirmed WAN left alone, every trial decided? | 837 thousand |
| triggers | Is every drift repaired, the monitor never deaf for good, and self-triggering over with the outages? | 89 thousand |
| wan_policy | Does healthy mean filtered, does a rollback move no packet, do the rules come back? | 984 thousand |
| release | Does upgrade report what the links say, is verified earned, does the gateway come back? | 357 thousand |
| notification | *violated*: a failed notification never reverts the data plane | |
| provider | *violated*: the provider knows the endpoint or is pending | |
| fresh_start | *violated*: a fresh installation gets resources | |
| migration_race | *violated*: outside a trial the automation runs | |

### Bounds

- `transaction`: two processes, since a third would only be turned away by the lock; two
  endpoints, since a plan knows at most the old and the new one, and a move back
  gives the third in time; one LAN; one fragile slot of each nature (device,
  deduplicated rule, rule naming an endpoint, contested priority, UDAPI flag).
  `MaxOf` allows each kind of fault once and `MaxFaults` three together: enough
  for drift between plan and settle, then a failing health check, then a failing
  inverse or a death; or for a drift that repeats a rule, the `-D` of the copy that
  fails, and an inverse that fails. Others make up to two copies of a rule
  (`MaxCopies`), the inverse of a failed `-D` a third. Processes are symmetric; the run has no liveness property.
- `repair`: drifts, moves and failures up to twice each and one failing `-D`, three in
  all, over slots whose drift is repairable. Signals and deaths are left out on purpose: the
  `provider` run shows what one of them does.
- `allocation`: one LAN (a window of two), two tables, four priorities, one rival
  rule in the first window, one right before the named window, one rival route;
  up to three acts of others, the operator, a crash or a boot.
- `managed`: `Rounds = 2` for eleven: one round with a rebuild after it and one
  that repairs it; two edits, so that one can come before and one after each PUT or
  its inverse; two faults, so that an action and its inverse can both fail. The
  proofs hold for every number of each.
- `migration`: one shell (the guide's operator), two trials, so that a timer of the
  first can meet the second, one service that a timer starts; three faults, so that
  activation, recovery and the recovery after it can all fail. The proofs hold for any
  number of trials, faults and such services.
- `triggers`: four attempts, as in cli.py; three drifts, so that one is waiting, one
  seen and one new; five faults: a run can fail in all of its attempts by single
  failures, and during an outage (one fault) as often as it is started.
- `wan_policy`: two edits, which suffice for a rule and its shadow or a copy and a
  deletion; two interruptions and failing inverses together. Three interfaces: the tunnel, the native WAN, a LAN.
- `release`: two releases that serve the gateway, one that does not and one that
  lacks a feature in use, so that verified, previous and current can all differ;
  two power losses or stopped scripts.

Deadlock is checked except in the Allocation runs: a refused plan
changes nothing there, so a refused gateway stands still (in module Transaction it
writes its failure).

### Fairness

- Transaction: a process inside reconcile goes on (`WF` of its steps; every command
  has a timeout or ends, and systemd ends the service), and somebody starts
  reconcile again (`WF` of Start, for the five-minute timer of
  unifi-jpix-reconcile.timer). No fairness for faults, drift or signals.
- Allocation: weak fairness of the steps, for the same two reasons.
- Managed: weak fairness of the program's steps and of `Rebuild`, and `SF` of
  `FollowedRebuild`: UniFi does not, time after time, rebuild exactly between the
  last round and the health check. The rounds of managed.py 58-63 go on for ten
  seconds so that they outlast a rebuild; if every rebuild fell behind the last of them,
  every run would end in a PUT that starts the next rebuild.
- Migration: commands go on, an armed timer elapses, and the operator answers a
  trial that no timer will end any more: `SF` of `Attend`. It is assumed because the timer
  is transient (integration.py 148): after a power loss nobody but the operator ends the trial.
- Triggers: scripts, timer and the steps of the services go on (systemd, the
  command timeouts); nothing makes an event heard.
- WanPolicy: weak fairness of the run's steps, for the timer.
- Release: scripts run on, and a run of the service ends (TimeoutStartSec). Nothing
  makes a reconcile succeed or an operator act.

`EventuallyHealed`, `EventuallyManaged`, `EventuallyFiltered` and `DriftRepaired` need no
assumption on faults as these are bounded: after the last one, the runs heal. An outage of
module Triggers is not bounded in time; `DriftRepaired` and `SelfTriggeringEnds` therefore
name it. `EventuallyHealed` allows one state in which nothing heals: the copy that the
inverse of a failed `-D` made is refused for ever (section 4). `DriftRepaired` takes it
that what a killed run leaves can be repaired, which is so but for a tunnel without its
alias (section 6).
`EventuallyServed` assumes that, from some time on, the named resources are nobody
else's. `EventuallyManaged` and `EventuallyFiltered` allow the state that the code
refuses to touch. `Recovers` excuses the two cases rollback.md names, a release put
in place by hand and a script that stops outside the health check, and a joined run.

## 4. What the runs found

1. **notification** (core.py:857) Only `JpixError` is caught around the
   notification. An `OSError` there (a full disk, while the pending file is
   written) runs the inverses of a network that has passed its health check.
2. **provider** (core.py:843) A SIGTERM after runtime.json is written rolls back the
   network but not the file. The next run repairs the network, sees no endpoint
   change, and never notifies the provider.
3. **fresh_start** (core.py:827, router.py:125) The replan after a monitor update
   allocates a second time, before runtime.json exists. Its first choice is now in
   use by itself, the enrolment names the first choice, the plan is refused, the inverse
   of the monitor update puts the old flags back, and every run repeats this. An
   installation with a record, with named resources or with flags that need no
   correction is not affected.
4. **migration_race** (integration.py:72) recover stops the monitoring units and
   only then takes the lock, without waiting. When confirm holds it, recover ends
   with an exception and the units stay stopped, although the trial is confirmed;
   the comment at 186 says that a timer racing with the cancellation does nothing.

What else the models show; where a property would meet such a case, it names it as its exception
or its run leaves it out:

- `systemctl start` of the bootstrap joins a run that a monitor has started with the
  old release (unifi-jpix-bootstrap.sh:36), and that run's success verifies the new
  one. It needs an upgrade with the monitors running, which the instructions for
  source updates exclude and those for `upgrade` do not; architecture.md 69 says that
  `verified` records the release's own success. Theorem OnlyJoinedUnverified shows that
  this is the only way.
- An inverse is remembered before its command runs (core.py:815). When a `-D` (608, 774)
  fails without effect, its inverse, a plain `-A` or `-I`, works and leaves one copy more
  than before, while `rollback_failed` stays False. For most rules the next plan removes
  the copy as a duplicate. For the outer rule of an *old* endpoint it does not: the cleanup
  deletes one copy, the run commits, runtime.json names the new endpoint, and the copy that
  is left makes every later plan a foreign conflict, without any other program having touched
  anything. guide.md 64 and 66 promise the repair of managed assets and the inverses in
  reverse. `RollbackRestores` and `Abort` name the copy; `NeverSelfConflict` and
  `EventuallyHealed` except runs after a failed `-D` (`faults.keep`), and without these
  exceptions TLC finds the trace.
- An outage of the probed hosts while there is drift keeps the program busy for as long as
  it lasts: each run fails its four attempts, the events of its own rollbacks start the next
  one. `SelfTriggeringEnds` is violated without its exception. (Without drift a failing run
  has no actions to roll back, and makes no events.)
- The ten-minute recovery and the activation whose trial it ends are kept apart only by
  operation.lock, which both let go of. (a) A recovery lets go of the lock at
  integration.py:105 and writes "recovered" at 110, from memory. An activation whose trial it
  ends may change over in between; and if the recovery stops there for long enough that the
  operator recovers by hand and activates again, its late write turns the record of the newer
  trial, awaiting or even confirmed, into "recovered". (b) An activation that stops between
  arming the timer and line 152 for ten minutes goes on after the timer has ended its trial:
  lines 153-159 look at the plan, not at the record. It then writes "awaiting-confirmation"
  from memory, with no timer left, or dies before it does. Where the record says recovered
  and the mode is managed, `recover` answers "no-recovery-needed", `activate` and `confirm`
  refuse; in (b) nothing reverts a WAN that nobody confirmed, contrary to guide.md 112, and in
  (a) a decision is overwritten, contrary to guide.md 114. `hist.overtaken` is set by exactly
  the change-over that starts this; `DecisionsAgree` and `ConfirmedUntouched` hold until then.
  Without that condition TLC finds a violation of the first in the instance of the run, of the
  second with the services of two timers (`TwoAlarms`): a recovery that has let go of the lock
  repairs a newer trial that was confirmed while another recovery had died over it.
- First fit does not look at the priority before the window (core.py:511), which
  router recovery reserves (router.py:106). By theorem FirstFit that priority is
  taken unless the window starts the pool.
- After a failed upgrade, bootstrap and command each move back (cli.py:130), and
  `mark_verified` may change `previous` in between: another release than the one from
  before can end current. `UpgradeHonest` names the cases.
- A power loss during a trial forgets the recovery timer (integration.py:148); the
  trial stays until somebody runs `recover`.
- Two recoveries by hand in two shells, outside the guide, can touch a WAN that a new
  trial has confirmed meanwhile; that is why the theorems of MigrationProofs assume one
  shell that keeps to the guide.
- An inverse that deletes a rule which a rebuild has already taken away fails, so that
  a rollback in managed mode can say `rollback-failed` with nothing left to undo.

## 5. Proofs

All for every value of the constants: any number of slots, processes, releases,
rounds, edits, drifts and faults. Each property was checked by TLC first.

`TransactionProofs`:

- `TypeCorrect` (TypeOK). The assumption SlotAssumption (finitely many slots) is
  needed because the journal counts them.
- `LockExcludes` (OneTransaction), from an invariant that ties `pc` and `lock`:
  whoever is not idle holds the lock.
- `RollbackCorrect` (RollbackRestores). The property speaks of the end of
  a rollback only, so it is far from inductive. The invariant `RestoreInv` says, in
  every state of a run, that running the inverses that are left, latest first, puts
  every undisturbed slot back, save the copy that the inverse of a failed `-D` adds. The
  inverses are commands that may fail or overshoot, so this has to be shown for each of
  them: that it works on the network it meets, and that it takes away or adds exactly the
  copy its action did. Its parts are `WorldOK` (what lives on the tunnel is
  absent when the tunnel is), `Restorable` (an undisturbed slot has an inverse in the
  list, or has not changed, or goes away with the device that the same run created;
  the earliest inverse of a slot carries the cell it had; the inverses of one firewall
  rule follow each other without a gap) and `Applicable` (the cell a
  plan remembers for an action to come is still the cell of the network). A replan is the hard
  step: its inverses lead back to the network at the replan, not to the first one,
  and only the concatenation leads further back.
- `SkippedInversesAreHarmless`. An inverse can be counted as failed because there was
  nothing to undo, and health.json says `rollback-failed`. RestoreInv therefore speaks of
  runs that are not broken *or* in which no inverse has really failed (`Clean`): skipping
  one that finds nothing keeps the list of those left sufficient (lemma SkippedSlot), since its
  cell is already as the inverse would make it, or lives on a tunnel that is gone.

`AtomicityProofs`, from the invariants of TransactionProofs and:

- `TraceInv`: the locals of a run are those of one plan for the record the first
  plan read; the record is that one until the run writes its own.
- `WorkInv`: a slot without an action left, which nobody touched since the
  latest plan, is as planned. It gives `ConvergenceBeforeRecord` (CommitConverged).
- `JournalInv`: what is done and what is left make up the list. It gives
  `VerifiedIsComplete` (VerifiedComplete).
- `RecordsInv`: when health.json and quarantine.json agree, line by line. It gives
  `RecordsAlwaysAgree` (RecordsAgree). It says nothing of the journal.
- `ProviderHears` (ProviderInformed), as long as no run is hit by a signal or killed
  (`Uninterrupted`); the run `provider` shows that this condition is needed. `TellInv`
  says at each line after runtime.json which of the told endpoint, the old one and the
  pending file is right; outside these lines it says `Informed`.
- `LeftoversAreOwn` (NeverSelfConflict, which itself excepts runs after a failed `-D`), as
  long as no run is interrupted and no inverse meets a real failure (`Calm`), where nobody else touches the device, the alias, the
  outer rules and the priorities (`Alone`: an assumption on the constant `Fragile`, as
  in the repair run). Without either the project may refuse for a good reason: what
  is there is then not its own, or what is its own was left half done. `TidyInv` has to
  say of the network the plan saw, and of the network in each phase of a run, that only
  the outer rules of the two endpoints of the run can exist, once each, and it needs
  the restoring invariant: a rollback is tidy because it really restores.
- `Atomicity`: `Spec => Implements`. Initial states map to initial states; a step
  inside a run maps to `Others` or a stutter, `Plan` to `Begin`, the last record to
  `Commit`, the end of a rollback to `Abort` (by RestoreInv; with the copy of the kept rule,
  if there is one) or `Break`, a death to `Tear`.

`AllocationProofs`: `FirstFit` as above; `RecordedForGood` (ResourcesStable) and
`IdentitiesAgree` (IdentityAgrees), from the invariant that a transaction works
with the recorded resources if there are any, that every enrolment names those of
the transaction, and that a transaction only wants what is wanted with its resources.
`TypeCorrect` (TypeOK) and `NothingOrphaned` (NoOrphans), from `OriginInv`: every
asset of the project belongs to the recorded resources, has been created by the
transaction that runs, or is named in `leaked`, where a rollback puts exactly the
assets whose inverses failed. The replan is the hard step again:
once router recovery has corrected the flags, the enrolment forces the replan to the
same resources (lemma SettleKeepsResources).

`ReleaseProofs`: `TypeCorrect`, `OnlyJoinedUnverified` (VerifiedUnlessJoined) and
`UpgradeReports` (UpgradeHonest). The invariant has `Shape`, `Own` (without a joined
run, the service runs the current release from its start to the promotion, and what
is about to be promoted has passed) and `Honest` (what the three links are at each
point of an upgrade, before and after the bootstrap has moved back).

`ManagedProofs`: `TypeCorrect`, `EditsAreKept`, `NoOverwriting`,
`HealthMeansRepaired` and `RollbackBringsBack`, from
`Control` (what a run may hold at each point), `Listed` (no document twice in the
inverses, nor both done and to be done; the rounds list kernel commands only, which is
why it is kept), `Kept` (what is about to be put back is what the plan saw, or
somebody wrote between comparison and PUT), `RulesKept` and `Returning` (a document is as
the plan saw it, or as wanted with its inverse in the list, or written by the
controller since, or named as failed; PUTs of unknown outcome are the hard step).

`MigrationProofs`, for one shell that keeps to the guide (`Solitary`), any number of
trials, faults and recoveries that timers have started, which may run beside each other
and beside an activation: `TypeCorrect`, `DecisionsCorrect` (DecisionsAgree),
`ConfirmedKept` (ConfirmedUntouched). The invariant says for each line of the three commands
what the record, the files and the WAN are (`Roles`, `RepairOK`, `ActivateOK`, `RecoverOK`,
`AwaitingOK`): above all that a recovery past `claim` excludes a confirmed record, which
confirm's second look under the lock preserves, and that a recovery which has let go of the
lock leaves a WAN that no activation accepts, or meets one that has changed over already.
All but the shape and the roles hold until `hist.overtaken`.

`TriggersProofs`: `TypeCorrect`: one service at work at a time, and the timer armed or its
service running. It needs that a running service has attempts left, and that a monitor
that has ended has no subshell.

`WanPolicyProofs`, for chains of any length, any number of copies of the four rules,
edits and interruptions:

- The traversal. A rule that a packet does not match can be left out without moving
  the packet (`Thin`); a chain whose accepted rows all lead to one policy sends
  every packet that matches one there (`OnePolicy`); behind any number of copies of
  the RETURN the DNS chain sends tunnel and native WAN back alike (`DnsPath`). Together:
  `AcceptedIsFiltered`, what the texts of validate mean, of which
  `HealthyMeansFiltered` (HealthyIsFiltered) is a consequence.
- Copies. One copy of a rule more or less keeps an accepted chain accepted
  (`CopyKeepsDispatch`, `CopyKeepsDns`: for the DNS chain only at its place in front)
  and moves no packet while another copy is left (`CopyIsAlike`), although the chain
  may differ from what it was as a sequence; the only copy can be taken out in one
  way, and what is left is the chain before it (`CopyIsUnique`).
- The plan: it asks for one command per missing rule and per copy too many (`PlanFacts`,
  from `InOrder`), with no induction over the sequence.
- `TypeCorrect`, `RollbacksKeepPaths` (RollbackKeepsPaths): the invariant `AloneInv`
  speaks of a transaction whose chains nobody has edited since its plan. The layout
  is accepted at every step; a chain that had no copy is as it was or has one in its
  place (`Kept`), and if it has one, an inverse that deletes it is in the list
  (`Behind`); a chain that had copies has one or more and moves no packet; what is left
  to do leads to exactly one copy (`Ahead`). `Behind` is an inequality, since the inverse
  of an action that never ran is in the list as well. When the list is empty, no copy
  was added that is still there, which is the property. An inverse that fails without
  effect ends `Behind` (`hist.stuck`); the layout stays accepted all the same, and what may
  be left over matches packets of the tunnel only.

Only model-checked: everything about liveness (`EventuallyHealed`, `EventuallyServed`,
`EventuallyManaged`, `EventuallyFiltered`, `TrialDecided`, `Recovers`, `DriftRepaired`,
`EventsHeardAgain`, `SelfTriggeringEnds`), which is out of the prover's reach. Every
invariant and every other action property of a passing run is a theorem, under the
conditions named above.

## 6. Not modelled

- `deactivate` (core.py 1018-1094, router.py, managed.py): no command reaches it; the
  managed one only raises.
- Discovery and parsing of command output, and loading of the configuration: pure
  input, no state; a refusal of discovery is a refused plan.
- The webhook: it informs only, and nothing depends on it. Packaging and launcher.
- A change of the configuration of a standalone tunnel (static_ipv4, tcp_mss, br_ipv6)
  between runs; several LANs that drift differently in one TLC run (the proofs cover
  any number of LANs).
- A SIGKILL between the creation of the tunnel and its alias (core.py:538) leaves a
  tunnel that is taken for foreign; the documents say that there is no journal replay, so
  the deaths of the `transaction` run keep their safety promises and the `repair` run
  has none.
- Two release commands at the same time, which installation.md and rollback.md exclude.

What would come next: configuration changes in module Planner, with the foreign
conflicts that they leave; a DNS SNAT slot; the other hazards without a property.
