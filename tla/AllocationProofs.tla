-------------------------- MODULE AllocationProofs --------------------------
(* Proofs about Allocation, for every pool, number of LANs, configuration   *)
(* and interference.                                                        *)
EXTENDS Allocation, TLAPS

(* First fit **************************************************************)

\* The window that first fit takes is free and lies in the pool, and when the
\* pool goes on below it, some priority of the window one lower is taken: the
\* base - 1 that router recovery reserves is then the only candidate, as the
\* rest of that window is part of the free one.
THEOREM FirstFit ==
    ASSUME NEW pool \in SUBSET Nat, NEW used, NEW b, Lowest(b, FreeWindows(pool, used))
    PROVE  /\ \A i \in 0 .. LANs : b + i \in pool /\ b + i \notin used
           /\ b - 1 \in pool => b - 1 \in used
<1>1. b \in pool /\ \A i \in 0 .. LANs : b + i \in pool /\ b + i \notin used
  BY DEF Lowest, FreeWindows, Windows
<1>2. ASSUME b - 1 \in pool, b - 1 \notin used PROVE FALSE
  <2>1. \A i \in 0 .. LANs : (b - 1) + i \in pool /\ (b - 1) + i \notin used
    <3> TAKE i \in 0 .. LANs
    <3>1. CASE i = 0
      BY <1>1, <1>2, <3>1
    <3>2. CASE i # 0
      <4>1. i - 1 \in 0 .. LANs /\ (b - 1) + i = b + (i - 1)
        BY <1>1, <3>2, PoolAssumption
      <4> QED
        BY <1>1, <4>1
    <3> QED
      BY <3>1, <3>2
  <2>2. b - 1 \in FreeWindows(pool, used)
    BY <1>2, <2>1 DEF FreeWindows, Windows
  <2> QED
    BY <1>1, <2>2 DEF Lowest
<1> QED
  BY <1>1, <1>2

(* The recorded resources *************************************************)

\* A running transaction works with the recorded resources, if there are any.
KeepInv == pc # "idle" /\ runtime # NoRecord => tx.res = runtime

\* Every enrolment names the recorded resources and those of the transaction.
IdentityInv ==
    \A a \in assets : a.kind = "identity" =>
        /\ RouterRecovery
        /\ runtime # NoRecord => a = Identity(runtime)
        /\ pc # "idle" => a = Identity(tx.res)

\* What a transaction still wants or has done is wanted with its resources.
TodoInv ==
    /\ DOMAIN tx = {"res", "todo", "done", "replans"}
    /\ pc # "idle" => tx.todo \subseteq Wanted(tx.res)

Inv == KeepInv /\ IdentityInv /\ TodoInv

\* Assets of different kinds differ.
LEMMA KindFacts ==
    /\ \A p, r, t : Rule(p, r, t).kind = "rule"
    /\ \A t, o : Route(t, o).kind = "route"
    /\ Bindings.kind = "flags"
BY DEF Rule, Route, Bindings

\* Only router recovery wants an enrolment, that of its resources.
LEMMA WantedIdentity ==
    ASSUME NEW res, NEW a \in Wanted(res), a.kind = "identity"
    PROVE  RouterRecovery /\ a = Identity(res)
BY KindFacts DEF Wanted, WindowRules, ReservedRules

\* A plan that is not refused keeps recorded resources and agrees with the enrolment.
LEMMA PlannedFacts ==
    ASSUME NEW use, Planned(use), IdentityInv
    PROVE  /\ runtime # NoRecord => use = runtime
           /\ \A a \in assets : a.kind = "identity" => a = Identity(use)
<1>1. runtime # NoRecord => use = runtime
  BY DEF Planned, Allocation
<1>2. ASSUME NEW a \in assets, a.kind = "identity" PROVE a = Identity(use)
  BY <1>2 DEF Planned, Unowned, IdentityInv
<1> QED
  BY <1>1, <1>2

\* Nothing is recorded or enrolled at the start.
LEMMA InitInv == Init => Inv
BY KindFacts DEF Init, Inv, KeepInv, IdentityInv, TodoInv, NoTx

\* Every step keeps record, enrolment and transaction in agreement.
LEMMA NextInv == Inv /\ [Next]_vars => Inv'
<1> SUFFICES ASSUME Inv, [Next]_vars PROVE Inv'
  OBVIOUS
<1> USE DEF Inv, KeepInv, IdentityInv, TodoInv
<1>1. CASE UNCHANGED vars
  BY <1>1 DEF vars
<1>2. CASE Plan
  <2> PICK use \in Resources :
        /\ Planned(use)
        /\ tx' = [NoTx EXCEPT !.res = use, !.todo = Missing(use), !.replans = Replans(use)]
    BY <1>2 DEF Plan
  <2>1. DOMAIN tx' = {"res", "todo", "done", "replans"} /\ tx'.res = use /\ tx'.todo = Missing(use)
    BY DEF NoTx
  <2>2. UNCHANGED <<assets, runtime>>
    BY <1>2 DEF Plan
  <2>3. KeepInv' /\ IdentityInv'
    BY <2>1, <2>2, PlannedFacts
  <2>4. TodoInv'
    BY <2>1 DEF Missing
  <2> QED
    BY <2>3, <2>4
<1>3. CASE Apply
  <2> PICK a \in Due :
        /\ assets' = assets \cup {a}
        /\ tx' = [tx EXCEPT !.todo = @ \ {a}, !.done = @ \cup {a}]
    BY <1>3 DEF Apply
  <2>1. pc = "apply" /\ a \in tx.todo /\ UNCHANGED <<pc, runtime>>
    BY <1>3 DEF Apply, Due
  <2>2. DOMAIN tx' = DOMAIN tx /\ tx'.res = tx.res /\ tx'.todo = tx.todo \ {a}
    OBVIOUS
  <2>3. KeepInv' /\ TodoInv'
    BY <2>1, <2>2
  <2>4. a.kind = "identity" => RouterRecovery /\ a = Identity(tx.res)
    BY <2>1, WantedIdentity
  <2>5. IdentityInv'
    BY <2>1, <2>2, <2>4
  <2> QED
    BY <2>3, <2>5
<1>4. CASE Settle
  <2> PICK use \in Resources :
        /\ Resettled(use)
        /\ tx' = [tx EXCEPT !.res = use, !.todo = Missing(use), !.replans = @ - 1]
    BY <1>4 DEF Settle
  <2>1. DOMAIN tx' = DOMAIN tx /\ tx'.res = use /\ tx'.todo = Missing(use)
    OBVIOUS
  <2>2. UNCHANGED <<assets, runtime, pc>>
    BY <1>4 DEF Settle
  <2>3. KeepInv' /\ IdentityInv'
    BY <2>1, <2>2, PlannedFacts DEF Resettled
  <2>4. TodoInv'
    BY <2>1 DEF Missing
  <2> QED
    BY <2>3, <2>4
<1>5. CASE ApplyDone
  BY <1>5 DEF ApplyDone
<1>6. CASE Record
  BY <1>6 DEF Record, NoTx
<1>7. CASE SettleRefused \/ Fail
  <2>1. /\ pc # "idle" /\ pc' = "idle" /\ UNCHANGED runtime /\ tx' = NoTx
        /\ assets' \subseteq assets \cup tx.todo
    BY <1>7 DEF SettleRefused, Fail, Rollback, Undone, Due
  <2>2. ASSUME NEW a \in tx.todo, a.kind = "identity"
        PROVE  RouterRecovery /\ a = Identity(tx.res)
    BY <2>1, <2>2, WantedIdentity
  <2>3. KeepInv' /\ TodoInv'
    BY <2>1 DEF NoTx
  <2>4. IdentityInv'
    BY <2>1, <2>2
  <2> QED
    BY <2>3, <2>4
<1>8. CASE Die \/ Reboot
  BY <1>8 DEF Die, Reboot, NoTx
<1>9. CASE Claim
  <2>1. \A a \in assets' : a.kind = "identity" => a \in assets
    BY <1>9, OthersAssumption DEF Claim, Foreign
  <2> QED
    BY <1>9, <2>1 DEF Claim
<1>10. CASE Withdraw
  BY <1>10 DEF Withdraw
<1>11. CASE Reconfigure
  BY <1>11 DEF Reconfigure
<1> QED
  BY <1>1, <1>2, <1>3, <1>4, <1>5, <1>6, <1>7, <1>8, <1>9, <1>10, <1>11 DEF Next, Step

\* A recorded table and window are never replaced.
THEOREM RecordedForGood == Spec => ResourcesStable
<1>1. Inv /\ [Next]_vars => [runtime # NoRecord => runtime' = runtime]_vars
  BY DEF Next, Step, Plan, Apply, Settle, SettleRefused, Rollback, ApplyDone, Record, Fail, Die,
         Reboot, Claim, Withdraw, Reconfigure, vars, Inv, KeepInv
<1> QED
  BY <1>1, InitInv, NextInv, PTL DEF Spec, ResourcesStable

\* router-recovery.json and runtime.json agree, whatever dies between them.
THEOREM IdentitiesAgree == Spec => []IdentityAgrees
<1>1. Inv => IdentityAgrees
  BY DEF Inv, IdentityInv, IdentityAgrees
<1> QED
  BY <1>1, InitInv, NextInv, PTL DEF Spec

(* What failed runs leave *************************************************)

\* An empty record is not one of the resources.
LEMMA UnsetIsNoResource == NoRecord \notin Resources
BY DEF NoRecord, Resources

\* The record and the running transaction hold resources of the pools or of
\* the configuration, and a replan is due at most once.
THEOREM TypeCorrect == Spec => []TypeOK
<1>1. Init => TypeOK
  <2>1. NoTx.res = NoRecord /\ NoTx.replans = 0
    BY DEF NoTx
  <2>2. Init => meddling = 0 /\ 0 \in 0 .. MaxMeddling
    BY PoolAssumption DEF Init
  <2>3. Init => tx.res = NoRecord /\ pc = "idle" /\ tx.replans = 0
    BY <2>1 DEF Init
  <2>4. Init => config \in Configs /\ runtime = NoRecord
    BY DEF Init
  <2> QED
    BY <2>2, <2>3, <2>4 DEF TypeOK
<1>2. TypeOK /\ TodoInv /\ [Next]_vars => TypeOK'
  <2> SUFFICES ASSUME TypeOK, TodoInv, [Next]_vars PROVE TypeOK'
    OBVIOUS
  <2> USE UnsetIsNoResource, PoolAssumption DEF TypeOK, TodoInv
  <2>1. CASE UNCHANGED vars
    BY <2>1 DEF vars
  <2>2. CASE Plan
    BY <2>2 DEF Plan, NoTx, Replans
  <2>3. CASE Apply
    BY <2>3 DEF Apply
  <2>4. CASE Settle
    BY <2>4 DEF Settle
  <2>5. CASE SettleRefused \/ Fail
    BY <2>5 DEF SettleRefused, Fail, Meddle, Rollback, NoTx
  <2>6. CASE ApplyDone \/ Record
    BY <2>6 DEF ApplyDone, Record, NoTx
  <2>7. CASE Die \/ Reboot
    <3>1. NoTx.res = NoRecord /\ NoTx.replans = 0
      BY DEF NoTx
    <3>2. pc' = "idle" /\ tx' = NoTx /\ UNCHANGED <<config, runtime>>
      BY <2>7 DEF Die, Reboot
    <3>3. meddling' \in 0 .. MaxMeddling
      BY <2>7 DEF Die, Reboot, Meddle
    <3> QED
      BY <3>1, <3>2, <3>3
  <2>8. CASE Claim \/ Withdraw \/ Reconfigure
    BY <2>8 DEF Claim, Withdraw, Reconfigure, Meddle
  <2> QED
    BY <2>1, <2>2, <2>3, <2>4, <2>5, <2>6, <2>7, <2>8 DEF Next, Step
<1>3. Inv => TodoInv
  BY DEF Inv
<1> QED
  BY <1>1, <1>2, <1>3, InitInv, NextInv, PTL DEF Spec

\* A replan is due only when router recovery corrects the flags, and by then
\* the enrolment with the transaction's resources is written or still to be
\* written, which nobody but the project takes away.
EnrolInv ==
    pc # "idle" =>
        /\ tx.replans > 0 => RouterRecovery
        /\ RouterRecovery => Identity(tx.res) \in assets \cup tx.todo

\* Everything a transaction has done is wanted with its resources.
DoneInv == pc # "idle" => tx.done \subseteq Wanted(tx.res)

\* Every own rule and table is one of the recorded resources, has just been made
\* by the running transaction, or was left behind.
OwnInv ==
    \A a \in assets : Own(a) =>
        \/ runtime # NoRecord /\ a \in Wanted(runtime)
        \/ pc # "idle" /\ a \in tx.done
        \/ a \in leaked

OriginInv == EnrolInv /\ DoneInv /\ OwnInv

\* An enrolment names one table and one window.
LEMMA IdentityIsInjective ==
    ASSUME NEW r \in Resources, NEW s \in Resources, Identity(r) = Identity(s)
    PROVE  r = s
BY DEF Identity, Resources

\* The replan gets the resources the transaction already has: they are in the
\* enrolment by then.
LEMMA SettleKeepsResources ==
    ASSUME TypeOK, EnrolInv, IdentityInv, NEW use \in Resources,
           pc = "apply", tx.todo = {}, tx.replans > 0, Planned(use)
    PROVE  use = tx.res
<1>1. Identity(tx.res) \in assets /\ tx.res \in Resources
  BY DEF EnrolInv, TypeOK
<1>2. Identity(tx.res) = Identity(use)
  BY <1>1, PlannedFacts DEF Identity
<1> QED
  BY <1>1, <1>2, IdentityIsInjective

\* The project has nothing in the kernel at the start.
LEMMA InitOrigin == Init => OriginInv
BY KindFacts DEF Init, OriginInv, EnrolInv, DoneInv, OwnInv, Own

\* Every step leaves each asset of the project with a record or an inverse.
LEMMA NextOrigin == TypeOK /\ Inv /\ OriginInv /\ [Next]_vars => OriginInv'
<1> SUFFICES ASSUME TypeOK, Inv, OriginInv, [Next]_vars PROVE OriginInv'
  OBVIOUS
<1> USE DEF OriginInv, EnrolInv, DoneInv, OwnInv
<1>1. CASE UNCHANGED vars
  BY <1>1 DEF vars
<1>2. CASE Plan
  <2> PICK use \in Resources :
        tx' = [NoTx EXCEPT !.res = use, !.todo = Missing(use), !.replans = Replans(use)]
    BY <1>2 DEF Plan
  <2>1. tx'.res = use /\ tx'.todo = Missing(use) /\ tx'.done = {} /\ tx'.replans = Replans(use)
    BY DEF NoTx
  <2>2. pc = "idle" /\ UNCHANGED <<assets, runtime, leaked>>
    BY <1>2 DEF Plan
  <2>3. tx'.replans > 0 => RouterRecovery
    BY <2>1, KindFacts DEF Replans, Missing, Wanted, WindowRules, ReservedRules
  <2>4. RouterRecovery => Identity(use) \in assets \cup Missing(use)
    BY DEF Missing, Wanted
  <2> QED
    BY <2>1, <2>2, <2>3, <2>4
<1>3. CASE Apply
  <2> PICK a \in Due :
        /\ assets' = assets \cup {a}
        /\ tx' = [tx EXCEPT !.todo = @ \ {a}, !.done = @ \cup {a}]
    BY <1>3 DEF Apply
  <2>1. pc = "apply" /\ a \in tx.todo /\ UNCHANGED <<pc, runtime, leaked>>
    BY <1>3 DEF Apply, Due
  <2>2. /\ tx'.res = tx.res /\ tx'.todo = tx.todo \ {a}
        /\ tx'.done = tx.done \cup {a} /\ tx'.replans = tx.replans
    BY DEF Inv, TodoInv
  <2>3. a \in Wanted(tx.res)
    BY <2>1 DEF Inv, TodoInv
  <2> QED
    BY <2>1, <2>2, <2>3
<1>4. CASE Settle
  <2> PICK use \in Resources :
        /\ pc = "apply" /\ tx.todo = {} /\ tx.replans > 0
        /\ Resettled(use)
        /\ tx' = [tx EXCEPT !.res = use, !.todo = Missing(use), !.replans = @ - 1]
        /\ UNCHANGED <<config, assets, runtime, pc, leaked, meddling>>
    BY <1>4 DEF Settle
  <2>1. use = tx.res
    BY SettleKeepsResources DEF Inv, Resettled
  <2>2. tx'.res = tx.res /\ tx'.done = tx.done /\ tx'.todo = Missing(use) /\ tx'.replans = tx.replans - 1
    BY <2>1 DEF Inv, TodoInv
  <2>3. RouterRecovery => Identity(use) \in assets \cup Missing(use)
    BY DEF Missing, Wanted
  <2> QED
    BY <2>1, <2>2, <2>3 DEF TypeOK
<1>5. CASE ApplyDone
  BY <1>5 DEF ApplyDone
<1>6. CASE Record
  <2>1. /\ pc = "verify" /\ runtime' = tx.res /\ pc' = "idle"
        /\ UNCHANGED <<assets, leaked>>
    BY <1>6 DEF Record
  <2>2. runtime' # NoRecord
    BY <2>1 DEF TypeOK
  <2>3. runtime # NoRecord => runtime' = runtime
    BY <2>1 DEF Inv, KeepInv
  <2> QED
    BY <2>1, <2>2, <2>3
<1>7. CASE SettleRefused \/ Fail
  <2> PICK left : Rollback(left)
    BY <1>7 DEF SettleRefused, Fail
  <2>1. \A a \in assets' : a \in left \/ a \in assets \ tx.done
    BY DEF Rollback, Undone
  <2>2. pc' = "idle" /\ leaked' = leaked \cup left /\ UNCHANGED runtime
    BY DEF Rollback
  <2> QED
    BY <2>1, <2>2
<1>8. CASE Die \/ Reboot
  BY <1>8 DEF Die, Reboot, Own
<1>9. CASE Claim
  BY <1>9, OthersAssumption DEF Claim, Own
<1>10. CASE Withdraw
  <2>1. \A a \in assets : a.kind = "identity" => a \in assets'
    BY <1>10 DEF Withdraw
  <2>2. Identity(tx.res).kind = "identity"
    BY DEF Identity
  <2>3. assets' \subseteq assets /\ UNCHANGED <<runtime, pc, tx, leaked>>
    BY <1>10 DEF Withdraw
  <2> QED
    BY <2>1, <2>2, <2>3
<1>11. CASE Reconfigure
  BY <1>11 DEF Reconfigure
<1> QED
  BY <1>1, <1>2, <1>3, <1>4, <1>5, <1>6, <1>7, <1>8, <1>9, <1>10, <1>11 DEF Next, Step

\* Between runs, every rule and table the project has in the kernel belongs to the
\* recorded resources, or is one that a run which died or an inverse which failed
\* left there: the rollback of a failed first run gives back everything else it
\* took, the replan of a transaction changes no resources, and a later run
\* never works with other ones.
THEOREM NothingOrphaned == Spec => []NoOrphans
<1>1. OriginInv => NoOrphans
  BY DEF OriginInv, OwnInv, NoOrphans
<1> QED
  BY <1>1, TypeCorrect, InitInv, NextInv, InitOrigin, NextOrigin, PTL DEF Spec
=============================================================================
