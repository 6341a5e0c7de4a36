------------------------------ MODULE Managed ------------------------------
(***************************************************************************)
(* The UniFi-managed WAN (managed.py): reconcile corrects two documents of *)
(* the controller, /interfaces and /services, and then the kernel, which   *)
(* UniFi rebuilds some time after every write.  A document is read,        *)
(* planned on, compared again and put back as a whole, without a version;  *)
(* the controller writes it whenever it likes.  The lock makes this one    *)
(* run at a time (OneTransaction of module Transaction).                   *)
(***************************************************************************)
EXTENDS Integers, Sequences, SequencesExt

CONSTANTS
    Rounds,      \* looks after the last action: 11 in _settle_delays
    MaxEdits,    \* bound on writes of the controller
    MaxFaults    \* bound on interruptions, refused PUTs and failing checks

ASSUME ManagedAssumption == Rounds \in Nat \ {0} /\ MaxEdits \in Nat /\ MaxFaults \in Nat

VARIABLES
    api,        \* the documents: the fields the project controls (own), and the
                \* rest, named by the edit of the controller it is from
    local,      \* enrolment record, kernel endpoint, project rules: as wished?
    rebuild,    \* UniFi has yet to rebuild the network after a write
    run,        \* the transaction
    hist        \* history: edits, the latest one of a document, documents edited
                \* between comparison and PUT, rebuilds after the last round, faults
vars == <<api, local, rebuild, run, hist>>

Docs  == {"interfaces", "services"}
Local == {"enrolment", "endpoint", "rules"}
Kernel == {"endpoint", "rules"}

\* "original": as UniFi provisions it; "foreign": another BR, another address or
\* another layout, which the plan refuses.
Own == {"original", "wanted", "foreign"}

Idle == [pc |-> "idle", todo |-> <<>>, undo |-> <<>>, rounds |-> 0, rolling |-> FALSE,
         failed |-> {}, seen |-> api, mark |-> 0, outcome |-> "none"]

Init ==
    /\ api \in [Docs -> [own : {"original", "wanted"}, rest : {0}]]
    /\ local \in [Local -> BOOLEAN] /\ rebuild = FALSE
    /\ run = Idle
    /\ hist = [edits |-> 0, latest |-> [d \in Docs |-> 0], raced |-> {}, late |-> FALSE, faults |-> 0]

Fault == hist.faults < MaxFaults /\ hist' = [hist EXCEPT !.faults = @ + 1]

(* The plan ***************************************************************)

Buildable == \A d \in Docs : api[d].own # "foreign"

\* The fields are as wished, but the tunnel or the address that UniFi makes of
\* them may be missing as yet.
Converging == rebuild /\ api["interfaces"].own = "wanted"

\* plan() appends an action for what is not as wished; the kernel endpoint only
\* when the interface fields are.
Add(actions, i, needed) == IF needed THEN Append(actions, i) ELSE actions

\* Fault: a drift of the kernel endpoint alone is overlooked.
Prepared_FieldsOnly == Add(Add(<<>>, "enrolment", ~local["enrolment"]), "interfaces", api["interfaces"].own # "wanted")

Prepared == Add(Add(Add(<<>>, "enrolment", ~local["enrolment"]), "interfaces", api["interfaces"].own # "wanted"),
                "endpoint", api["interfaces"].own = "wanted" /\ ~local["endpoint"])

Actions == Add(Add(Prepared, "rules", ~local["rules"]), "services", api["services"].own # "wanted")

SettleDelays(actions) == IF actions = <<>> THEN 0 ELSE Rounds

Plan ==
    /\ run.pc = "idle"
    /\ \/ Buildable /\ run' = [Idle EXCEPT !.pc = "act", !.todo = Actions, !.mark = hist.edits,
                                            !.rounds = SettleDelays(Actions)]
       \/ (~Buildable \/ Converging) /\ run' = [Idle EXCEPT !.outcome = "refused"]
    /\ hist' = [hist EXCEPT !.late = FALSE]
    /\ UNCHANGED <<api, local, rebuild>>

(* Actions and inverses ***************************************************)

Item == Head(IF run.rolling THEN run.undo ELSE run.todo)
More == run.pc = "act" /\ (IF run.rolling THEN run.undo # <<>> ELSE run.todo # <<>>)
Patched(d) == [run.seen[d] EXCEPT !.own = "wanted"]
Expected == IF run.rolling THEN Patched(Item) ELSE run.seen[Item]
Desired  == IF run.rolling THEN run.seen[Item] ELSE Patched(Item)

\* The next action, its inverse remembered first; or the next inverse.
Done == IF run.rolling THEN [run EXCEPT !.pc = "act", !.undo = Tail(@)]
        ELSE [run EXCEPT !.pc = "act", !.todo = Tail(@), !.undo = <<Item>> \o @]
\* Fault: the inverse is remembered when the action is done.
Raised_Completed == IF run.rolling THEN [Done EXCEPT !.failed = @ \cup {Item}]
                    ELSE [run EXCEPT !.pc = "act", !.rolling = TRUE]

\* An exception: in an action the inverses begin, in an inverse the next follows.
Raised == IF run.rolling THEN [Done EXCEPT !.failed = @ \cup {Item}]
          ELSE [run EXCEPT !.pc = "act", !.rolling = TRUE,
                           !.undo = IF run.todo = <<>> THEN @ ELSE <<Head(run.todo)>> \o @]

\* Rules that a rebuild has taken away cannot be deleted any more.
Execute ==
    /\ More /\ Item \in Local
    /\ local' = [local EXCEPT ![Item] = ~run.rolling]
    /\ run' = IF run.rolling /\ Item = "rules" /\ ~local["rules"] THEN Raised ELSE Done
    /\ UNCHANGED <<api, rebuild, hist>>

\* Fault: the document is put back without another look at it.
Compare_Blind ==
    /\ More /\ Item \in Docs
    /\ run' = IF api[Item] = Desired THEN Done ELSE [run EXCEPT !.pc = "put"]
    /\ UNCHANGED <<api, local, rebuild, hist>>

\* The interfaces are only read together with the services they belong to.
Unreadable == Item = "interfaces" /\ api["services"].own = "foreign"

\* put_interfaces and _put, for an action and for its inverse alike.
Compare ==
    /\ More /\ Item \in Docs
    /\ \/ api[Item] = Desired /\ run' = Done
       \/ api[Item] # Desired /\ api[Item] = Expected /\ run' = [run EXCEPT !.pc = "put"]
       \/ (api[Item] \notin {Desired, Expected} \/ Unreadable) /\ run' = Raised
    /\ UNCHANGED <<api, local, rebuild, hist>>

Put ==
    /\ run.pc = "put"
    /\ api' = [api EXCEPT ![Item] = Desired] /\ rebuild' = TRUE
    /\ run' = [run EXCEPT !.pc = "confirm"] /\ UNCHANGED <<local, hist>>

\* The controller answers with an error, whether it has taken the document or not.
PutFails ==
    /\ run.pc = "put" /\ Fault
    /\ \/ UNCHANGED <<api, rebuild>>
       \/ api' = [api EXCEPT ![Item] = Desired] /\ rebuild' = TRUE
    /\ run' = Raised /\ UNCHANGED local

PutConfirmed ==
    /\ run.pc = "confirm"
    /\ \/ api[Item] = Desired /\ run' = Done
       \/ (api[Item] # Desired \/ Unreadable) /\ run' = Raised
    /\ UNCHANGED <<api, local, rebuild, hist>>

(* Settling, health, end **************************************************)

Acted == run.pc = "act" /\ ~run.rolling /\ run.todo = <<>>

\* Fault: whatever the plan holds is applied.
Settle_Applies ==
    /\ Acted /\ run.rounds > 0
    /\ run' = IF Buildable THEN [run EXCEPT !.todo = Actions, !.rounds = @ - 1] ELSE Raised
    /\ UNCHANGED <<api, local, rebuild, hist>>

\* Fault: the rounds observe and repair nothing.
Settle_Looks ==
    /\ Acted /\ run.rounds > 0
    /\ run' = IF Buildable /\ ToSet(Actions) \subseteq Kernel
              THEN [run EXCEPT !.rounds = @ - 1] ELSE Raised
    /\ UNCHANGED <<api, local, rebuild, hist>>

\* The plan once more; it may hold kernel commands and nothing else.
Settle ==
    /\ Acted /\ run.rounds > 0
    /\ \/ /\ Buildable /\ ToSet(Actions) \subseteq Kernel
          /\ run' = [run EXCEPT !.todo = Actions, !.rounds = @ - 1]
       \/ (~Buildable \/ ~(ToSet(Actions) \subseteq Kernel) \/ Converging) /\ run' = Raised
    /\ UNCHANGED <<api, local, rebuild, hist>>

Healthy == local["endpoint"] /\ \A d \in Docs : api[d].own = "wanted"

HealthCheck ==
    /\ Acted /\ run.rounds = 0
    /\ \/ Healthy /\ run' = [Idle EXCEPT !.outcome = "healthy"]
       \/ (~Healthy \/ Converging) /\ run' = Raised
    /\ UNCHANGED <<api, local, rebuild, hist>>

\* A signal, a command or a check that fails.
Interrupted ==
    /\ run.pc # "idle" /\ ~run.rolling /\ Fault
    /\ run' = Raised /\ UNCHANGED <<api, local, rebuild>>

RolledBack ==
    /\ run.pc = "act" /\ run.rolling /\ run.undo = <<>>
    /\ run' = [Idle EXCEPT !.outcome = IF run.failed = {} THEN "rolled-back" ELSE "rollback-failed"]
    /\ UNCHANGED <<api, local, rebuild, hist>>

(* UniFi ******************************************************************)

\* The controller provisions a document, with or without the controlled fields.
Edit(d) ==
    /\ hist.edits < MaxEdits
    /\ \E o \in Own : api' = [api EXCEPT ![d] = [own |-> o, rest |-> hist.edits + 1]]
    /\ hist' = [hist EXCEPT !.edits = @ + 1, !.latest[d] = hist.edits + 1,
                            !.raced = IF run.pc = "put" /\ Item = d THEN @ \cup {d} ELSE @]
    /\ rebuild' = TRUE /\ UNCHANGED <<local, run>>

\* After a write: the endpoint becomes UniFi's own and the rules of others go.
Rebuild ==
    /\ rebuild /\ rebuild' = FALSE
    /\ local' = [local EXCEPT !["endpoint"] = FALSE, !["rules"] = FALSE]
    /\ hist' = [hist EXCEPT !.late = @ \/ run.rounds = 0]
    /\ UNCHANGED <<api, run>>

Step == Plan \/ Execute \/ Compare \/ Put \/ PutConfirmed \/ Settle \/ HealthCheck \/ RolledBack
Next == Step \/ PutFails \/ Interrupted \/ Rebuild \/ \E d \in Docs : Edit(d)
Spec == Init /\ [][Next]_vars

\* The timer starts run after run; UniFi rebuilds, and not every time between the
\* last round and the health check.
FollowedRebuild == Rebuild /\ Acted /\ run.rounds > 0
FairSpec == Spec /\ WF_vars(Step) /\ WF_vars(Rebuild) /\ SF_vars(FollowedRebuild)
-----------------------------------------------------------------------------
(* Properties *************************************************************)

\* After the first round a transaction runs kernel commands only.
TypeOK ==
    /\ api \in [Docs -> [own : Own, rest : 0 .. MaxEdits]]
    /\ local \in [Local -> BOOLEAN] /\ rebuild \in BOOLEAN
    /\ run.pc \in {"idle", "act", "put", "confirm"} /\ run.rounds \in 0 .. Rounds
    /\ ToSet(run.todo) \cup ToSet(run.undo) \subseteq Docs \cup Local
    /\ run.pc \in {"put", "confirm"} => Item \in Docs
    /\ run.rounds < Rounds => ToSet(run.todo) \subseteq Kernel

\* What the controller wrote to a document outside the controlled fields is never
\* put back to an older state, by an action or by its inverse, unless it came
\* between the comparison and the PUT, where "the API has no CAS" (guide.md 107).
EditsKept == \A d \in Docs : api[d].rest = hist.latest[d] \/ d \in hist.raced

\* "A conflict that needs a new API callback stops without repeated overwriting"
\* (validation.md 32): a transaction writes a document once, and once to undo it,
\* whatever the controller does meanwhile.
NoWriteWar == \A i, j \in DOMAIN run.undo : run.undo[i] = run.undo[j] /\ run.undo[i] \in Docs => i = j

\* A run that reports healthy leaves the documents and the kernel endpoint as
\* wished, and also the rules, which no health check looks at (managed.py
\* 167-181), unless UniFi rebuilt after the last round.
HealthyRepaired ==
    [][run.pc # "idle" /\ run'.outcome = "healthy" => Healthy /\ (local["rules"] \/ hist.late)]_vars

\* A rollback brings back the very document the plan saw, also when it is not
\* known whether a PUT took effect; unless the controller wrote it since, or the
\* rollback names it as failed.
RollbackReturns ==
    [][run.rolling /\ run'.pc = "idle" =>
          \A d \in Docs : api[d] = run.seen[d] \/ hist.latest[d] > run.mark \/ d \in run.failed]_vars

\* After the last edit and fault the managed WAN is and stays as wished, or its
\* plan is refused for somebody else's value in a controlled field.
EventuallyManaged == <>[](~Buildable \/ (Healthy /\ local["rules"] /\ local["enrolment"]))
=============================================================================
