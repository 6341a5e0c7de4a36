--------------------------- MODULE ManagedProofs ---------------------------
(***************************************************************************)
(* Proofs about module Managed, for any number of rounds, edits of the     *)
(* controller and faults: foreign edits survive, nobody is overwritten     *)
(* twice, and health and rollback mean what they say.                      *)
(***************************************************************************)
EXTENDS Managed, SequenceTheorems, TLAPS

(* Lists of actions *******************************************************)

Items == Docs \cup Local

\* A document occurs once.
Once(s) == \A i, j \in DOMAIN s : s[i] = s[j] /\ s[i] \in Docs => i = j

\* Nothing but the documents and the local assets can be in a list.
LEMMA Separate == Docs \cap Local = {} /\ Kernel \subseteq Local /\ Kernel \cap Docs = {} /\ "rules" \in Local
    BY DEF Docs, Local, Kernel

\* What an empty list contains.
LEMMA ListEmpty == <<>> \in Seq(Items) /\ ToSet(<<>>) = {} /\ Once(<<>>)
<1>1. <<>> \in Seq(Items) /\ Len(<<>>) = 0
    BY EmptySeq
<1>2. DOMAIN <<>> = 1 .. 0
    BY <1>1, LenProperties
<1> QED
    BY <1>1, <1>2 DEF ToSet, Once

\* What the head and the tail of a list contain.
LEMMA ListTail ==
    ASSUME NEW s \in Seq(Items), s # <<>>
    PROVE  /\ Head(s) \in Items /\ Tail(s) \in Seq(Items)
           /\ ToSet(s) = {Head(s)} \cup ToSet(Tail(s))
           /\ Once(s) => Once(Tail(s)) /\ (Head(s) \in Docs => Head(s) \notin ToSet(Tail(s)))
<1> DEFINE t == Tail(s)
<1>1. /\ Head(s) \in Items /\ t \in Seq(Items) /\ Len(t) = Len(s) - 1
      /\ \A i \in 1 .. Len(t) : t[i] = s[i + 1]
    BY HeadTailProperties
<1>2. Len(s) \in Nat \ {0} /\ DOMAIN s = 1 .. Len(s) /\ DOMAIN t = 1 .. Len(t) /\ Len(t) \in Nat
    BY <1>1, LenProperties, EmptySeq
<1>3. Head(s) = s[1]
    BY <1>2
<1> HIDE DEF t
<1>4. ToSet(s) = {s[1]} \cup ToSet(t)
    <2>1. ASSUME NEW i \in DOMAIN s PROVE s[i] \in {s[1]} \cup ToSet(t)
        <3>1. CASE i = 1
            BY <3>1
        <3>2. CASE i # 1
            <4>1. i - 1 \in 1 .. Len(t) /\ t[i - 1] = s[(i - 1) + 1] /\ (i - 1) + 1 = i
                BY <1>1, <1>2, <3>2
            <4> QED
                BY <1>2, <4>1 DEF ToSet
        <3> QED
            BY <3>1, <3>2
    <2>2. ASSUME NEW i \in DOMAIN t PROVE t[i] \in ToSet(s)
        <3>1. t[i] = s[i + 1] /\ i + 1 \in DOMAIN s
            BY <1>1, <1>2
        <3> QED
            BY <3>1 DEF ToSet
    <2>3. s[1] \in ToSet(s)
        BY <1>2 DEF ToSet
    <2> QED
        BY <2>1, <2>2, <2>3 DEF ToSet
<1>5. ASSUME Once(s) PROVE Once(t) /\ (s[1] \in Docs => s[1] \notin ToSet(t))
    <2>1. ASSUME NEW i \in DOMAIN t, NEW j \in DOMAIN t, t[i] = t[j], t[i] \in Docs PROVE i = j
        <3>1. i + 1 \in DOMAIN s /\ j + 1 \in DOMAIN s /\ s[i + 1] = s[j + 1] /\ s[i + 1] \in Docs
            BY <1>1, <1>2, <2>1
        <3>2. i + 1 = j + 1
            BY <1>5, <3>1 DEF Once
        <3> QED
            BY <1>2, <3>2
    <2>2. ASSUME s[1] \in Docs, NEW i \in DOMAIN t, t[i] = s[1] PROVE FALSE
        <3>1. 1 \in DOMAIN s /\ i + 1 \in DOMAIN s /\ s[i + 1] = s[1]
            BY <1>1, <1>2, <2>2
        <3>2. i + 1 = 1
            BY <1>5, <2>2, <3>1 DEF Once
        <3> QED
            BY <1>2, <3>2
    <2> QED
        BY <2>1, <2>2 DEF Once, ToSet
<1> QED
    BY <1>1, <1>3, <1>4, <1>5 DEF t

\* What a list with a new head contains.
LEMMA ListCons ==
    ASSUME NEW s \in Seq(Items), NEW e \in Items
    PROVE  LET t == <<e>> \o s
           IN  /\ t \in Seq(Items) /\ ToSet(t) = {e} \cup ToSet(s)
               /\ Once(s) /\ (e \in Docs => e \notin ToSet(s)) => Once(t)
<1> DEFINE t == <<e>> \o s
<1>1. <<e>> \in Seq(Items) /\ Len(<<e>>) = 1 /\ <<e>>[1] = e
    OBVIOUS
<1>2. t \in Seq(Items) /\ Len(t) = 1 + Len(s) /\ \A i \in 1 .. 1 + Len(s) : t[i] = IF i <= 1 THEN <<e>>[i] ELSE s[i - 1]
    BY <1>1, ConcatProperties
<1>3. Len(s) \in Nat /\ DOMAIN s = 1 .. Len(s) /\ DOMAIN t = 1 .. 1 + Len(s)
    BY <1>2, LenProperties
<1> HIDE DEF t
<1>4. t[1] = e /\ \A i \in DOMAIN s : i + 1 \in DOMAIN t /\ t[i + 1] = s[i]
    BY <1>1, <1>2, <1>3
<1>5. \A i \in DOMAIN t : i # 1 => i - 1 \in DOMAIN s /\ t[i] = s[i - 1]
    BY <1>2, <1>3
<1>6. ToSet(t) = {e} \cup ToSet(s)
    <2>1. 1 \in DOMAIN t
        BY <1>3
    <2>2. \A x \in ToSet(t) : x \in {e} \cup ToSet(s)
        BY <1>4, <1>5 DEF ToSet
    <2>3. \A x \in {e} \cup ToSet(s) : x \in ToSet(t)
        BY <1>4, <2>1 DEF ToSet
    <2> QED
        BY <2>2, <2>3
<1>7. ASSUME Once(s), e \in Docs => e \notin ToSet(s) PROVE Once(t)
    <2>1. ASSUME NEW i \in DOMAIN t, NEW j \in DOMAIN t, t[i] = t[j], t[i] \in Docs PROVE i = j
        <3>1. CASE i = 1 /\ j = 1
            BY <3>1
        <3>2. CASE i = 1 /\ j # 1
            BY <1>4, <1>5, <1>7, <2>1, <3>2 DEF ToSet
        <3>3. CASE i # 1 /\ j = 1
            BY <1>4, <1>5, <1>7, <2>1, <3>3 DEF ToSet
        <3>4. CASE i # 1 /\ j # 1
            <4>1. i - 1 = j - 1
                BY <1>5, <1>7, <2>1, <3>4 DEF Once
            <4> QED
                BY <1>3, <4>1
        <3> QED
            BY <3>1, <3>2, <3>3, <3>4
    <2> QED
        BY <2>1 DEF Once
<1> QED
    BY <1>2, <1>6, <1>7 DEF t

\* What Add adds.
LEMMA ListAdd ==
    ASSUME NEW s \in Seq(Items), NEW e \in Items, NEW b \in BOOLEAN, Once(s), e \notin ToSet(s)
    PROVE  /\ Add(s, e, b) \in Seq(Items) /\ Once(Add(s, e, b))
           /\ ToSet(s) \subseteq ToSet(Add(s, e, b)) /\ ToSet(Add(s, e, b)) \subseteq ToSet(s) \cup {e}
           /\ b => e \in ToSet(Add(s, e, b))
<1>1. CASE ~b
    BY <1>1 DEF Add
<1>2. CASE b
    <2> DEFINE t == Append(s, e)
    <2>1. /\ t \in Seq(Items) /\ Len(t) = Len(s) + 1
          /\ \A i \in 1 .. Len(s) : t[i] = s[i]
          /\ t[Len(s) + 1] = e
        BY AppendProperties
    <2>2. Len(s) \in Nat /\ DOMAIN s = 1 .. Len(s) /\ DOMAIN t = 1 .. Len(s) + 1
        BY <2>1, LenProperties
    <2> HIDE DEF t
    <2>3. \A i \in DOMAIN t : i \in DOMAIN s \/ i = Len(s) + 1
        BY <2>2
    <2>4. ToSet(t) = ToSet(s) \cup {e}
        <3>1. \A x \in ToSet(t) : x \in ToSet(s) \cup {e}
            BY <2>1, <2>2, <2>3 DEF ToSet
        <3>2. \A i \in DOMAIN s : i \in DOMAIN t
            BY <2>2
        <3>3. Len(s) + 1 \in DOMAIN t
            BY <2>2
        <3>4. \A x \in ToSet(s) \cup {e} : x \in ToSet(t)
            BY <2>1, <2>2, <3>2, <3>3 DEF ToSet
        <3> QED
            BY <3>1, <3>4
    <2>5. Once(t)
        <3>1. ASSUME NEW i \in DOMAIN t, NEW j \in DOMAIN t, t[i] = t[j], t[i] \in Docs PROVE i = j
            <4>1. CASE i \in DOMAIN s /\ j \in DOMAIN s
                BY <2>1, <2>2, <3>1, <4>1 DEF Once
            <4>2. CASE i = Len(s) + 1 /\ j = Len(s) + 1
                BY <4>2
            <4>3. CASE i \in DOMAIN s /\ j = Len(s) + 1
                BY <2>1, <2>2, <3>1, <4>3 DEF ToSet
            <4>4. CASE i = Len(s) + 1 /\ j \in DOMAIN s
                BY <2>1, <2>2, <3>1, <4>4 DEF ToSet
            <4> QED
                BY <2>3, <4>1, <4>2, <4>3, <4>4
        <3> QED
            BY <3>1 DEF Once
    <2>6. Add(s, e, b) = t
        BY <1>2 DEF Add, t
    <2> QED
        BY <1>2, <2>1, <2>4, <2>5, <2>6
<1> QED
    BY <1>1, <1>2

\* What the plan lists.
LEMMA ActionsFacts ==
    ASSUME local \in [Local -> BOOLEAN]
    PROVE  Actions \in Seq(Items) /\ Once(Actions) /\ (~local["rules"] => "rules" \in ToSet(Actions))
<1> DEFINE a == Add(<<>>, "enrolment", ~local["enrolment"])
           b == Add(a, "interfaces", api["interfaces"].own # "wanted")
           c == Add(b, "endpoint", api["interfaces"].own = "wanted" /\ ~local["endpoint"])
           d == Add(c, "rules", ~local["rules"])
<1>1. {"enrolment", "interfaces", "endpoint", "rules", "services"} \subseteq Items
    BY DEF Items, Docs, Local
<1>2. a \in Seq(Items) /\ Once(a) /\ ToSet(a) \subseteq {"enrolment"}
    BY <1>1, ListEmpty, ListAdd
<1> HIDE DEF a
<1>3. b \in Seq(Items) /\ Once(b) /\ ToSet(b) \subseteq {"enrolment", "interfaces"}
    <2>1. "interfaces" \in Items /\ "interfaces" \notin ToSet(a)
        BY <1>1, <1>2
    <2> QED
        BY <1>2, <2>1, ListAdd
<1> HIDE DEF b
<1>4. c \in Seq(Items) /\ Once(c) /\ ToSet(c) \subseteq {"enrolment", "interfaces", "endpoint"}
    <2>1. "endpoint" \in Items /\ "endpoint" \notin ToSet(b)
        BY <1>1, <1>3
    <2> QED
        BY <1>3, <2>1, ListAdd
<1> HIDE DEF c
<1>5. /\ d \in Seq(Items) /\ Once(d) /\ ToSet(d) \subseteq {"enrolment", "interfaces", "endpoint", "rules"}
      /\ ~local["rules"] => "rules" \in ToSet(d)
    <2>1. "rules" \in Items /\ "rules" \notin ToSet(c)
        BY <1>1, <1>4
    <2>2. /\ d \in Seq(Items) /\ Once(d) /\ ToSet(d) \subseteq ToSet(c) \cup {"rules"}
          /\ ~local["rules"] => "rules" \in ToSet(d)
        BY <1>4, <2>1, ListAdd
    <2> QED
        BY <1>4, <2>2
<1> HIDE DEF d
<1>6. Actions = Add(d, "services", api["services"].own # "wanted")
    BY DEF a, b, c, d, Actions, Prepared
<1> QED
    <2>1. "services" \in Items /\ "services" \notin ToSet(d)
        BY <1>1, <1>5
    <2>2. Actions \in Seq(Items) /\ Once(Actions) /\ ToSet(d) \subseteq ToSet(Actions)
        BY <1>5, <1>6, <2>1, ListAdd
    <2> QED
        BY <1>5, <2>2

(* The invariant **********************************************************)

Doc == [own : Own, rest : 0 .. MaxEdits]
Run == [pc : {"idle", "act", "put", "confirm"}, todo : Seq(Items), undo : Seq(Items), rounds : 0 .. Rounds,
        rolling : BOOLEAN, failed : SUBSET Items, seen : [Docs -> Doc], mark : 0 .. MaxEdits,
        outcome : {"none", "healthy", "refused", "rolled-back", "rollback-failed"}]

Shape ==
    /\ api \in [Docs -> Doc]
    /\ local \in [Local -> BOOLEAN] /\ rebuild \in BOOLEAN
    /\ run \in Run
    /\ hist \in [edits : 0 .. MaxEdits, latest : [Docs -> 0 .. MaxEdits], raced : SUBSET Docs,
                 late : BOOLEAN, faults : 0 .. MaxFaults]

\* The list a run works on.
List == IF run.rolling THEN run.undo ELSE run.todo

Control ==
    /\ run.pc = "idle" => ~run.rolling
    /\ run.pc # "idle" => run.outcome = "none" /\ run.mark <= hist.edits
    /\ run.pc \in {"put", "confirm"} => List # <<>> /\ Head(List) \in Docs
    /\ run.rounds < Rounds => ToSet(run.todo) \subseteq Kernel

\* No document is listed twice, neither as done nor as to be done.
Listed ==
    /\ Once(run.undo)
    /\ ~run.rolling => Once(run.todo) /\ \A d \in Docs : d \notin ToSet(run.todo) \/ d \notin ToSet(run.undo)

\* What is about to be put back is what the plan saw, unless somebody came between.
Kept ==
    /\ EditsKept
    /\ run.pc = "put" => api[Item].rest = run.seen[Item].rest \/ Item \in hist.raced

\* With no round left, the rules are there, about to be, or taken away since.
RulesKept ==
    run.pc # "idle" /\ ~run.rolling /\ run.rounds = 0 => "rules" \in ToSet(run.todo) \/ local["rules"] \/ hist.late

\* A document that a run changed can still be put back.
Returnable(d) ==
    \/ hist.latest[d] > run.mark \/ d \in run.failed \/ api[d] = run.seen[d]
    \/ api[d] = Patched(d) /\ (d \in ToSet(run.undo) \/ (~run.rolling /\ run.pc = "confirm" /\ d = Item))
Returning == run.pc # "idle" => \A d \in Docs : Returnable(d)

IInv == Shape /\ Control /\ Listed /\ Kept /\ RulesKept /\ Returning

(* Runs *******************************************************************)

\* An action or an inverse is done.
Advance ==
    /\ run' \in Run /\ run'.pc = "act" /\ run'.rolling = run.rolling /\ run'.rounds = run.rounds
    /\ run'.failed = run.failed /\ run'.seen = run.seen /\ run'.mark = run.mark /\ run'.outcome = run.outcome
    /\ run.rolling => run'.undo = Tail(run.undo) /\ run'.todo = run.todo
    /\ ~run.rolling => run'.todo = Tail(run.todo) /\ run'.undo = <<Head(run.todo)>> \o run.undo

\* One fails.
Failing ==
    /\ run' \in Run /\ run'.pc = "act" /\ run'.rolling /\ run'.rounds = run.rounds
    /\ run'.seen = run.seen /\ run'.mark = run.mark /\ run'.outcome = run.outcome /\ run'.todo = run.todo
    /\ run.rolling => run'.undo = Tail(run.undo) /\ run'.failed = run.failed \cup {Head(run.undo)}
    /\ ~run.rolling => /\ run'.failed = run.failed
                       /\ run'.undo = IF run.todo = <<>> THEN run.undo ELSE <<Head(run.todo)>> \o run.undo

\* What Done does.
LEMMA DoneFacts == ASSUME Shape, List # <<>>, run' = Done PROVE Advance
<1>1. run \in Run /\ run.todo \in Seq(Items) /\ run.undo \in Seq(Items)
    BY DEF Shape, Run
<1>2. CASE run.rolling
    <2>1. Tail(run.undo) \in Seq(Items)
        BY <1>1, <1>2, ListTail DEF List
    <2>2. run' = [run EXCEPT !.pc = "act", !.undo = Tail(@)]
        BY <1>2 DEF Done
    <2> QED
        BY <1>1, <1>2, <2>1, <2>2 DEF Advance, Run
<1>3. CASE ~run.rolling
    <2>1. Head(run.todo) \in Items /\ Tail(run.todo) \in Seq(Items)
        BY <1>1, <1>3, ListTail DEF List
    <2>2. <<Head(run.todo)>> \o run.undo \in Seq(Items)
        BY <1>1, <2>1, ListCons
    <2>3. run' = [run EXCEPT !.pc = "act", !.todo = Tail(@), !.undo = <<Head(run.todo)>> \o @]
        BY <1>3 DEF Done, Item
    <2> QED
        BY <1>1, <1>3, <2>1, <2>2, <2>3 DEF Advance, Run
<1> QED
    BY <1>2, <1>3

\* What Raised does.
LEMMA RaisedFacts == ASSUME Shape, run.rolling => run.undo # <<>>, run' = Raised PROVE Failing
<1>1. run \in Run /\ run.todo \in Seq(Items) /\ run.undo \in Seq(Items)
    BY DEF Shape, Run
<1>2. CASE run.rolling
    <2>1. Head(run.undo) \in Items /\ Tail(run.undo) \in Seq(Items)
        BY <1>1, <1>2, ListTail
    <2> DEFINE d == [run EXCEPT !.pc = "act", !.undo = Tail(@)]
    <2>2. run' = [d EXCEPT !.failed = @ \cup {Head(run.undo)}]
        BY <1>2 DEF Raised, Done, Item
    <2>3. /\ d \in Run /\ d.pc = "act" /\ d.undo = Tail(run.undo) /\ d.todo = run.todo /\ d.rolling = run.rolling
          /\ d.rounds = run.rounds /\ d.seen = run.seen /\ d.mark = run.mark /\ d.outcome = run.outcome
          /\ d.failed = run.failed
        BY <1>1, <2>1 DEF Run
    <2> HIDE DEF d
    <2>4. d.failed \cup {Head(run.undo)} \in SUBSET Items
        BY <1>1, <2>1, <2>3 DEF Run
    <2>5. run' \in Run
        BY <2>2, <2>3, <2>4 DEF Run
    <2> QED
        BY <1>2, <2>2, <2>3, <2>5 DEF Failing, Run
<1>3. CASE ~run.rolling
    <2> DEFINE u == IF run.todo = <<>> THEN run.undo ELSE <<Head(run.todo)>> \o run.undo
    <2>1. u \in Seq(Items)
        BY <1>1, ListTail, ListCons
    <2>2. run' = [run EXCEPT !.pc = "act", !.rolling = TRUE, !.undo = u]
        BY <1>1, <1>3 DEF Raised
    <2> HIDE DEF u
    <2>3. run' \in Run /\ run'.undo = u /\ run'.pc = "act" /\ run'.rolling /\ run'.rounds = run.rounds
          /\ run'.seen = run.seen /\ run'.mark = run.mark /\ run'.outcome = run.outcome /\ run'.todo = run.todo
          /\ run'.failed = run.failed
        BY <1>1, <2>1, <2>2 DEF Run
    <2> QED
        BY <1>3, <2>3 DEF Failing, u
<1> QED
    BY <1>2, <1>3

\* What Idle is.
LEMMA IdleFacts ==
    ASSUME Shape
    PROVE  /\ Idle \in Run /\ Idle.pc = "idle" /\ Idle.todo = <<>> /\ Idle.undo = <<>> /\ Idle.rounds = 0
           /\ Idle.rolling = FALSE /\ Idle.failed = {} /\ Idle.seen = api /\ Idle.mark = 0 /\ Idle.outcome = "none"
<1>1. 0 \in 0 .. Rounds /\ 0 \in 0 .. MaxEdits
    BY ManagedAssumption
<1> QED
    BY <1>1, ListEmpty DEF Idle, Run, Shape

(* What a run keeps while it goes on **************************************)

\* Its control, when an item is done ...
LEMMA AdvanceControl ==
    ASSUME Shape, Control, run.pc # "idle", List # <<>>, Advance, hist'.edits = hist.edits
    PROVE  Control'
<1>1. run.todo \in Seq(Items)
    BY DEF Shape, Run
<1>2. ~run.rolling => ToSet(Tail(run.todo)) \subseteq ToSet(run.todo)
    BY <1>1, ListTail DEF List
<1> QED
    BY <1>2 DEF Control, Advance

\* ... or fails.
LEMMA FailingControl ==
    ASSUME Shape, Control, run.pc # "idle", Failing, hist'.edits = hist.edits
    PROVE  Control'
    BY DEF Control, Failing

\* Its lists, when an item is done ...
LEMMA AdvanceListed ==
    ASSUME Shape, Listed, List # <<>>, Advance
    PROVE  Listed'
<1>1. run.todo \in Seq(Items) /\ run.undo \in Seq(Items)
    BY DEF Shape, Run
<1>2. CASE run.rolling
    BY <1>1, <1>2, ListTail DEF Listed, Advance, List
<1>3. CASE ~run.rolling
    <2> DEFINE h == Head(run.todo)
               t == Tail(run.todo)
               u == <<h>> \o run.undo
    <2>1. /\ h \in Items /\ t \in Seq(Items) /\ ToSet(run.todo) = {h} \cup ToSet(t)
          /\ Once(t) /\ (h \in Docs => h \notin ToSet(t))
        BY <1>1, <1>3, ListTail DEF List, Listed
    <2>2. h \in Docs => h \notin ToSet(run.undo)
        BY <1>3, <2>1 DEF Listed
    <2>3. ToSet(u) = {h} \cup ToSet(run.undo) /\ Once(u)
        BY <1>1, <2>1, <2>2, ListCons DEF Listed
    <2>4. run'.todo = t /\ run'.undo = u /\ ~run'.rolling
        BY <1>3 DEF Advance
    <2> HIDE DEF h, t, u
    <2>5. \A d \in Docs : d \notin ToSet(t) \/ d \notin ToSet(u)
        BY <1>3, <2>1, <2>3 DEF Listed
    <2> QED
        BY <2>1, <2>3, <2>4, <2>5 DEF Listed
<1> QED
    BY <1>2, <1>3

\* ... or fails.
LEMMA FailingListed ==
    ASSUME Shape, Listed, run.rolling => run.undo # <<>>, Failing
    PROVE  Listed'
<1>1. run.todo \in Seq(Items) /\ run.undo \in Seq(Items)
    BY DEF Shape, Run
<1>2. CASE run.rolling
    BY <1>1, <1>2, ListTail DEF Listed, Failing
<1>3. CASE ~run.rolling /\ run.todo = <<>>
    BY <1>3 DEF Listed, Failing
<1>4. CASE ~run.rolling /\ run.todo # <<>>
    <2> DEFINE h == Head(run.todo)
    <2>1. h \in Items /\ h \in ToSet(run.todo)
        BY <1>1, <1>4, ListTail
    <2>2. h \in Docs => h \notin ToSet(run.undo)
        BY <1>4, <2>1 DEF Listed
    <2>3. Once(<<h>> \o run.undo)
        BY <1>1, <2>1, <2>2, ListCons DEF Listed
    <2> QED
        BY <1>4, <2>3 DEF Listed, Failing
<1> QED
    BY <1>2, <1>3, <1>4

\* The way back, when an item is done: an action is remembered, an inverse has
\* put back what the plan saw ...
LEMMA AdvanceReturning ==
    ASSUME Shape, Returning, run.pc # "idle", List # <<>>, Advance, api' = api, hist'.latest = hist.latest,
           run.rolling /\ Item \in Docs => api[Item] = run.seen[Item]
    PROVE  Returning'
<1>1. run.todo \in Seq(Items) /\ run.undo \in Seq(Items)
    BY DEF Shape, Run
<1> SUFFICES ASSUME NEW d \in Docs PROVE Returnable(d)'
    BY DEF Returning
<1>2. Returnable(d)
    BY DEF Returning
<1>3. Patched(d)' = Patched(d) /\ run'.seen = run.seen /\ run'.failed = run.failed /\ run'.mark = run.mark
    BY DEF Patched, Advance
<1>4. CASE run.rolling
    <2>1. ToSet(run.undo) = {Item} \cup ToSet(run'.undo)
        BY <1>1, <1>4, ListTail DEF List, Item, Advance
    <2> QED
        BY <1>2, <1>3, <1>4, <2>1 DEF Returnable
<1>5. CASE ~run.rolling
    <2>1. Item \in Items
        BY <1>1, <1>5, ListTail DEF List, Item
    <2>2. ToSet(run'.undo) = {Item} \cup ToSet(run.undo)
        BY <1>1, <1>5, <2>1, ListCons DEF Item, Advance
    <2> QED
        BY <1>2, <1>3, <1>5, <2>2 DEF Returnable
<1> QED
    BY <1>4, <1>5

\* ... or fails, whether the document was written or not.
LEMMA FailingReturning ==
    ASSUME Shape, Control, Returning, run.pc # "idle", run.rolling => run.undo # <<>>, Failing,
           hist'.latest = hist.latest,
           \A d \in Docs : api'[d] = api[d] \/ (d = Item /\ run.pc = "put" /\ api'[d] = Desired)
    PROVE  Returning'
<1>1. run.todo \in Seq(Items) /\ run.undo \in Seq(Items)
    BY DEF Shape, Run
<1> SUFFICES ASSUME NEW d \in Docs PROVE Returnable(d)'
    BY DEF Returning
<1>2. Returnable(d)
    BY DEF Returning
<1>3. Patched(d)' = Patched(d) /\ run'.seen = run.seen /\ run'.mark = run.mark
    BY DEF Patched, Failing
<1>4. CASE run.rolling
    <2>1. ToSet(run.undo) = {Item} \cup ToSet(run'.undo) /\ run'.failed = run.failed \cup {Item}
        BY <1>1, <1>4, ListTail DEF Item, Failing
    <2> QED
        BY <1>2, <1>3, <1>4, <2>1 DEF Returnable
<1>5. CASE ~run.rolling /\ run.todo = <<>>
    <2>1. run.pc \notin {"put", "confirm"}
        BY <1>5 DEF Control, List
    <2> QED
        BY <1>2, <1>3, <1>5, <2>1 DEF Returnable, Failing
<1>6. CASE ~run.rolling /\ run.todo # <<>>
    <2>1. Item \in Items
        BY <1>1, <1>6, ListTail DEF Item
    <2>2. ToSet(run'.undo) = {Item} \cup ToSet(run.undo) /\ run'.failed = run.failed
        BY <1>1, <1>6, <2>1, ListCons DEF Item, Failing
    <2>3. Desired = Patched(Item)
        BY <1>6 DEF Desired
    <2> QED
        BY <1>2, <1>3, <1>6, <2>2, <2>3 DEF Returnable
<1> QED
    BY <1>4, <1>5, <1>6

(* What each action does to the run ***************************************)

\* The document that is about to be put back or confirmed.
LEMMA ItemFacts ==
    ASSUME Shape, Item \in Docs
    PROVE  /\ Desired \in Doc /\ Expected \in Doc
           /\ Desired.rest = run.seen[Item].rest /\ Expected.rest = run.seen[Item].rest
           /\ run.rolling => Desired = run.seen[Item]
           /\ ~run.rolling => Desired = Patched(Item)
<1>1. run.seen[Item] \in Doc
    BY DEF Shape, Run
<1>2. Patched(Item) \in Doc /\ Patched(Item).rest = run.seen[Item].rest
    BY <1>1 DEF Patched, Doc, Own
<1> HIDE DEF Doc
<1> QED
    BY <1>1, <1>2 DEF Desired, Expected

\* The item is the head of the list.
LEMMA ItemIsHead == ASSUME Control, run.pc \in {"put", "confirm"} PROVE List # <<>> /\ Item \in Docs
    BY DEF Control, List, Item

\* A plan is refused, or the run has its actions and the latest look at the documents.
LEMMA PlanFacts ==
    ASSUME Shape, Plan
    PROVE  /\ run' \in Run /\ ~run'.rolling /\ run'.undo = <<>> /\ run'.seen = api
           /\ \/ run'.pc = "idle" /\ run'.todo = <<>>
              \/ /\ run'.pc = "act" /\ run'.outcome = "none" /\ run'.mark = hist.edits
                 /\ run'.todo = Actions /\ run'.rounds = SettleDelays(Actions)
           /\ run'.rounds < Rounds => run'.todo = <<>>
<1> DEFINE acts == Actions
           delays == SettleDelays(acts)
<1>1. acts \in Seq(Items)
    BY ActionsFacts DEF Shape
<1>2. delays \in 0 .. Rounds /\ (delays < Rounds => acts = <<>>)
    BY ManagedAssumption DEF SettleDelays
<1>3. hist.edits \in 0 .. MaxEdits
    BY DEF Shape
<1>4. \/ run' = [Idle EXCEPT !.pc = "act", !.todo = acts, !.mark = hist.edits, !.rounds = delays]
      \/ run' = [Idle EXCEPT !.outcome = "refused"]
    BY DEF Plan
<1> HIDE DEF acts, delays
<1>5. CASE run' = [Idle EXCEPT !.pc = "act", !.todo = acts, !.mark = hist.edits, !.rounds = delays]
    <2>1. run' \in Run
        BY <1>1, <1>2, <1>3, <1>5, IdleFacts DEF Run
    <2>2. /\ ~run'.rolling /\ run'.undo = <<>> /\ run'.seen = api /\ run'.pc = "act" /\ run'.outcome = "none"
          /\ run'.mark = hist.edits /\ run'.todo = acts /\ run'.rounds = delays
        BY <1>5, IdleFacts DEF Run
    <2> QED
        BY <1>2, <2>1, <2>2 DEF acts, delays
<1>6. CASE run' = [Idle EXCEPT !.outcome = "refused"]
    BY <1>6, IdleFacts DEF Run
<1> QED
    BY <1>4, <1>5, <1>6

\* A local action is done; only the inverse of the rules may fail.
LEMMA ExecuteFacts ==
    ASSUME Shape, Execute
    PROVE  /\ run.pc = "act" /\ List # <<>> /\ Item \in Local
           /\ Advance \/ (Failing /\ run.rolling)
<1>1. run.pc = "act" /\ List # <<>> /\ Item \in Local
    BY DEF Execute, More, List
<1>2. run' = Done \/ (run' = Raised /\ run.rolling)
    BY DEF Execute
<1>3. run.rolling => run.undo # <<>>
    BY <1>1 DEF List
<1> QED
    BY <1>1, <1>2, <1>3, DoneFacts, RaisedFacts

\* A document is as desired, is what somebody else wrote, or is about to be put.
LEMMA CompareFacts ==
    ASSUME Shape, Compare
    PROVE  /\ run.pc = "act" /\ List # <<>> /\ Item \in Docs
           /\ \/ Advance /\ api[Item] = Desired
              \/ Failing
              \/ run' = [run EXCEPT !.pc = "put"] /\ api[Item] = Expected
           /\ run.rolling => run.undo # <<>>
<1>1. run.pc = "act" /\ List # <<>> /\ Item \in Docs
    BY DEF Compare, More, List
<1>2. run.rolling => run.undo # <<>>
    BY <1>1 DEF List
<1>3. CASE run' = Done /\ api[Item] = Desired
    BY <1>1, <1>2, <1>3, DoneFacts
<1>4. CASE run' = Raised
    BY <1>1, <1>2, <1>4, RaisedFacts
<1>5. CASE run' = [run EXCEPT !.pc = "put"] /\ api[Item] = Expected
    BY <1>1, <1>2, <1>5
<1> QED
    BY <1>3, <1>4, <1>5 DEF Compare

\* A PUT that fails, or that is confirmed or not.
LEMMA PutFacts ==
    ASSUME Shape, Control, PutFails \/ PutConfirmed
    PROVE  /\ run.pc # "idle" /\ List # <<>> /\ Item \in Docs
           /\ Failing \/ (PutConfirmed /\ Advance /\ api[Item] = Desired)
           /\ run.rolling => run.undo # <<>>
<1>1. run.pc \in {"put", "confirm"}
    BY DEF PutFails, PutConfirmed
<1>2. List # <<>> /\ Item \in Docs
    BY <1>1, ItemIsHead
<1>3. run.rolling => run.undo # <<>>
    BY <1>2 DEF List
<1>4. run' = Raised \/ (PutConfirmed /\ run' = Done /\ api[Item] = Desired)
    BY DEF PutFails, PutConfirmed
<1> QED
    BY <1>1, <1>2, <1>3, <1>4, DoneFacts, RaisedFacts

\* A look after the last action: kernel commands, or a failure.
LEMMA SettleFacts ==
    ASSUME Shape, Settle
    PROVE  /\ run.pc = "act" /\ ~run.rolling /\ run.todo = <<>> /\ run.rounds > 0
           /\ \/ Failing
              \/ /\ run' = [run EXCEPT !.todo = Actions, !.rounds = @ - 1] /\ run' \in Run
                 /\ ToSet(Actions) \subseteq Kernel
<1>1. run.pc = "act" /\ ~run.rolling /\ run.todo = <<>> /\ run.rounds > 0
    BY DEF Settle, Acted
<1>2. \/ run' = Raised
      \/ run' = [run EXCEPT !.todo = Actions, !.rounds = @ - 1] /\ ToSet(Actions) \subseteq Kernel
    BY DEF Settle
<1>3. CASE run' = Raised
    BY <1>1, <1>3, RaisedFacts
<1>4. CASE run' = [run EXCEPT !.todo = Actions, !.rounds = @ - 1] /\ ToSet(Actions) \subseteq Kernel
    <2> DEFINE acts == Actions
    <2>1. acts \in Seq(Items)
        BY ActionsFacts DEF Shape
    <2>2. run.rounds - 1 \in 0 .. Rounds
        BY <1>1, ManagedAssumption DEF Shape, Run
    <2>3. run' = [run EXCEPT !.todo = acts, !.rounds = @ - 1]
        BY <1>4
    <2> HIDE DEF acts
    <2>4. run' \in Run
        BY <2>1, <2>2, <2>3 DEF Shape, Run
    <2> QED
        BY <1>1, <1>4, <2>4
<1> QED
    BY <1>2, <1>3, <1>4

\* The end of a run, and what interrupts it.
LEMMA HealthFacts ==
    ASSUME Shape, HealthCheck
    PROVE  /\ run.pc = "act" /\ ~run.rolling /\ run.todo = <<>> /\ run.rounds = 0
           /\ Failing \/ (run' = [Idle EXCEPT !.outcome = "healthy"] /\ Healthy)
<1>1. run.pc = "act" /\ ~run.rolling /\ run.todo = <<>> /\ run.rounds = 0
    BY DEF HealthCheck, Acted
<1>2. run' = Raised \/ (run' = [Idle EXCEPT !.outcome = "healthy"] /\ Healthy)
    BY DEF HealthCheck
<1> QED
    BY <1>1, <1>2, RaisedFacts

\* A signal reaches a run that is not rolling back, and makes it fail.
LEMMA InterruptedFacts == ASSUME Shape, Interrupted PROVE run.pc # "idle" /\ ~run.rolling /\ Failing
    BY RaisedFacts DEF Interrupted

\* Where a run has ended.
LEMMA EndFacts ==
    ASSUME Shape, NEW o \in {"healthy", "rolled-back", "rollback-failed"}, run' = [Idle EXCEPT !.outcome = o]
    PROVE  /\ run' \in Run /\ run'.pc = "idle" /\ ~run'.rolling /\ run'.todo = <<>> /\ run'.undo = <<>>
           /\ run'.outcome = o
    BY IdleFacts DEF Run

\* What the end of a rollback leaves.
LEMMA RolledBackFacts ==
    ASSUME Shape, RolledBack
    PROVE  /\ run.pc = "act" /\ run.rolling /\ run.undo = <<>>
           /\ \E o \in {"rolled-back", "rollback-failed"} : run' = [Idle EXCEPT !.outcome = o]
    BY DEF RolledBack

(* The invariant is inductive *********************************************)

\* Every step keeps the shape.
LEMMA ShapeStep == ASSUME Shape, Control, [Next]_vars PROVE Shape'
<1> USE DEF Shape
<1>1. CASE Plan
    <2>1. hist' = [hist EXCEPT !.late = FALSE]
        BY <1>1 DEF Plan
    <2>2. run' \in Run /\ UNCHANGED <<api, local, rebuild>>
        BY <1>1, PlanFacts DEF Plan
    <2> QED
        BY <2>1, <2>2
<1>2. CASE Execute
    <2>1. run' \in Run
        BY <1>2, ExecuteFacts DEF Advance, Failing
    <2>2. local' \in [Local -> BOOLEAN] /\ UNCHANGED <<api, rebuild, hist>>
        BY <1>2 DEF Execute, Run
    <2> QED
        BY <2>1, <2>2
<1>3. CASE Compare
    <2>1. run' \in Run
        <3>1. CASE run' = [run EXCEPT !.pc = "put"]
            BY <3>1 DEF Run
        <3> QED
            BY <1>3, <3>1, CompareFacts DEF Advance, Failing
    <2>2. UNCHANGED <<api, local, rebuild, hist>>
        BY <1>3 DEF Compare
    <2> QED
        BY <2>1, <2>2
<1>4. CASE Put
    <2>1. Item \in Docs /\ Desired \in Doc
        BY <1>4, ItemIsHead, ItemFacts DEF Put
    <2>2. run' \in Run
        BY <1>4 DEF Put, Run
    <2>3. api' \in [Docs -> Doc] /\ rebuild' \in BOOLEAN
        BY <1>4, <2>1 DEF Put
    <2>4. UNCHANGED <<local, hist>>
        BY <1>4 DEF Put
    <2> QED
        BY <2>2, <2>3, <2>4
<1>5. CASE PutFails
    <2>1. Item \in Docs /\ Desired \in Doc /\ run' \in Run
        BY <1>5, PutFacts, ItemFacts DEF PutFails, PutConfirmed, Failing, Advance
    <2>2. api' \in [Docs -> Doc] /\ rebuild' \in BOOLEAN /\ local' = local
        BY <1>5, <2>1 DEF PutFails
    <2>3. hist' \in [edits : 0 .. MaxEdits, latest : [Docs -> 0 .. MaxEdits], raced : SUBSET Docs,
                     late : BOOLEAN, faults : 0 .. MaxFaults]
        BY <1>5, ManagedAssumption DEF PutFails, Fault
    <2> QED
        BY <2>1, <2>2, <2>3
<1>6. CASE PutConfirmed
    BY <1>6, PutFacts DEF PutConfirmed, Failing, Advance
<1>7. CASE Settle
    <2>1. run' \in Run
        BY <1>7, SettleFacts DEF Failing
    <2> QED
        BY <1>7, <2>1 DEF Settle
<1>8. CASE HealthCheck
    <2>1. run' \in Run
        BY <1>8, HealthFacts, EndFacts DEF Failing
    <2> QED
        BY <1>8, <2>1 DEF HealthCheck
<1>9. CASE Interrupted
    <2>1. run' \in Run /\ UNCHANGED <<api, local, rebuild>>
        BY <1>9, InterruptedFacts DEF Failing, Interrupted
    <2>2. hist' \in [edits : 0 .. MaxEdits, latest : [Docs -> 0 .. MaxEdits], raced : SUBSET Docs,
                     late : BOOLEAN, faults : 0 .. MaxFaults]
        BY <1>9, ManagedAssumption DEF Interrupted, Fault
    <2> QED
        BY <2>1, <2>2
<1>10. CASE RolledBack
    <2>1. run' \in Run
        BY <1>10, RolledBackFacts, EndFacts
    <2> QED
        BY <1>10, <2>1 DEF RolledBack
<1>11. ASSUME NEW d \in Docs, Edit(d) PROVE Shape'
    <2>1. hist.edits + 1 \in 0 .. MaxEdits
        BY <1>11, ManagedAssumption DEF Edit
    <2>2. api' \in [Docs -> Doc]
        BY <1>11, <2>1 DEF Edit, Doc
    <2>3. /\ hist'.edits = hist.edits + 1 /\ hist'.latest = [hist.latest EXCEPT ![d] = hist.edits + 1]
          /\ hist'.raced \in SUBSET Docs
          /\ hist' \in [edits : 0 .. MaxEdits, latest : [Docs -> 0 .. MaxEdits], raced : SUBSET Docs,
                        late : BOOLEAN, faults : 0 .. MaxFaults]
        BY <1>11, <2>1 DEF Edit
    <2>4. rebuild' = TRUE /\ UNCHANGED <<local, run>>
        BY <1>11 DEF Edit
    <2> QED
        BY <2>2, <2>3, <2>4
<1>12. CASE Rebuild
    <2>1. (hist.late \/ run.rounds = 0) \in BOOLEAN
        OBVIOUS
    <2>2. hist' \in [edits : 0 .. MaxEdits, latest : [Docs -> 0 .. MaxEdits], raced : SUBSET Docs,
                     late : BOOLEAN, faults : 0 .. MaxFaults]
        BY <1>12, <2>1 DEF Rebuild
    <2>3. local' \in [Local -> BOOLEAN] /\ rebuild' \in BOOLEAN /\ UNCHANGED <<api, run>>
        BY <1>12 DEF Rebuild
    <2> QED
        BY <2>2, <2>3
<1>13. CASE UNCHANGED vars
    BY <1>13 DEF vars
<1> QED
    BY <1>1, <1>2, <1>3, <1>4, <1>5, <1>6, <1>7, <1>8, <1>9, <1>10, <1>11, <1>12, <1>13 DEF Next, Step

\* What Edit and Rebuild leave alone.
LEMMA UnifiFacts ==
    ASSUME Shape, Rebuild \/ \E d \in Docs : Edit(d)
    PROVE  run' = run /\ hist'.edits >= hist.edits /\ hist.edits \in Nat
<1>1. hist.edits \in Nat
    BY ManagedAssumption DEF Shape
<1>2. CASE Rebuild
    BY <1>1, <1>2 DEF Rebuild, Shape
<1>3. ASSUME NEW d \in Docs, Edit(d) PROVE run' = run /\ hist'.edits = hist.edits + 1
    BY <1>3 DEF Edit, Shape
<1> QED
    BY <1>1, <1>2, <1>3

\* Every step keeps the control of the run.
LEMMA ControlStep == ASSUME Shape, Control, [Next]_vars PROVE Control'
<1>1. CASE Plan
    <2>1. hist'.edits = hist.edits /\ hist.edits \in Nat
        BY <1>1, ManagedAssumption DEF Plan, Shape
    <2> QED
        BY <1>1, <2>1, PlanFacts, ListEmpty DEF Control
<1>2. CASE Execute
    BY <1>2, ExecuteFacts, AdvanceControl, FailingControl DEF Execute
<1>3. CASE Compare
    <2>1. hist' = hist
        BY <1>3 DEF Compare
    <2>2. CASE run' = [run EXCEPT !.pc = "put"]
        <3>1. /\ run'.pc = "put" /\ run'.rolling = run.rolling /\ run'.todo = run.todo /\ run'.undo = run.undo
              /\ run'.mark = run.mark /\ run'.outcome = run.outcome /\ run'.rounds = run.rounds
            BY <2>2 DEF Shape, Run
        <3> QED
            BY <1>3, <2>1, <3>1, CompareFacts DEF Control, List, Item
    <2> QED
        BY <1>3, <2>1, <2>2, CompareFacts, AdvanceControl, FailingControl
<1>4. CASE Put
    <2>1. /\ run'.pc = "confirm" /\ run'.rolling = run.rolling /\ run'.todo = run.todo /\ run'.undo = run.undo
          /\ run'.mark = run.mark /\ run'.outcome = run.outcome /\ run'.rounds = run.rounds
        BY <1>4 DEF Put, Shape, Run
    <2> QED
        BY <1>4, <2>1 DEF Put, Control, List
<1>5. CASE PutFails
    <2>1. hist'.edits = hist.edits
        BY <1>5 DEF PutFails, Fault, Shape
    <2> QED
        BY <1>5, <2>1, PutFacts, AdvanceControl, FailingControl
<1>6. CASE PutConfirmed
    BY <1>6, PutFacts, AdvanceControl, FailingControl DEF PutConfirmed
<1>7. CASE Settle
    <2>1. hist' = hist
        BY <1>7 DEF Settle
    <2>2. CASE run' = [run EXCEPT !.todo = Actions, !.rounds = @ - 1] /\ ToSet(Actions) \subseteq Kernel
        <3> DEFINE acts == Actions
        <3>1. /\ run'.pc = run.pc /\ run'.rolling = run.rolling /\ run'.mark = run.mark
              /\ run'.outcome = run.outcome /\ run'.todo = acts
            BY <2>2 DEF Shape, Run
        <3>2. ToSet(acts) \subseteq Kernel
            BY <2>2
        <3> HIDE DEF acts
        <3> QED
            BY <1>7, <2>1, <3>1, <3>2, SettleFacts DEF Control
    <2> QED
        BY <1>7, <2>1, <2>2, SettleFacts, FailingControl
<1>8. CASE HealthCheck
    <2>1. hist' = hist
        BY <1>8 DEF HealthCheck
    <2>2. CASE run' = [Idle EXCEPT !.outcome = "healthy"]
        BY <2>2, EndFacts, ListEmpty DEF Control
    <2> QED
        BY <1>8, <2>1, <2>2, HealthFacts, FailingControl
<1>9. CASE Interrupted
    <2>1. hist'.edits = hist.edits
        BY <1>9 DEF Interrupted, Fault, Shape
    <2> QED
        BY <1>9, <2>1, InterruptedFacts, FailingControl
<1>10. CASE RolledBack
    BY <1>10, RolledBackFacts, EndFacts, ListEmpty DEF Control
<1>11. CASE Rebuild \/ \E d \in Docs : Edit(d)
    <2>1. run' = run /\ hist'.edits >= hist.edits /\ hist.edits \in Nat /\ hist'.edits \in Nat /\ run.mark \in Nat
        BY <1>11, UnifiFacts, ShapeStep, ManagedAssumption DEF Shape, Run
    <2> QED
        BY <2>1 DEF Control, List
<1>12. CASE UNCHANGED vars
    BY <1>12 DEF vars, Control, List
<1> QED
    BY <1>1, <1>2, <1>3, <1>4, <1>5, <1>6, <1>7, <1>8, <1>9, <1>10, <1>11, <1>12 DEF Next, Step

\* Every step keeps the lists free of repeated documents.
LEMMA ListedStep == ASSUME Shape, Control, Listed, [Next]_vars PROVE Listed'
<1>1. CASE Plan
    <2>1. Once(Actions)
        BY ActionsFacts DEF Shape
    <2>2. run'.undo = <<>> /\ run'.todo \in {<<>>, Actions}
        BY <1>1, PlanFacts
    <2>3. Once(<<>>) /\ ToSet(<<>>) = {}
        BY ListEmpty
    <2> QED
        BY <2>1, <2>2, <2>3 DEF Listed
<1>2. CASE Execute
    BY <1>2, ExecuteFacts, AdvanceListed, FailingListed DEF List
<1>3. CASE Compare
    <2>1. CASE run' = [run EXCEPT !.pc = "put"]
        BY <2>1 DEF Shape, Run, Listed
    <2> QED
        BY <1>3, <2>1, CompareFacts, AdvanceListed, FailingListed
<1>4. CASE Put
    BY <1>4 DEF Put, Shape, Run, Listed
<1>5. CASE PutFails \/ PutConfirmed
    BY <1>5, PutFacts, AdvanceListed, FailingListed
<1>6. CASE Settle
    <2>1. CASE run' = [run EXCEPT !.todo = Actions, !.rounds = @ - 1] /\ ToSet(Actions) \subseteq Kernel
        <3> DEFINE acts == Actions
        <3>1. Once(acts) /\ ToSet(acts) \subseteq Kernel
            BY <2>1, ActionsFacts DEF Shape
        <3>2. run'.rolling = run.rolling /\ run'.undo = run.undo /\ run'.todo = acts
            BY <2>1 DEF Shape, Run
        <3> HIDE DEF acts
        <3> QED
            BY <3>1, <3>2, Separate DEF Listed
    <2> QED
        BY <1>6, <2>1, SettleFacts, FailingListed
<1>7. CASE HealthCheck
    <2>1. CASE run' = [Idle EXCEPT !.outcome = "healthy"]
        BY <2>1, EndFacts, ListEmpty DEF Listed
    <2> QED
        BY <1>7, <2>1, HealthFacts, FailingListed
<1>8. CASE Interrupted
    BY <1>8, InterruptedFacts, FailingListed
<1>9. CASE RolledBack
    BY <1>9, RolledBackFacts, EndFacts, ListEmpty DEF Listed
<1>10. CASE Rebuild \/ \E d \in Docs : Edit(d)
    BY <1>10, UnifiFacts DEF Listed
<1>11. CASE UNCHANGED vars
    BY <1>11 DEF vars, Listed
<1> QED
    BY <1>1, <1>2, <1>3, <1>4, <1>5, <1>6, <1>7, <1>8, <1>9, <1>10, <1>11 DEF Next, Step

\* Every step keeps what the controller wrote last.
LEMMA KeptStep == ASSUME Shape, Control, Kept, [Next]_vars PROVE Kept'
<1>1. ASSUME UNCHANGED api, hist'.latest = hist.latest, hist'.raced = hist.raced, run'.pc # "put" PROVE Kept'
    BY <1>1 DEF Kept, EditsKept
<1>2. CASE Plan
    <2>1. hist'.latest = hist.latest /\ hist'.raced = hist.raced /\ run'.pc # "put"
        BY <1>2, PlanFacts DEF Plan, Shape
    <2> QED
        BY <1>1, <1>2, <2>1 DEF Plan
<1>3. CASE Execute
    BY <1>1, <1>3, ExecuteFacts DEF Execute, Advance, Failing
<1>4. CASE Compare
    <2>1. UNCHANGED <<api, hist>>
        BY <1>4 DEF Compare
    <2>2. CASE run' = [run EXCEPT !.pc = "put"] /\ api[Item] = Expected
        <3>1. run'.rolling = run.rolling /\ run'.todo = run.todo /\ run'.undo = run.undo /\ run'.seen = run.seen
            BY <2>2 DEF Shape, Run
        <3>2. api[Item].rest = run.seen[Item].rest
            BY <1>4, <2>2, CompareFacts, ItemFacts
        <3> QED
            BY <2>1, <3>1, <3>2 DEF Kept, EditsKept, Item
    <2> QED
        BY <1>1, <1>4, <2>1, <2>2, CompareFacts DEF Advance, Failing
<1>5. CASE Put
    <2>1. Item \in Docs /\ Desired.rest = run.seen[Item].rest
        BY <1>5, ItemIsHead, ItemFacts DEF Put
    <2>2. run'.pc = "confirm" /\ api' = [api EXCEPT ![Item] = Desired] /\ hist' = hist
        BY <1>5 DEF Put, Shape, Run
    <2>3. ASSUME NEW d \in Docs PROVE api'[d].rest = hist.latest[d] \/ d \in hist.raced
        BY <1>5, <2>1, <2>2, <2>3 DEF Put, Kept, EditsKept, Shape
    <2> QED
        BY <2>2, <2>3 DEF Kept, EditsKept
<1>6. CASE PutFails
    <2>1. Item \in Docs /\ Desired.rest = run.seen[Item].rest /\ run.pc = "put"
        BY <1>6, PutFacts, ItemFacts DEF PutFails
    <2>2. run'.pc = "act"
        BY <1>6, PutFacts DEF PutFails, PutConfirmed, Failing, Advance
    <2>3. hist'.latest = hist.latest /\ hist'.raced = hist.raced
        BY <1>6 DEF PutFails, Fault, Shape
    <2>4. api' = api \/ api' = [api EXCEPT ![Item] = Desired]
        BY <1>6 DEF PutFails
    <2>5. ASSUME NEW d \in Docs PROVE api'[d].rest = hist.latest[d] \/ d \in hist.raced
        BY <2>1, <2>4, <2>5 DEF Kept, EditsKept, Shape
    <2> QED
        BY <2>2, <2>3, <2>5 DEF Kept, EditsKept
<1>7. CASE PutConfirmed
    BY <1>1, <1>7, PutFacts DEF PutConfirmed, Failing, Advance
<1>8. CASE Settle
    <2>1. run'.pc = "act"
        BY <1>8, SettleFacts DEF Shape, Run, Failing
    <2> QED
        BY <1>1, <1>8, <2>1 DEF Settle
<1>9. CASE HealthCheck
    <2>1. run'.pc # "put"
        BY <1>9, HealthFacts, EndFacts DEF Failing
    <2> QED
        BY <1>1, <1>9, <2>1 DEF HealthCheck
<1>10. CASE Interrupted
    <2>1. hist'.latest = hist.latest /\ hist'.raced = hist.raced
        BY <1>10 DEF Interrupted, Fault, Shape
    <2> QED
        BY <1>1, <1>10, <2>1, InterruptedFacts DEF Failing, Interrupted
<1>11. CASE RolledBack
    <2>1. run'.pc # "put"
        BY <1>11, RolledBackFacts, EndFacts
    <2> QED
        BY <1>1, <1>11, <2>1 DEF RolledBack
<1>12. ASSUME NEW d \in Docs, Edit(d) PROVE Kept'
    <2>1. hist'.latest = [hist.latest EXCEPT ![d] = hist.edits + 1]
        BY <1>12 DEF Edit, Shape
    <2>2. /\ hist.raced \subseteq hist'.raced /\ (run.pc = "put" /\ Item = d => d \in hist'.raced)
        BY <1>12 DEF Edit, Shape
    <2>3. \A e \in Docs : e # d => api'[e] = api[e]
        BY <1>12 DEF Edit, Shape
    <2>4. api'[d].rest = hist.edits + 1
        BY <1>12 DEF Edit, Shape
    <2>5. run' = run
        BY <1>12 DEF Edit
    <2>6. EditsKept'
        BY <2>1, <2>2, <2>3, <2>4 DEF Kept, EditsKept, Shape
    <2>7. run.pc = "put" => Item \in Docs /\ Item' = Item
        BY <2>5, ItemIsHead DEF Item
    <2> QED
        BY <2>2, <2>3, <2>5, <2>6, <2>7 DEF Kept
<1>13. CASE Rebuild
    <2>1. UNCHANGED <<api, run>> /\ hist'.latest = hist.latest /\ hist'.raced = hist.raced
        BY <1>13 DEF Rebuild, Shape
    <2> QED
        BY <2>1 DEF Kept, EditsKept, Item
<1>14. CASE UNCHANGED vars
    BY <1>14 DEF vars, Kept, EditsKept, Item
<1> QED
    BY <1>2, <1>3, <1>4, <1>5, <1>6, <1>7, <1>8, <1>9, <1>10, <1>11, <1>12, <1>13, <1>14 DEF Next, Step

\* Every step keeps the rules, or the prospect of them, until the last round.
LEMMA RulesKeptStep == ASSUME Shape, Control, RulesKept, [Next]_vars PROVE RulesKept'
<1>1. ASSUME Failing PROVE RulesKept'
    BY <1>1 DEF Failing, RulesKept
<1>2. ASSUME List # <<>>, Advance, run.pc # "idle", hist' = hist,
             local["rules"] => local'["rules"] \/ run.rolling, Item = "rules" => local'["rules"] \/ run.rolling
      PROVE  RulesKept'
    <2>1. run.todo \in Seq(Items)
        BY DEF Shape, Run
    <2>2. ~run.rolling => ToSet(run.todo) = {Item} \cup ToSet(run'.todo)
        BY <1>2, <2>1, ListTail DEF List, Item, Advance
    <2> QED
        BY <1>2, <2>2 DEF RulesKept, Advance
<1>3. CASE Plan
    <2>1. ~local["rules"] => "rules" \in ToSet(Actions)
        BY ActionsFacts DEF Shape
    <2> QED
        BY <1>3, <2>1, PlanFacts DEF Plan, RulesKept
<1>4. CASE Execute
    <2>1. CASE Failing
        BY <1>1, <2>1
    <2>2. CASE Advance
        <3>1. Item = "rules" => local'["rules"] \/ run.rolling
            BY <1>4 DEF Execute, Shape, Local
        <3>2. local["rules"] => local'["rules"] \/ run.rolling
            BY <1>4 DEF Execute, Shape, Local, Run
        <3> QED
            BY <1>2, <1>4, <2>2, <3>1, <3>2, ExecuteFacts DEF Execute
    <2> QED
        BY <1>4, <2>1, <2>2, ExecuteFacts
<1>5. CASE Compare
    <2>1. UNCHANGED <<local, hist>>
        BY <1>5 DEF Compare
    <2>2. CASE run' = [run EXCEPT !.pc = "put"]
        <3>1. run'.rolling = run.rolling /\ run'.todo = run.todo /\ run'.rounds = run.rounds
            BY <2>2 DEF Shape, Run
        <3> QED
            BY <1>5, <2>1, <3>1, CompareFacts DEF RulesKept
    <2>3. Item # "rules" /\ List # <<>> /\ run.pc # "idle"
        BY <1>5, CompareFacts, Separate
    <2> QED
        BY <1>1, <1>2, <1>5, <2>1, <2>2, <2>3, CompareFacts
<1>6. CASE Put
    <2>1. run'.rolling = run.rolling /\ run'.todo = run.todo /\ run'.rounds = run.rounds
        BY <1>6 DEF Put, Shape, Run
    <2> QED
        BY <1>6, <2>1 DEF Put, RulesKept
<1>7. CASE PutFails \/ PutConfirmed
    <2>1. CASE Failing
        BY <1>1, <2>1
    <2>2. CASE PutConfirmed /\ Advance
        <3>1. UNCHANGED <<local, hist>>
            BY <2>2 DEF PutConfirmed
        <3>2. Item # "rules" /\ List # <<>> /\ run.pc # "idle"
            BY <1>7, PutFacts, Separate
        <3> QED
            BY <1>2, <2>2, <3>1, <3>2
    <2> QED
        BY <1>7, <2>1, <2>2, PutFacts
<1>8. CASE Settle
    <2>1. CASE run' = [run EXCEPT !.todo = Actions, !.rounds = @ - 1]
        <3> DEFINE acts == Actions
        <3>1. ~local["rules"] => "rules" \in ToSet(acts)
            BY ActionsFacts DEF Shape
        <3>2. run'.todo = acts
            BY <2>1 DEF Shape, Run
        <3> HIDE DEF acts
        <3> QED
            BY <1>8, <3>1, <3>2 DEF Settle, RulesKept
    <2> QED
        BY <1>1, <1>8, <2>1, SettleFacts
<1>9. CASE HealthCheck
    BY <1>1, <1>9, HealthFacts, EndFacts DEF RulesKept
<1>10. CASE Interrupted
    BY <1>1, <1>10, InterruptedFacts
<1>11. CASE RolledBack
    BY <1>11, RolledBackFacts, EndFacts DEF RulesKept
<1>12. ASSUME NEW d \in Docs, Edit(d) PROVE RulesKept'
    <2>1. UNCHANGED <<local, run>> /\ hist'.late = hist.late
        BY <1>12 DEF Edit, Shape
    <2> QED
        BY <2>1 DEF RulesKept
<1>13. CASE Rebuild
    <2>1. run' = run /\ hist'.late = (hist.late \/ run.rounds = 0)
        BY <1>13 DEF Rebuild, Shape
    <2> QED
        BY <2>1 DEF RulesKept
<1>14. CASE UNCHANGED vars
    BY <1>14 DEF vars, RulesKept
<1> QED
    BY <1>3, <1>4, <1>5, <1>6, <1>7, <1>8, <1>9, <1>10, <1>11, <1>12, <1>13, <1>14 DEF Next, Step

\* Every step keeps the way back of every document.
LEMMA ReturningStep == ASSUME Shape, Control, Returning, [Next]_vars PROVE Returning'
<1>1. CASE Plan
    <2>1. api' = api
        BY <1>1 DEF Plan
    <2> QED
        BY <1>1, <2>1, PlanFacts DEF Returning, Returnable
<1>2. CASE Execute
    <2>1. api' = api /\ hist' = hist
        BY <1>2 DEF Execute
    <2>2. Item \notin Docs
        BY <1>2, ExecuteFacts, Separate
    <2>3. run.rolling => run.undo # <<>>
        BY <1>2, ExecuteFacts DEF List
    <2> QED
        BY <1>2, <2>1, <2>2, <2>3, ExecuteFacts, AdvanceReturning, FailingReturning
<1>3. CASE Compare
    <2>1. api' = api /\ hist' = hist
        BY <1>3 DEF Compare
    <2>2. CASE run' = [run EXCEPT !.pc = "put"]
        <3>1. /\ run'.rolling = run.rolling /\ run'.undo = run.undo /\ run'.seen = run.seen
              /\ run'.mark = run.mark /\ run'.failed = run.failed
            BY <2>2 DEF Shape, Run
        <3>2. run.pc = "act"
            BY <1>3, CompareFacts
        <3> SUFFICES ASSUME NEW d \in Docs PROVE Returnable(d)'
            BY DEF Returning
        <3> QED
            BY <2>1, <3>1, <3>2 DEF Returning, Returnable, Patched
    <2>3. CASE Failing
        BY <1>3, <2>1, <2>3, CompareFacts, FailingReturning
    <2>4. CASE Advance /\ api[Item] = Desired
        <3>1. run.rolling => api[Item] = run.seen[Item]
            BY <2>4 DEF Desired
        <3> QED
            BY <1>3, <2>1, <2>4, <3>1, CompareFacts, AdvanceReturning
    <2> QED
        BY <1>3, <2>2, <2>3, <2>4, CompareFacts
<1>4. CASE Put
    <2>1. Item \in Docs /\ (run.rolling => Desired = run.seen[Item]) /\ (~run.rolling => Desired = Patched(Item))
        BY <1>4, ItemIsHead, ItemFacts DEF Put
    <2>2. /\ run'.pc = "confirm" /\ run'.rolling = run.rolling /\ run'.undo = run.undo /\ run'.todo = run.todo
          /\ run'.seen = run.seen /\ run'.mark = run.mark /\ run'.failed = run.failed
        BY <1>4 DEF Put, Shape, Run
    <2>3. api' = [api EXCEPT ![Item] = Desired] /\ hist' = hist /\ run.pc = "put"
        BY <1>4 DEF Put
    <2> SUFFICES ASSUME NEW d \in Docs PROVE Returnable(d)'
        BY DEF Returning
    <2>4. Item' = Item /\ Patched(d)' = Patched(d)
        BY <2>2 DEF Item, Patched
    <2>5. CASE d = Item
        <3>1. api'[d] = Desired
            BY <2>1, <2>3, <2>5 DEF Shape
        <3> QED
            BY <2>1, <2>2, <2>4, <2>5, <3>1 DEF Returnable
    <2>6. CASE d # Item
        <3>1. api'[d] = api[d]
            BY <2>3, <2>6 DEF Shape
        <3> QED
            BY <2>2, <2>3, <2>4, <2>6, <3>1 DEF Returning, Returnable
    <2> QED
        BY <2>5, <2>6
<1>5. CASE PutFails
    <2>1. hist'.latest = hist.latest /\ run.pc = "put"
        BY <1>5 DEF PutFails, Fault, Shape
    <2>2. \A d \in Docs : api'[d] = api[d] \/ (d = Item /\ run.pc = "put" /\ api'[d] = Desired)
        BY <1>5 DEF PutFails, Shape
    <2>3. Failing /\ (run.rolling => run.undo # <<>>)
        BY <1>5, PutFacts DEF PutFails, PutConfirmed
    <2> QED
        BY <2>1, <2>2, <2>3, FailingReturning
<1>6. CASE PutConfirmed
    <2>1. api' = api /\ hist' = hist
        BY <1>6 DEF PutConfirmed
    <2>2. CASE Advance /\ api[Item] = Desired
        <3>1. run.rolling => api[Item] = run.seen[Item]
            BY <2>2 DEF Desired
        <3> QED
            BY <1>6, <2>1, <2>2, <3>1, PutFacts, AdvanceReturning
    <2> QED
        BY <1>6, <2>1, <2>2, PutFacts, FailingReturning
<1>7. CASE Settle
    <2>1. api' = api /\ hist' = hist
        BY <1>7 DEF Settle
    <2>2. CASE run' = [run EXCEPT !.todo = Actions, !.rounds = @ - 1]
        <3>1. /\ run'.rolling = run.rolling /\ run'.undo = run.undo /\ run'.seen = run.seen /\ run'.pc = run.pc
              /\ run'.mark = run.mark /\ run'.failed = run.failed
            BY <2>2 DEF Shape, Run
        <3>2. run.pc = "act"
            BY <1>7, SettleFacts
        <3> SUFFICES ASSUME NEW d \in Docs PROVE Returnable(d)'
            BY DEF Returning
        <3> QED
            BY <2>1, <3>1, <3>2 DEF Returning, Returnable, Patched
    <2> QED
        BY <1>7, <2>1, <2>2, SettleFacts, FailingReturning
<1>8. CASE HealthCheck
    <2>1. api' = api /\ hist' = hist
        BY <1>8 DEF HealthCheck
    <2>2. CASE run' = [Idle EXCEPT !.outcome = "healthy"]
        BY <2>2, EndFacts DEF Returning
    <2> QED
        BY <1>8, <2>1, <2>2, HealthFacts, FailingReturning
<1>9. CASE Interrupted
    <2>1. api' = api /\ hist'.latest = hist.latest
        BY <1>9 DEF Interrupted, Fault, Shape
    <2> QED
        BY <1>9, <2>1, InterruptedFacts, FailingReturning
<1>10. CASE RolledBack
    BY <1>10, RolledBackFacts, EndFacts DEF Returning
<1>11. ASSUME NEW e \in Docs, Edit(e) PROVE Returning'
    <2>1. /\ hist'.latest = [hist.latest EXCEPT ![e] = hist.edits + 1] /\ run' = run
          /\ \A d \in Docs : d # e => api'[d] = api[d]
        BY <1>11 DEF Edit, Shape
    <2> SUFFICES ASSUME run.pc # "idle", NEW d \in Docs PROVE Returnable(d)'
        BY <2>1 DEF Returning
    <2>2. Item' = Item /\ Patched(d)' = Patched(d)
        BY <2>1 DEF Item, Patched
    <2>3. CASE d = e
        <3>1. run.mark <= hist.edits /\ run.mark \in Nat /\ hist.edits \in Nat
            BY ManagedAssumption DEF Control, Shape, Run
        <3> QED
            BY <2>1, <2>3, <3>1 DEF Returnable, Shape
    <2>4. CASE d # e
        <3>1. hist'.latest[d] = hist.latest[d] /\ api'[d] = api[d]
            BY <2>1, <2>4 DEF Shape
        <3> QED
            BY <2>1, <2>2, <3>1 DEF Returning, Returnable
    <2> QED
        BY <2>3, <2>4
<1>12. CASE Rebuild
    <2>1. UNCHANGED <<api, run>> /\ hist'.latest = hist.latest
        BY <1>12 DEF Rebuild, Shape
    <2> QED
        BY <2>1 DEF Returning, Returnable, Item, Patched
<1>13. CASE UNCHANGED vars
    BY <1>13 DEF vars, Returning, Returnable, Item, Patched
<1> QED
    BY <1>1, <1>2, <1>3, <1>4, <1>5, <1>6, <1>7, <1>8, <1>9, <1>10, <1>11, <1>12, <1>13 DEF Next, Step

\* The invariant holds at the start.
LEMMA InitIInv == Init => IInv
<1> SUFFICES ASSUME Init PROVE IInv
    OBVIOUS
<1>1. 0 \in 0 .. MaxEdits /\ 0 \in 0 .. MaxFaults /\ 0 \in 0 .. Rounds
    BY ManagedAssumption
<1>2. /\ api \in [Docs -> Doc] /\ local \in [Local -> BOOLEAN] /\ rebuild \in BOOLEAN
      /\ \A d \in Docs : api[d].rest = 0
    BY <1>1 DEF Init, Doc, Own
<1>3. /\ hist \in [edits : 0 .. MaxEdits, latest : [Docs -> 0 .. MaxEdits], raced : SUBSET Docs,
                   late : BOOLEAN, faults : 0 .. MaxFaults]
      /\ \A d \in Docs : hist.latest[d] = 0
    BY <1>1 DEF Init
<1>4. run = Idle
    BY DEF Init
<1>5. run \in Run /\ run.pc = "idle" /\ run.todo = <<>> /\ run.undo = <<>> /\ ~run.rolling
    BY <1>1, <1>2, <1>4, ListEmpty DEF Idle, Run
<1>6. Shape
    BY <1>2, <1>3, <1>5 DEF Shape
<1>7. Control /\ Listed /\ RulesKept /\ Returning
    BY <1>5, ListEmpty DEF Control, Listed, RulesKept, Returning
<1>8. Kept
    BY <1>2, <1>3, <1>5 DEF Kept, EditsKept
<1> QED
    BY <1>6, <1>7, <1>8 DEF IInv

\* The invariant is kept.
LEMMA Invariance == Spec => []IInv
<1>1. IInv /\ [Next]_vars => IInv'
    BY ShapeStep, ControlStep, ListedStep, KeptStep, RulesKeptStep, ReturningStep DEF IInv
<1> QED
    BY InitIInv, <1>1, PTL DEF Spec

(* Theorems ***************************************************************)

\* A run never leaves its states; after the first round it holds kernel commands
\* only (core.py 822-838), for any number of rounds, edits and faults.
THEOREM TypeCorrect == Spec => []TypeOK
<1>1. IInv => TypeOK
    <2> SUFFICES ASSUME IInv PROVE TypeOK
        OBVIOUS
    <2>1. ToSet(run.todo) \cup ToSet(run.undo) \subseteq Docs \cup Local
        <3>1. \A s \in Seq(Items) : \A i \in DOMAIN s : s[i] \in Items
            BY ElementOfSeq, LenProperties
        <3> QED
            BY <3>1 DEF IInv, Shape, Run, ToSet, Items
    <2>2. run.pc \in {"put", "confirm"} => Item \in Docs
        BY ItemIsHead DEF IInv
    <2>3. run.rounds < Rounds => ToSet(run.todo) \subseteq Kernel
        BY DEF IInv, Control
    <2> QED
        BY <2>1, <2>2, <2>3 DEF IInv, Shape, Run, Doc, TypeOK
<1> QED
    BY Invariance, <1>1, PTL

\* Neither an action nor an inverse puts back an older state of what the controller
\* wrote, unless it wrote between comparison and PUT (managed.py 89-95, router.py 149-161).
THEOREM EditsAreKept == Spec => []EditsKept
<1>1. IInv => EditsKept
    BY DEF IInv, Kept
<1> QED
    BY Invariance, <1>1, PTL

\* A run writes a document once and undoes it once, however often it looks again
\* (core.py 822-838) and whatever the controller writes meanwhile.
THEOREM NoOverwriting == Spec => []NoWriteWar
<1>1. IInv => NoWriteWar
    BY DEF IInv, Listed, Once, NoWriteWar
<1> QED
    BY Invariance, <1>1, PTL

\* What a run that ends healthy has repaired (managed.py 167-181).
THEOREM HealthMeansRepaired == Spec => HealthyRepaired
<1> DEFINE Repaired == run.pc # "idle" /\ run'.outcome = "healthy" => Healthy /\ (local["rules"] \/ hist.late)
<1>1. IInv /\ [Next]_vars => [Repaired]_vars
    <2> SUFFICES ASSUME IInv, [Next]_vars, run.pc # "idle", run'.outcome = "healthy"
                 PROVE  Healthy /\ (local["rules"] \/ hist.late)
        OBVIOUS
    <2>1. Shape /\ Control /\ run \in Run /\ run.outcome = "none"
        BY DEF IInv, Control, Shape
    <2>2. ~Failing /\ ~Advance
        BY <2>1 DEF Failing, Advance
    <2>3. ~Execute /\ ~Interrupted /\ ~PutFails /\ ~PutConfirmed
        BY <2>1, <2>2, ExecuteFacts, InterruptedFacts, PutFacts
    <2>4. ~Compare /\ ~Put /\ ~Settle
        BY <2>1, <2>2, CompareFacts, SettleFacts DEF Put, Run
    <2>5. ~RolledBack /\ ~Plan
        BY <2>1, RolledBackFacts, EndFacts DEF Plan
    <2>6. ~Rebuild /\ ~(\E d \in Docs : Edit(d)) /\ ~UNCHANGED vars
        BY <2>1 DEF Rebuild, Edit, vars
    <2>7. HealthCheck
        BY <2>3, <2>4, <2>5, <2>6 DEF Next, Step
    <2> QED
        BY <2>1, <2>2, <2>7, HealthFacts, ListEmpty DEF IInv, RulesKept
<1> QED
    BY Invariance, <1>1, PTL DEF Spec, HealthyRepaired

\* A rollback brings back what the plan saw, whatever became of a PUT (core.py
\* 867-877), unless the controller wrote it since or the rollback says so.
THEOREM RollbackBringsBack == Spec => RollbackReturns
<1> DEFINE Returned == run.rolling /\ run'.pc = "idle" =>
                          \A d \in Docs : api[d] = run.seen[d] \/ hist.latest[d] > run.mark \/ d \in run.failed
<1>1. IInv /\ [Next]_vars => [Returned]_vars
    <2> SUFFICES ASSUME IInv, [Next]_vars, run.rolling, run'.pc = "idle", ~UNCHANGED vars
                 PROVE  \A d \in Docs : api[d] = run.seen[d] \/ hist.latest[d] > run.mark \/ d \in run.failed
        OBVIOUS
    <2>1. Shape /\ Control /\ run \in Run /\ run.pc # "idle"
        BY DEF IInv, Control, Shape
    <2>2. ~Failing /\ ~Advance
        BY DEF Failing, Advance
    <2>3. ~Execute /\ ~Interrupted /\ ~PutFails /\ ~PutConfirmed
        BY <2>1, <2>2, ExecuteFacts, InterruptedFacts, PutFacts
    <2>4. ~Compare /\ ~Put /\ ~Settle /\ ~HealthCheck
        BY <2>1, <2>2, CompareFacts, SettleFacts, HealthFacts DEF Put, Run
    <2>5. ~Plan /\ ~Rebuild /\ ~(\E d \in Docs : Edit(d))
        BY <2>1 DEF Plan, Rebuild, Edit
    <2>6. RolledBack
        BY <2>3, <2>4, <2>5 DEF Next, Step
    <2> QED
        BY <2>1, <2>6, RolledBackFacts, ListEmpty DEF IInv, Returning, Returnable
<1> QED
    BY Invariance, <1>1, PTL DEF Spec, RollbackReturns
=============================================================================
