-------------------------- MODULE WanPolicyProofs --------------------------
(* Proofs about WanPolicy, for every bound on the edits and the faults.    *)
EXTENDS WanPolicy, FiniteSetTheorems, SequenceTheorems, TLAPS

(* Sequences **************************************************************)

\* Elements of a sequence are counted.
LEMMA CountType ==
    ASSUME NEW S, NEW s \in Seq(S), NEW x
    PROVE  /\ IsFiniteSet({i \in DOMAIN s : s[i] = x})
           /\ Count(s, x) \in Nat
           /\ Count(s, x) > 0 <=> \E i \in DOMAIN s : s[i] = x
<1>1. IsFiniteSet(DOMAIN s)
  BY FS_Interval, LenProperties
<1>2. IsFiniteSet({i \in DOMAIN s : s[i] = x})
  BY <1>1, FS_Subset
<1> QED
  BY <1>2, FS_CardinalityType, FS_EmptySet DEF Count

\* Counts of the parts add up.
LEMMA CountConcat ==
    ASSUME NEW S, NEW s \in Seq(S), NEW t \in Seq(S), NEW x
    PROVE  Count(s \o t, x) = Count(s, x) + Count(t, x)
<1> DEFINE A == {i \in DOMAIN s : s[i] = x}
           T == {i \in DOMAIN t : t[i] = x}
           B == {i \in DOMAIN (s \o t) : (s \o t)[i] = x /\ i > Len(s)}
<1>1. /\ Len(s) \in Nat /\ Len(t) \in Nat /\ DOMAIN s = 1 .. Len(s) /\ DOMAIN t = 1 .. Len(t)
      /\ DOMAIN (s \o t) = 1 .. Len(s) + Len(t)
      /\ \A i \in 1 .. Len(s) + Len(t) : (s \o t)[i] = IF i <= Len(s) THEN s[i] ELSE t[i - Len(s)]
  BY LenProperties, ConcatProperties
<1>2. {i \in DOMAIN (s \o t) : (s \o t)[i] = x} = A \cup B /\ A \cap B = {}
  BY <1>1
<1>3. IsFiniteSet(A) /\ IsFiniteSet(T)
  BY CountType
<1>4. IsFiniteSet(B) /\ Cardinality(B) = Cardinality(T)
  <2> DEFINE f == [i \in T |-> i + Len(s)]
  <2>1. \A i \in T : f[i] \in B
    BY <1>1
  <2>2. \A j \in B : \E i \in T : f[i] = j
    <3> TAKE j \in B
    <3>1. j - Len(s) \in T
      BY <1>1
    <3> QED
      BY <3>1, <1>1
  <2>3. \A i, j \in T : f[i] = f[j] => i = j
    BY <1>1
  <2>4. f \in Bijection(T, B)
    BY <2>1, <2>2, <2>3 DEF Bijection, Injection, IsInjective, Surjection
  <2>5. ExistsBijection(T, B)
    BY <2>4 DEF ExistsBijection
  <2> QED
    BY <1>3, <2>5, FS_Bijection
<1>5. Cardinality(A \cup B) = Cardinality(A) + Cardinality(B)
  <2>1. Cardinality(A \cap B) = 0
    BY <1>2, FS_EmptySet
  <2>2. Cardinality(A \cup B) = Cardinality(A) + Cardinality(B) - Cardinality(A \cap B)
    BY <1>3, <1>4, FS_Union
  <2>3. Cardinality(A) \in Nat /\ Cardinality(B) \in Nat
    BY <1>3, <1>4, FS_CardinalityType
  <2> HIDE DEF A, B
  <2> QED
    BY <2>1, <2>2, <2>3
<1> QED
  BY <1>2, <1>4, <1>5 DEF Count

\* A sequence of one.
LEMMA CountOne ==
    ASSUME NEW x, NEW y
    PROVE  Count(<<x>>, y) = IF x = y THEN 1 ELSE 0
<1>1. {i \in DOMAIN <<x>> : <<x>>[i] = y} = IF x = y THEN {1} ELSE {}
  OBVIOUS
<1> QED
  BY <1>1, FS_Singleton, FS_EmptySet DEF Count

\* A sequence of none.
LEMMA CountNone == \A x : Count(<<>>, x) = 0
<1>1. \A x : {i \in DOMAIN <<>> : <<>>[i] = x} = {}
  OBVIOUS
<1> QED
  BY <1>1, FS_EmptySet DEF Count

\* A sequence of the same again and again.
LEMMA CountSame ==
    ASSUME NEW n \in Nat, NEW x, NEW y
    PROVE  Count([i \in 1 .. n |-> x], y) = IF x = y THEN n ELSE 0
<1> DEFINE s == [i \in 1 .. n |-> x]
<1>1. {i \in DOMAIN s : s[i] = y} = IF x = y THEN 1 .. n ELSE {}
  OBVIOUS
<1>2. Cardinality(1 .. n) = n
  BY FS_Interval
<1> QED
  BY <1>1, <1>2, FS_EmptySet DEF Count

\* A sequence is its head and the rest.
LEMMA HeadAndTail ==
    ASSUME NEW S, NEW s \in Seq(S), s # <<>>
    PROVE  /\ Head(s) \in S /\ Tail(s) \in Seq(S) /\ s = <<Head(s)>> \o Tail(s)
           /\ \A x : Count(s, x) = Count(Tail(s), x) + IF Head(s) = x THEN 1 ELSE 0
           /\ ToSet(s) = {Head(s)} \cup ToSet(Tail(s))
<1>1. Head(s) \in S /\ Tail(s) \in Seq(S)
  BY HeadTailProperties
<1>2. s = <<Head(s)>> \o Tail(s)
  OBVIOUS
<1>3. <<Head(s)>> \in Seq(S)
  BY <1>1
<1>4. ASSUME NEW x PROVE Count(s, x) = Count(Tail(s), x) + IF Head(s) = x THEN 1 ELSE 0
  <2>1. Count(<<Head(s)>> \o Tail(s), x) = Count(<<Head(s)>>, x) + Count(Tail(s), x)
    BY <1>1, <1>3, CountConcat
  <2>2. Count(Tail(s), x) \in Nat
    BY <1>1, CountType
  <2>3. Count(<<Head(s)>>, x) = IF Head(s) = x THEN 1 ELSE 0
    BY CountOne
  <2>4. Count(s, x) = Count(<<Head(s)>>, x) + Count(Tail(s), x)
    BY <1>2, <2>1
  <2> QED
    BY <2>2, <2>3, <2>4
<1>5. ToSet(s) = {Head(s)} \cup ToSet(Tail(s))
  <2> DEFINE t == Tail(s)
  <2>1. Len(s) \in Nat \ {0} /\ DOMAIN s = 1 .. Len(s) /\ Len(t) = Len(s) - 1 /\ DOMAIN t = 1 .. Len(t)
    BY <1>1, EmptySeq, LenProperties, HeadTailProperties
  <2>2. s[1] = Head(s) /\ \A i \in 1 .. Len(t) : t[i] = s[i + 1]
    <3>1. Head(s) = s[1]
      BY SMT
    <3>2. \A i \in 1 .. Len(Tail(s)) : Tail(s)[i] = s[i + 1]
      BY HeadTailProperties
    <3> QED
      BY <3>1, <3>2
  <2> HIDE DEF t
  <2>3. \A i \in DOMAIN s : i = 1 \/ (i - 1 \in DOMAIN t /\ t[i - 1] = s[i])
    BY <2>1, <2>2
  <2>4. 1 \in DOMAIN s /\ \A i \in DOMAIN t : i + 1 \in DOMAIN s /\ t[i] = s[i + 1]
    BY <2>1, <2>2
  <2>5. ToSet(s) \subseteq {Head(s)} \cup ToSet(t)
    BY <2>2, <2>3 DEF ToSet
  <2>6. {Head(s)} \cup ToSet(t) \subseteq ToSet(s)
    BY <2>2, <2>4 DEF ToSet
  <2> QED
    BY <2>5, <2>6 DEF t
<1> QED
  BY <1>1, <1>2, <1>4, <1>5

\* Every set of numbers has a least one.
LEMMA LeastNatural ==
    ASSUME NEW I \in SUBSET Nat, I # {}
    PROVE  \E k \in I : \A j \in I : k <= j
<1>1. PICK k \in I : \A j \in I : ~(<<j, k>> \in OpToRel(<, Nat))
  BY NatLessThanWellFounded, WFMin
<1>2. \A j \in I : ~(j < k)
  <2> TAKE j \in I
  <2>1. ~(<<j, k>> \in OpToRel(<, Nat))
    BY <1>1, Zenon
  <2>2. j \in Nat /\ k \in Nat
    OBVIOUS
  <2> QED
    BY <2>1, <2>2, Zenon DEF OpToRel
<1> QED
  BY <1>2

\* A sequence with an element in front of k, next to the one without it.
Skip(k, i) == IF i < k THEN i ELSE i + 1
CutAt(s, t, k) == /\ Len(t) \in Nat /\ DOMAIN t = 1 .. Len(t) /\ Len(s) = Len(t) + 1 /\ DOMAIN s = 1 .. Len(s)
                  /\ k \in 1 .. Len(s) /\ \A i \in 1 .. Len(t) : t[i] = s[Skip(k, i)]

\* The sequence with and without an element in the middle.
LEMMA CutHolds ==
    ASSUME NEW S, NEW u \in Seq(S), NEW v \in Seq(S), NEW x \in S
    PROVE  /\ CutAt((u \o <<x>>) \o v, u \o v, Len(u) + 1)
           /\ ((u \o <<x>>) \o v)[Len(u) + 1] = x
           /\ (u \o <<x>>) \o v \in Seq(S) /\ u \o v \in Seq(S)
<1> DEFINE l == u \o <<x>>
           s == l \o v
           t == u \o v
           n == Len(u)
           m == Len(v)
<1>1. n \in Nat /\ m \in Nat
  BY LenProperties
<1>2. <<x>> \in Seq(S) /\ Len(<<x>>) = 1 /\ <<x>>[1] = x
  OBVIOUS
<1>3. /\ l \in Seq(S) /\ Len(l) = n + 1 /\ l[n + 1] = x
      /\ \A i \in 1 .. n : l[i] = u[i]
  BY <1>1, <1>2, ConcatProperties
<1> HIDE DEF l
<1>4. /\ s \in Seq(S) /\ Len(s) = n + 1 + m
      /\ \A i \in 1 .. n + 1 + m : s[i] = IF i <= n + 1 THEN l[i] ELSE v[i - (n + 1)]
  <2>1. /\ s \in Seq(S) /\ Len(s) = Len(l) + m
        /\ \A i \in 1 .. Len(l) + m : s[i] = IF i <= Len(l) THEN l[i] ELSE v[i - Len(l)]
    BY <1>3, ConcatProperties
  <2> QED
    BY <1>3, <2>1
<1>5. /\ t \in Seq(S) /\ Len(t) = n + m
      /\ \A i \in 1 .. n + m : t[i] = IF i <= n THEN u[i] ELSE v[i - n]
  BY <1>1, ConcatProperties
<1>6. DOMAIN s = 1 .. Len(s) /\ DOMAIN t = 1 .. Len(t)
  BY <1>4, <1>5, LenProperties
<1> HIDE DEF s, t, n, m
<1>7. ASSUME NEW i \in 1 .. n + m PROVE t[i] = s[Skip(n + 1, i)]
  <2>1. CASE i <= n
    <3>1. Skip(n + 1, i) = i /\ i \in 1 .. n /\ i \in 1 .. n + 1 + m /\ i <= n + 1
      BY <1>1, <2>1 DEF Skip
    <3>2. t[i] = u[i] /\ s[i] = l[i] /\ l[i] = u[i]
      BY <1>3, <1>4, <1>5, <2>1, <3>1
    <3> QED
      BY <3>1, <3>2
  <2>2. CASE i > n
    <3>1. Skip(n + 1, i) = i + 1 /\ i + 1 \in 1 .. n + 1 + m /\ ~(i + 1 <= n + 1) /\ (i + 1) - (n + 1) = i - n
      BY <1>1, <2>2 DEF Skip
    <3>2. ~(i <= n)
      BY <1>1, <2>2
    <3>3. t[i] = v[i - n]
      BY <1>5, <3>2
    <3>4. s[i + 1] = v[(i + 1) - (n + 1)]
      <4> DEFINE h == i + 1
      <4>1. h \in 1 .. n + 1 + m /\ ~(h <= n + 1)
        BY <3>1
      <4> HIDE DEF h
      <4>2. s[h] = v[h - (n + 1)]
        BY <1>4, <4>1
      <4> QED
        BY <4>2 DEF h
    <3> QED
      BY <3>1, <3>3, <3>4
  <2> QED
    BY <1>1, <2>1, <2>2
<1>8. s[n + 1] = x /\ n + 1 \in 1 .. Len(s)
  BY <1>1, <1>3, <1>4
<1>9. CutAt(s, t, n + 1)
  BY <1>1, <1>4, <1>5, <1>6, <1>7, <1>8 DEF CutAt
<1> QED
  BY <1>4, <1>5, <1>8, <1>9 DEF l, s, t, n

(* The traversal **********************************************************)

\* When a path through a chain has a pair.
LEMMA ThroughElements ==
    ASSUME NEW rows, NEW via, NEW deeper, NEW m
    PROVE  m \in Through(rows, via, deeper) <=>
             \E i \in Reached(rows, via, deeper) :
                /\ m \in Meets(rows[i], deeper)
                /\ \A j \in Reached(rows, via, deeper) : j < i => m[2] \notin Met(Meets(rows[j], deeper))
BY DEF Through

\* A rule that a packet does not match is not there for it.
LEMMA SkipsReached ==
    ASSUME NEW s, NEW t, NEW k, CutAt(s, t, k), NEW via, NEW deeper, ~Matches(s[k], via)
    PROVE  /\ \A i \in Reached(t, via, deeper) : Skip(k, i) \in Reached(s, via, deeper)
           /\ \A i \in Reached(s, via, deeper) :
                  \E h \in Reached(t, via, deeper) : i = Skip(k, h)
<1> DEFINE Blocks(row) == Matches(row, via) /\ Leaves(row, deeper)
<1>1. /\ Len(t) \in Nat /\ DOMAIN t = 1 .. Len(t) /\ DOMAIN s = 1 .. Len(t) + 1 /\ k \in 1 .. Len(t) + 1
      /\ \A i \in 1 .. Len(t) : t[i] = s[Skip(k, i)]
  BY DEF CutAt
<1>2. \A i : i \in Reached(t, via, deeper) <=>
            i \in 1 .. Len(t) /\ Matches(t[i], via) /\ \A j \in 1 .. i - 1 : ~Blocks(t[j])
  BY <1>1 DEF Reached
<1>3. \A i : i \in Reached(s, via, deeper) <=>
            i \in 1 .. Len(t) + 1 /\ Matches(s[i], via) /\ \A j \in 1 .. i - 1 : ~Blocks(s[j])
  BY <1>1 DEF Reached
<1>4. ~Blocks(s[k])
  OBVIOUS
<1> HIDE DEF Blocks
<1>5. ASSUME NEW i \in Reached(t, via, deeper) PROVE Skip(k, i) \in Reached(s, via, deeper)
  <2>1. ASSUME NEW j \in 1 .. Skip(k, i) - 1, j # k PROVE ~Blocks(s[j])
    <3> DEFINE h == IF j < k THEN j ELSE j - 1
    <3>1. h \in 1 .. i - 1 /\ h \in 1 .. Len(t) /\ Skip(k, h) = j
      BY <1>1, <1>2, <2>1 DEF Skip
    <3> QED
      BY <1>1, <1>2, <3>1
  <2>2. Skip(k, i) \in 1 .. Len(t) + 1
    BY <1>1, <1>2 DEF Skip
  <2> QED
    BY <1>1, <1>2, <1>3, <1>4, <2>1, <2>2
<1>6. ASSUME NEW i \in Reached(s, via, deeper) PROVE \E h \in Reached(t, via, deeper) : i = Skip(k, h)
  <2> DEFINE h == IF i < k THEN i ELSE i - 1
  <2>1. i # k
    BY <1>3
  <2>2. h \in 1 .. Len(t) /\ Skip(k, h) = i
    BY <1>1, <1>3, <2>1 DEF Skip
  <2>3. ASSUME NEW j \in 1 .. h - 1 PROVE ~Blocks(t[j])
    <3>1. Skip(k, j) \in 1 .. i - 1 /\ j \in 1 .. Len(t)
      BY <1>1, <1>3, <2>1, <2>2 DEF Skip
    <3> QED
      BY <1>1, <1>3, <3>1
  <2> QED
    BY <1>1, <1>2, <1>3, <2>2, <2>3
<1> QED
  BY <1>5, <1>6

\* A rule that a packet does not match moves it nowhere.
LEMMA Thin ==
    ASSUME NEW s, NEW t, NEW k, CutAt(s, t, k), NEW via, NEW deeper, ~Matches(s[k], via)
    PROVE  Through(s, via, deeper) = Through(t, via, deeper)
<1> DEFINE R == Reached(s, via, deeper)
           Q == Reached(t, via, deeper)
<1>1. /\ k \in Int /\ Q \subseteq Int /\ \A i \in Q : t[i] = s[Skip(k, i)]
  BY DEF CutAt, Reached
<1>2. /\ \A i \in Q : Skip(k, i) \in R
      /\ \A i \in R : \E h \in Q : i = Skip(k, h)
  BY SkipsReached
<1>3. \A i, j \in Q : Skip(k, j) < Skip(k, i) <=> j < i
  BY <1>1 DEF Skip
<1> HIDE DEF R, Q
<1>4. ASSUME NEW m PROVE m \in Through(s, via, deeper) <=> m \in Through(t, via, deeper)
  <2> DEFINE P(rows, i) == m \in Meets(rows[i], deeper)
             N(rows, i) == m[2] \notin Met(Meets(rows[i], deeper))
  <2>1. \A i \in Q : (P(t, i) <=> P(s, Skip(k, i))) /\ (N(t, i) <=> N(s, Skip(k, i)))
    BY <1>1
  <2>2. m \in Through(s, via, deeper) <=> \E i \in R : P(s, i) /\ \A j \in R : j < i => N(s, j)
    BY ThroughElements DEF R
  <2>3. m \in Through(t, via, deeper) <=> \E i \in Q : P(t, i) /\ \A j \in Q : j < i => N(t, j)
    BY ThroughElements DEF Q
  <2> HIDE DEF P, N
  <2> QED
    BY <1>2, <1>3, <2>1, <2>2, <2>3
<1> QED
  BY <1>4

\* The names of chains and policies, none of which is two things.
LEMMA ChainNames ==
    /\ DOMAIN DISPATCH = {"FORWARD_IN_USER", "FORWARD_OUT_USER", "INPUT_USER_HOOK"}
    /\ DOMAIN GRAPH = {"INPUT", "FORWARD", "INPUT_JUMP", "FORWARD_JUMP", "FORWARD_USER_HOOK"}
    /\ Owned = {DNS_CHAIN} \cup DOMAIN DISPATCH
    /\ Chains = Owned \cup DOMAIN GRAPH
    /\ DNS_CHAIN \notin DOMAIN DISPATCH
    /\ Owned \cap DOMAIN GRAPH = {}
    /\ Chains \cap (Targets \cup {"RETURN"}) = {}
    /\ \A c \in DOMAIN DISPATCH : DISPATCH[c] \in Targets \ {"ACCEPT"}
    /\ DISPATCH["FORWARD_IN_USER"] = "WAN_IN" /\ DISPATCH["FORWARD_OUT_USER"] = "WAN_OUT"
    /\ DISPATCH["INPUT_USER_HOOK"] = "WAN_LOCAL"
<1>1. /\ DOMAIN DISPATCH = {"FORWARD_IN_USER", "FORWARD_OUT_USER", "INPUT_USER_HOOK"}
      /\ DISPATCH["FORWARD_IN_USER"] = "WAN_IN" /\ DISPATCH["FORWARD_OUT_USER"] = "WAN_OUT"
      /\ DISPATCH["INPUT_USER_HOOK"] = "WAN_LOCAL"
  BY DEF DISPATCH
<1>2. DOMAIN GRAPH = {"INPUT", "FORWARD", "INPUT_JUMP", "FORWARD_JUMP", "FORWARD_USER_HOOK"}
  BY DEF GRAPH
<1> QED
  BY <1>1, <1>2 DEF Owned, Chains, DNS_CHAIN, Targets

\* A packet that a RETURN matches first meets nothing.
LEMMA ReturnFirst ==
    ASSUME NEW rows, NEW n \in Nat, DOMAIN rows = 1 .. n, NEW via, NEW deeper,
           NEW k \in 1 .. n, Matches(rows[k], via), rows[k].to = "RETURN",
           \A j \in 1 .. k - 1 : ~Matches(rows[j], via)
    PROVE  Through(rows, via, deeper) = {}
<1>1. Reached(rows, via, deeper) \subseteq {k}
  BY DEF Reached, Leaves
<1>2. Meets(rows[k], deeper) = {}
  BY ChainNames DEF Meets, Targets
<1> QED
  BY <1>1, <1>2, ThroughElements

\* Where all rules that match lead to one policy, a packet meets that policy only.
LEMMA OnePolicy ==
    ASSUME NEW rows, NEW n \in Nat, DOMAIN rows = 1 .. n, NEW via, NEW deeper,
           NEW d \in Targets \ {"ACCEPT"},
           \E i \in 1 .. n : Matches(rows[i], via),
           \A i \in 1 .. n : Matches(rows[i], via) => rows[i].to = d
    PROVE  Through(rows, via, deeper) = {d} \X Targets
<1> DEFINE I == {i \in 1 .. n : Matches(rows[i], via)}
<1>1. \A i \in I : Meets(rows[i], deeper) = {d} \X Targets
  BY ChainNames DEF Meets
<1>2. "ACCEPT" \notin Met({d} \X Targets)
  BY DEF Met
<1>3. \A i \in I : ~Leaves(rows[i], deeper)
  BY <1>1, <1>2 DEF Leaves, Targets
<1>4. Reached(rows, via, deeper) = I
  BY <1>3 DEF Reached
<1>5. PICK k \in I : \A j \in I : k <= j
  <2>1. I \in SUBSET Nat /\ I # {}
    OBVIOUS
  <2> QED
    BY <2>1, LeastNatural
<1>6. \A j \in I : ~(j < k)
  BY <1>5
<1> HIDE DEF I
<1>7. \A m : m \in Through(rows, via, deeper) <=> m \in {d} \X Targets
  BY <1>1, <1>4, <1>5, <1>6, ThroughElements
<1> QED
  BY <1>7

(* What validate accepts **************************************************)

\* The project's rules match the tunnel.
LEMMA RuleFacts ==
    ASSUME NEW c \in Owned
    PROVE  /\ Rule(c).on = "tunnel" /\ Rule(c).tag
           /\ Rule(c).to = IF c = DNS_CHAIN THEN "RETURN" ELSE DISPATCH[c]
BY DEF Rule

\* An accepted dispatch chain leads tunnel and native WAN to the WAN policy.
LEMMA DispatchPath ==
    ASSUME NEW c \in DOMAIN DISPATCH, NEW rows, NEW n \in Nat, DOMAIN rows = 1 .. n,
           \A i \in 1 .. n : GoodRow(c, rows[i]),
           NEW via \in {"native", "tunnel"}, \E i \in 1 .. n : rows[i].on = via, NEW deeper
    PROVE  Through(rows, via, deeper) = {DISPATCH[c]} \X Targets
<1>1. c \in Owned /\ c # DNS_CHAIN /\ DISPATCH[c] \in Targets \ {"ACCEPT"}
  BY ChainNames
<1>2. Rule(c).to = DISPATCH[c]
  BY <1>1, RuleFacts
<1>3. \A i \in 1 .. n : Matches(rows[i], via) => rows[i].on = via
  BY DEF Matches, GoodRow, Ifaces
<1>4. \A i \in 1 .. n : Matches(rows[i], via) => rows[i].to = DISPATCH[c]
  BY <1>2, <1>3 DEF GoodRow
<1>5. \E i \in 1 .. n : Matches(rows[i], via)
  BY DEF Matches
<1> QED
  BY <1>1, <1>4, <1>5, OnePolicy

\* An accepted DNS chain sends tunnel and native WAN back.
LEMMA DnsPath ==
    ASSUME NEW rows, Len(rows) \in Nat, DOMAIN rows = 1 .. Len(rows), GoodDns(rows), NEW via, NEW deeper,
           via = "native" \/ (via = "tunnel" /\ \E i \in DOMAIN rows : rows[i] = Rule(DNS_CHAIN))
    PROVE  Through(rows, via, deeper) = {}
<1>1. PICK n \in 0 .. Len(rows) - 1 :
            /\ \A i \in 1 .. n : rows[i] = Rule(DNS_CHAIN)
            /\ rows[n + 1] = Row("native", "RETURN")
            /\ \A i \in n + 1 .. Len(rows) : rows[i].on # "tunnel"
  BY DEF GoodDns
<1>2. Rule(DNS_CHAIN).on = "tunnel" /\ Rule(DNS_CHAIN).to = "RETURN"
  BY RuleFacts, ChainNames
<1>3. CASE via = "native"
  <2>1. n + 1 \in 1 .. Len(rows) /\ Matches(rows[n + 1], via) /\ rows[n + 1].to = "RETURN"
    BY <1>1, <1>3 DEF Row, Matches
  <2>2. \A j \in 1 .. n : ~Matches(rows[j], via)
    BY <1>1, <1>2, <1>3 DEF Matches
  <2> QED
    BY <2>1, <2>2, ReturnFirst
<1>4. CASE via = "tunnel" /\ \E i \in DOMAIN rows : rows[i] = Rule(DNS_CHAIN)
  <2>1. 1 \in 1 .. n
    BY <1>1, <1>2, <1>4
  <2>2. 1 \in 1 .. Len(rows) /\ Matches(rows[1], via) /\ rows[1].to = "RETURN"
    BY <1>1, <1>2, <1>4, <2>1 DEF Matches
  <2>3. \A j \in 1 .. 0 : ~Matches(rows[j], via)
    OBVIOUS
  <2> QED
    BY <2>2, <2>3, ReturnFirst
<1> QED
  BY <1>3, <1>4

\* The rules of UniFi's own graph match every packet.
LEMMA GraphRows ==
    ASSUME NEW c \in DOMAIN GRAPH
    PROVE  /\ Layout[c] = [i \in DOMAIN GRAPH[c] |-> Row("any", GRAPH[c][i])]
           /\ \A i \in DOMAIN Layout[c] : Layout[c][i].on = "any"
           /\ \E n \in Nat : DOMAIN Layout[c] = 1 .. n
<1>1. c \in Chains
  BY ChainNames
<1>2. Layout[c] = [i \in DOMAIN GRAPH[c] |-> Row("any", GRAPH[c][i])]
  <2>1. Layout[c] = CASE c \in DOMAIN GRAPH -> [i \in DOMAIN GRAPH[c] |-> Row("any", GRAPH[c][i])]
                      [] c = DNS_CHAIN      -> <<Row("native", "RETURN"), Row("any", "ACCEPT")>>
                      [] OTHER              -> <<Row("native", DISPATCH[c]), Row("lan", "LAN")>>
    BY <1>1, Zenon DEF Layout
  <2>2. c # DNS_CHAIN
    BY ChainNames DEF DNS_CHAIN
  <2> QED
    BY <2>1, <2>2
<1>3. \E n \in Nat : DOMAIN GRAPH[c] = 1 .. n
  <2>1. GRAPH["INPUT"] = <<"INPUT_JUMP">> /\ GRAPH["FORWARD"] = <<"FORWARD_JUMP">>
    BY DEF GRAPH
  <2>2. GRAPH["INPUT_JUMP"] = <<DNS_CHAIN, "INPUT_USER_HOOK">> /\ GRAPH["FORWARD_JUMP"] = <<"FORWARD_USER_HOOK">>
    BY DEF GRAPH
  <2>3. GRAPH["FORWARD_USER_HOOK"] = <<"FORWARD_IN_USER", "FORWARD_OUT_USER">>
    BY DEF GRAPH
  <2>4. DOMAIN GRAPH[c] = 1 .. 1 \/ DOMAIN GRAPH[c] = 1 .. 2
    BY <2>1, <2>2, <2>3, ChainNames
  <2> QED
    BY <2>4
<1> QED
  BY <1>2, <1>3 DEF Row

\* A chain of the graph is the same to every packet.
LEMMA EveryPacketAlike ==
    ASSUME NEW c \in DOMAIN GRAPH, NEW via, NEW other, NEW deeper
    PROVE  Through(Layout[c], via, deeper) = Through(Layout[c], other, deeper)
<1>1. \A i \in DOMAIN Layout[c] : Matches(Layout[c][i], via) /\ Matches(Layout[c][i], other)
  BY GraphRows DEF Matches
<1>2. PICK n \in Nat : DOMAIN Layout[c] = 1 .. n
  BY GraphRows
<1>3. \A i \in 1 .. n : \A j \in 1 .. i - 1 : j \in 1 .. n
  OBVIOUS
<1>4. Reached(Layout[c], via, deeper) = Reached(Layout[c], other, deeper)
  BY <1>1, <1>2, <1>3 DEF Reached
<1> QED
  BY <1>4 DEF Through

\* A chain is a sequence of its rules.
LEMMA RowsFacts ==
    ASSUME NEW cs, IsRules(cs), NEW c \in Chains
    PROVE  cs[c] \in Seq(Rows(c)) /\ Len(cs[c]) \in Nat /\ DOMAIN cs[c] = 1 .. Len(cs[c])
<1>1. cs[c] \in Seq(Rows(c))
  BY DEF IsRules
<1> QED
  BY <1>1, LenProperties

\* The copies of the project's rule are counted.
LEMMA OwnCopy ==
    ASSUME NEW cs, IsRules(cs), NEW c \in Owned
    PROVE  /\ Count(cs[c], Rule(c)) \in Nat
           /\ Count(cs[c], Rule(c)) > 0 <=> \E i \in DOMAIN cs[c] : cs[c][i] = Rule(c)
<1>1. cs[c] \in Seq(Rows(c))
  BY RowsFacts, ChainNames
<1> QED
  BY <1>1, CountType

\* The texts that validate accepts mean that the tunnel is filtered.
LEMMA AcceptedIsFiltered ==
    ASSUME IsRules(chains), Validate, \A c \in Owned : Copies(c) > 0
    PROVE  Filtered
<1> SUFFICES ASSUME NEW p \in Packets, "tunnel" \in {p.in, p.out}
             PROVE  Path(chains, p) = Path(chains, AsNative(p))
  BY DEF Filtered
<1> DEFINE q == AsNative(p)
<1>1. q.hook = p.hook /\ \A c : Via(c, q) = IF Via(c, p) = "tunnel" THEN "native" ELSE Via(c, p)
  BY DEF AsNative, Via, Packets
<1> HIDE DEF q
<1>2. ASSUME NEW c \in Chains, NEW deeper
      PROVE  Through(chains[c], Via(c, p), deeper) = Through(chains[c], Via(c, q), deeper)
  <2>1. CASE c \in DOMAIN GRAPH
    BY <2>1, EveryPacketAlike DEF Validate
  <2>2. CASE Via(c, p) # "tunnel"
    BY <1>1, <2>2
  <2>3. CASE c \in Owned /\ Via(c, p) = "tunnel"
    <3>1. /\ Len(chains[c]) \in Nat /\ DOMAIN chains[c] = 1 .. Len(chains[c])
          /\ \E i \in DOMAIN chains[c] : chains[c][i] = Rule(c)
      BY <2>3, RowsFacts, OwnCopy DEF Copies
    <3>2. Via(c, q) = "native"
      BY <1>1, <2>3
    <3>3. CASE c = DNS_CHAIN
      <4>1. GoodDns(chains[c])
        BY <3>3 DEF Validate
      <4> QED
        BY <2>3, <3>1, <3>2, <3>3, <4>1, DnsPath
    <3>4. CASE c \in DOMAIN DISPATCH
      <4>1. (\A i \in DOMAIN chains[c] : GoodRow(c, chains[c][i])) /\ NativeOnce(chains[c])
        BY <3>4 DEF Validate
      <4>2. \E i \in DOMAIN chains[c] : chains[c][i].on = "native"
        BY <4>1 DEF NativeOnce
      <4>3. \E i \in DOMAIN chains[c] : chains[c][i].on = "tunnel"
        BY <2>3, <3>1, RuleFacts
      <4>4. \A via \in {"native", "tunnel"} : Through(chains[c], via, deeper) = {DISPATCH[c]} \X Targets
        BY <3>1, <3>4, <4>1, <4>2, <4>3, DispatchPath
      <4> QED
        BY <2>3, <3>2, <4>4
    <3> QED
      BY <2>3, <3>3, <3>4, ChainNames
  <2> QED
    BY <2>1, <2>2, <2>3, ChainNames
<1>3. \A deeper : Level(chains, p, deeper) = Level(chains, q, deeper)
  BY <1>2 DEF Level
<1> QED
  BY <1>1, <1>3 DEF Path, q

(* A copy more or less ****************************************************)

Good(c, rows) == IF c = DNS_CHAIN THEN GoodDns(rows)
                 ELSE (\A i \in DOMAIN rows : GoodRow(c, rows[i])) /\ NativeOnce(rows)

\* validate accepts the chains one by one.
LEMMA ValidateIsGood ==
    Validate <=> (\A c \in DOMAIN GRAPH : chains[c] = Layout[c]) /\ \A c \in Owned : Good(c, chains[c])
BY ChainNames DEF Validate, Good

\* Chains s and t that differ by a copy of the project's rule.
Copied(c, s, t, k) == CutAt(s, t, k) /\ s[k] = Rule(c)

\* Without the element at k, every other element is still there, once.
LEMMA SkipFacts ==
    ASSUME NEW s, NEW t, NEW k, CutAt(s, t, k)
    PROVE  /\ \A i \in DOMAIN t : Skip(k, i) \in DOMAIN s /\ Skip(k, i) # k /\ t[i] = s[Skip(k, i)]
           /\ \A i \in DOMAIN s : i # k => \E h \in DOMAIN t : i = Skip(k, h)
           /\ \A i, h \in DOMAIN t : Skip(k, i) = Skip(k, h) <=> i = h
<1>1. ASSUME NEW i \in DOMAIN s, i # k PROVE \E h \in DOMAIN t : i = Skip(k, h)
  <2> DEFINE h == IF i < k THEN i ELSE i - 1
  <2>1. h \in DOMAIN t /\ i = Skip(k, h)
    BY <1>1 DEF CutAt, Skip
  <2> QED
    BY <2>1
<1> QED
  BY <1>1 DEF CutAt, Skip

\* A copy more or less, anywhere in a dispatch chain, is accepted or not alike.
LEMMA CopyKeepsDispatch ==
    ASSUME NEW c \in DOMAIN DISPATCH, NEW s, NEW t, NEW k, Copied(c, s, t, k)
    PROVE  Good(c, s) <=> Good(c, t)
<1>1. c \in Owned /\ c # DNS_CHAIN
  BY ChainNames
<1>2. s[k].on = "tunnel" /\ k \in DOMAIN s /\ GoodRow(c, s[k])
  <2>1. Rule(c).on = "tunnel" /\ Rule(c).to = DISPATCH[c]
    BY <1>1, RuleFacts
  <2> QED
    BY <2>1 DEF Copied, CutAt, GoodRow, Ifaces
<1>3. /\ \A i \in DOMAIN t : Skip(k, i) \in DOMAIN s /\ Skip(k, i) # k /\ t[i] = s[Skip(k, i)]
      /\ \A i \in DOMAIN s : i # k => \E h \in DOMAIN t : i = Skip(k, h)
      /\ \A i, h \in DOMAIN t : Skip(k, i) = Skip(k, h) <=> i = h
  BY SkipFacts DEF Copied
<1>4. (\A i \in DOMAIN s : GoodRow(c, s[i])) <=> (\A i \in DOMAIN t : GoodRow(c, t[i]))
  BY <1>2, <1>3
<1>5. NativeOnce(s) => NativeOnce(t)
  <2> SUFFICES ASSUME NEW i \in DOMAIN s, \A j \in DOMAIN s : s[j].on = "native" <=> j = i
               PROVE  NativeOnce(t)
    BY DEF NativeOnce
  <2>1. PICK h \in DOMAIN t : i = Skip(k, h)
    BY <1>2, <1>3
  <2>2. \A j \in DOMAIN t : t[j].on = "native" <=> j = h
    BY <1>3, <2>1
  <2> QED
    BY <2>2 DEF NativeOnce
<1>6. NativeOnce(t) => NativeOnce(s)
  <2> SUFFICES ASSUME NEW i \in DOMAIN t, \A j \in DOMAIN t : t[j].on = "native" <=> j = i
               PROVE  NativeOnce(s)
    BY DEF NativeOnce
  <2>1. \A j \in DOMAIN s : s[j].on = "native" <=> j = Skip(k, i)
    BY <1>2, <1>3
  <2> QED
    BY <1>3, <2>1 DEF NativeOnce
<1> QED
  BY <1>1, <1>4, <1>5, <1>6 DEF Good

\* A copy taken out of the DNS chain is accepted, and one put in its first place.
LEMMA CopyKeepsDns ==
    ASSUME NEW s, NEW t, NEW k, Copied(DNS_CHAIN, s, t, k)
    PROVE  /\ GoodDns(s) => GoodDns(t)
           /\ k = 1 /\ GoodDns(t) => GoodDns(s)
<1>1. /\ Len(t) \in Nat /\ DOMAIN t = 1 .. Len(t) /\ Len(s) = Len(t) + 1 /\ DOMAIN s = 1 .. Len(s)
      /\ k \in 1 .. Len(s) /\ \A i \in 1 .. Len(t) : t[i] = s[Skip(k, i)]
      /\ s[k] = Rule(DNS_CHAIN)
  BY DEF Copied, CutAt
<1>2. Rule(DNS_CHAIN).on = "tunnel" /\ Row("native", "RETURN").on = "native"
  BY RuleFacts, ChainNames DEF Row
<1>3. GoodDns(s) => GoodDns(t)
  <2> SUFFICES ASSUME NEW n \in 0 .. Len(s) - 1,
                      \A i \in 1 .. n : s[i] = Rule(DNS_CHAIN),
                      s[n + 1] = Row("native", "RETURN"),
                      \A i \in n + 1 .. Len(s) : s[i].on # "tunnel"
               PROVE  GoodDns(t)
    BY DEF GoodDns
  <2>1. k \in 1 .. n
    BY <1>1, <1>2
  <2>2. n - 1 \in 0 .. Len(t) - 1 /\ (n - 1) + 1 = n
    BY <1>1, <2>1
  <2>3. \A i \in 1 .. n - 1 : Skip(k, i) \in 1 .. n /\ i \in 1 .. Len(t)
    BY <1>1, <2>1 DEF Skip
  <2>4. t[n] = s[n + 1]
    BY <1>1, <2>1 DEF Skip
  <2>5. \A i \in n .. Len(t) : Skip(k, i) \in n + 1 .. Len(s) /\ i \in 1 .. Len(t)
    BY <1>1, <2>1 DEF Skip
  <2>6. /\ \A i \in 1 .. n - 1 : t[i] = Rule(DNS_CHAIN)
        /\ t[(n - 1) + 1] = Row("native", "RETURN")
        /\ \A i \in (n - 1) + 1 .. Len(t) : t[i].on # "tunnel"
    BY <1>1, <2>2, <2>3, <2>4, <2>5
  <2> QED
    BY <2>2, <2>6 DEF GoodDns
<1>4. k = 1 /\ GoodDns(t) => GoodDns(s)
  <2> SUFFICES ASSUME k = 1, NEW n \in 0 .. Len(t) - 1,
                      \A i \in 1 .. n : t[i] = Rule(DNS_CHAIN),
                      t[n + 1] = Row("native", "RETURN"),
                      \A i \in n + 1 .. Len(t) : t[i].on # "tunnel"
               PROVE  GoodDns(s)
    BY DEF GoodDns
  <2>1. \A i \in 2 .. Len(s) : i - 1 \in 1 .. Len(t) /\ s[i] = t[i - 1]
    <3> TAKE i \in 2 .. Len(s)
    <3>1. i - 1 \in 1 .. Len(t) /\ Skip(k, i - 1) = i
      BY <1>1 DEF Skip
    <3> QED
      BY <1>1, <3>1
  <2>2. n + 1 \in 0 .. Len(s) - 1
    BY <1>1
  <2>3. \A i \in 1 .. n + 1 : s[i] = Rule(DNS_CHAIN)
    <3> TAKE i \in 1 .. n + 1
    <3>1. CASE i = 1
      BY <1>1, <3>1
    <3>2. CASE i # 1
      <4>1. i \in 2 .. Len(s) /\ i - 1 \in 1 .. n
        BY <1>1, <3>2
      <4> QED
        BY <2>1, <4>1
    <3> QED
      BY <3>1, <3>2
  <2>4. s[(n + 1) + 1] = Row("native", "RETURN")
    <3>1. (n + 1) + 1 \in 2 .. Len(s) /\ ((n + 1) + 1) - 1 = n + 1
      BY <1>1
    <3> QED
      BY <2>1, <3>1
  <2>5. \A i \in (n + 1) + 1 .. Len(s) : s[i].on # "tunnel"
    <3> TAKE i \in (n + 1) + 1 .. Len(s)
    <3>1. i \in 2 .. Len(s) /\ i - 1 \in n + 1 .. Len(t)
      BY <1>1
    <3> QED
      BY <2>1, <3>1
  <2> QED
    BY <2>2, <2>3, <2>4, <2>5 DEF GoodDns
<1> QED
  BY <1>3, <1>4

\* Chains that every packet takes the same path through.
Alike(s, t) == \A via \in Ifaces \cup {"none"} : Through(s, via, Nowhere) = Through(t, via, Nowhere)

\* One copy among others makes no difference to anybody.
LEMMA CopyIsAlike ==
    ASSUME NEW c \in Owned, NEW s, NEW t, NEW k, Copied(c, s, t, k), Good(c, s), Good(c, t),
           \E i \in DOMAIN t : t[i] = Rule(c)
    PROVE  Alike(s, t)
<1>1. /\ Len(t) \in Nat /\ DOMAIN t = 1 .. Len(t) /\ Len(s) \in Nat /\ DOMAIN s = 1 .. Len(s)
      /\ k \in DOMAIN s /\ s[k] = Rule(c) /\ CutAt(s, t, k)
  BY DEF Copied, CutAt
<1>2. Rule(c).on = "tunnel"
  BY RuleFacts
<1>3. ASSUME NEW via \in Ifaces \cup {"none"}, via # "tunnel"
      PROVE  Through(s, via, Nowhere) = Through(t, via, Nowhere)
  <2>1. ~Matches(s[k], via)
    BY <1>1, <1>2, <1>3 DEF Matches, Ifaces
  <2> QED
    BY <1>1, <2>1, Thin
<1>4. Through(s, "tunnel", Nowhere) = Through(t, "tunnel", Nowhere)
  <2>1. CASE c = DNS_CHAIN
    <3>1. GoodDns(s) /\ GoodDns(t)
      BY <2>1 DEF Good
    <3>2. Through(s, "tunnel", Nowhere) = {}
      BY <1>1, <2>1, <3>1, DnsPath
    <3>3. Through(t, "tunnel", Nowhere) = {}
      BY <1>1, <2>1, <3>1, DnsPath
    <3> QED
      BY <3>2, <3>3
  <2>2. CASE c # DNS_CHAIN
    <3>1. c \in DOMAIN DISPATCH
      BY <2>2, ChainNames
    <3>2. (\A i \in DOMAIN s : GoodRow(c, s[i])) /\ (\A i \in DOMAIN t : GoodRow(c, t[i]))
      BY <2>2 DEF Good
    <3>3. Through(s, "tunnel", Nowhere) = {DISPATCH[c]} \X Targets
      BY <1>1, <1>2, <3>1, <3>2, DispatchPath
    <3>4. Through(t, "tunnel", Nowhere) = {DISPATCH[c]} \X Targets
      BY <1>1, <1>2, <3>1, <3>2, DispatchPath
    <3> QED
      BY <3>3, <3>4
  <2> QED
    BY <2>1, <2>2
<1> QED
  BY <1>3, <1>4 DEF Alike

\* The only copy of a chain can be taken out in one way.
LEMMA CopyIsUnique ==
    ASSUME NEW S, NEW t \in Seq(S), NEW b \in Seq(S), NEW c, NEW s, NEW k, NEW m,
           Copied(c, s, t, k), Copied(c, s, b, m), \A i \in DOMAIN b : b[i] # Rule(c)
    PROVE  t = b
<1>1. CutAt(s, t, k) /\ CutAt(s, b, m) /\ s[k] = Rule(c)
  BY DEF Copied
<1>2. k = m
  <2>1. k \in DOMAIN s
    BY <1>1 DEF CutAt
  <2>2. k # m => \E h \in DOMAIN b : k = Skip(m, h) /\ b[h] = s[Skip(m, h)]
    BY <1>1, <2>1, SkipFacts
  <2> QED
    BY <1>1, <2>2
<1>3. /\ Len(t) \in Nat /\ Len(b) \in Nat /\ Len(s) = Len(t) + 1 /\ Len(s) = Len(b) + 1
      /\ \A i \in 1 .. Len(t) : t[i] = s[Skip(k, i)]
      /\ \A i \in 1 .. Len(b) : b[i] = s[Skip(k, i)]
  BY <1>1, <1>2 DEF CutAt
<1>4. Len(t) = Len(b) /\ \A i \in 1 .. Len(t) : t[i] = b[i]
  BY <1>3
<1> QED
  BY <1>4, SeqEqual

\* iptables -I and -A.
Added(c, rows) == IF c = DNS_CHAIN THEN <<Rule(c)>> \o rows ELSE Append(rows, Rule(c))
Place(c, rows) == IF c = DNS_CHAIN THEN 1 ELSE Len(rows) + 1

\* One copy more counts one more.
LEMMA CopyCounts ==
    ASSUME NEW S, NEW u \in Seq(S), NEW v \in Seq(S), NEW x \in S
    PROVE  Count((u \o <<x>>) \o v, x) = Count(u \o v, x) + 1
<1>1. <<x>> \in Seq(S) /\ u \o <<x>> \in Seq(S)
  OBVIOUS
<1>2. Count((u \o <<x>>) \o v, x) = Count(u \o <<x>>, x) + Count(v, x)
  BY <1>1, CountConcat
<1>3. Count(u \o <<x>>, x) = Count(u, x) + Count(<<x>>, x)
  BY <1>1, CountConcat
<1>4. Count(u \o v, x) = Count(u, x) + Count(v, x)
  BY CountConcat
<1>5. Count(<<x>>, x) = 1
  BY CountOne
<1>6. Count(u, x) \in Nat /\ Count(v, x) \in Nat
  BY CountType
<1> QED
  BY <1>2, <1>3, <1>4, <1>5, <1>6

\* What a copy put in front makes of a sequence.
LEMMA PutInFront ==
    ASSUME NEW S, NEW t \in Seq(S), NEW x \in S
    PROVE  /\ <<x>> \o t \in Seq(S) /\ CutAt(<<x>> \o t, t, 1) /\ (<<x>> \o t)[1] = x
           /\ Count(<<x>> \o t, x) = Count(t, x) + 1
<1> DEFINE e == <<>>
<1>1. e \in Seq(S) /\ Len(e) + 1 = 1
  OBVIOUS
<1>2. (e \o <<x>>) \o t = <<x>> \o t /\ e \o t = t
  OBVIOUS
<1> HIDE DEF e
<1>3. /\ CutAt((e \o <<x>>) \o t, e \o t, Len(e) + 1)
      /\ ((e \o <<x>>) \o t)[Len(e) + 1] = x /\ (e \o <<x>>) \o t \in Seq(S)
  BY <1>1, CutHolds
<1>4. Count((e \o <<x>>) \o t, x) = Count(e \o t, x) + 1
  BY <1>1, CopyCounts
<1> QED
  BY <1>1, <1>2, <1>3, <1>4

\* What a copy put behind makes of a sequence.
LEMMA PutBehind ==
    ASSUME NEW S, NEW t \in Seq(S), NEW x \in S
    PROVE  /\ Append(t, x) \in Seq(S) /\ CutAt(Append(t, x), t, Len(t) + 1) /\ Append(t, x)[Len(t) + 1] = x
           /\ Count(Append(t, x), x) = Count(t, x) + 1
<1> DEFINE e == <<>>
<1>1. e \in Seq(S)
  OBVIOUS
<1>2. (t \o <<x>>) \o e = Append(t, x) /\ t \o e = t
  OBVIOUS
<1> HIDE DEF e
<1>3. /\ CutAt((t \o <<x>>) \o e, t \o e, Len(t) + 1)
      /\ ((t \o <<x>>) \o e)[Len(t) + 1] = x /\ (t \o <<x>>) \o e \in Seq(S)
  BY <1>1, CutHolds
<1>4. Count((t \o <<x>>) \o e, x) = Count(t \o e, x) + 1
  BY <1>1, CopyCounts
<1> QED
  BY <1>2, <1>3, <1>4

\* RemoveFirst takes one copy out.
LEMMA TakenOut ==
    ASSUME NEW S, NEW s \in Seq(S), NEW x \in S, Count(s, x) > 0
    PROVE  /\ RemoveFirst(s, x) \in Seq(S)
           /\ \E h : CutAt(s, RemoveFirst(s, x), h) /\ s[h] = x
           /\ Count(s, x) = Count(RemoveFirst(s, x), x) + 1
<1> DEFINE I == {i \in 1 .. Len(s) : s[i] = x}
           k == SelectInSeq(s, LAMBDA e : e = x)
<1>1. Len(s) \in Nat /\ DOMAIN s = 1 .. Len(s) /\ \A i \in 1 .. Len(s) : s[i] \in S
  BY LenProperties, ElementOfSeq
<1>2. \E i \in DOMAIN s : s[i] = x
  BY CountType
<1>3. I # {} /\ I \subseteq Nat
  BY <1>1, <1>2
<1>4. PICK k0 \in I : \A j \in I : k0 <= j
  BY <1>3, LeastNatural
<1>5. k = k0
  BY <1>3, <1>4 DEF SelectInSeq, Min
<1> HIDE DEF k
<1> DEFINE u == SubSeq(s, 1, k - 1)
           v == SubSeq(s, k + 1, Len(s))
<1>6. k \in 1 .. Len(s) /\ s[k] = x
  BY <1>1, <1>4, <1>5
<1>7. /\ u \in Seq(S) /\ Len(u) = k - 1 /\ \A i \in 1 .. k - 1 : u[i] = s[i]
      /\ v \in Seq(S) /\ Len(v) = Len(s) - k /\ \A i \in 1 .. Len(s) - k : v[i] = s[i + k]
  <2>1. /\ u \in Seq(S) /\ Len(u) = (IF 1 <= k - 1 THEN k - 1 - 1 + 1 ELSE 0)
        /\ \A i \in 1 .. k - 1 - 1 + 1 : u[i] = s[1 + i - 1]
    BY <1>1, <1>6, SubSeqProperties
  <2>2. /\ v \in Seq(S) /\ Len(v) = (IF k + 1 <= Len(s) THEN Len(s) - (k + 1) + 1 ELSE 0)
        /\ \A i \in 1 .. Len(s) - (k + 1) + 1 : v[i] = s[k + 1 + i - 1]
    BY <1>1, <1>6, SubSeqProperties
  <2> HIDE DEF u, v
  <2> DEFINE n == Len(s)
  <2>3. k \in Nat /\ n \in Nat /\ 1 <= k /\ k <= n
    BY <1>1, <1>6
  <2> HIDE DEF n
  <2>4. Len(u) = k - 1
    BY <2>1, <2>3
  <2>5. Len(v) = n - k
    BY <2>2, <2>3 DEF n
  <2>6. ASSUME NEW i \in 1 .. k - 1 PROVE u[i] = s[i]
    <3>1. i \in 1 .. k - 1 - 1 + 1 /\ 1 + i - 1 = i
      BY <2>3
    <3> QED
      BY <2>1, <3>1
  <2>7. ASSUME NEW i \in 1 .. n - k PROVE v[i] = s[i + k]
    <3>1. i \in 1 .. n - (k + 1) + 1 /\ k + 1 + i - 1 = i + k
      BY <2>3
    <3> QED
      BY <2>2, <3>1 DEF n
  <2> QED
    BY <2>1, <2>2, <2>4, <2>5, <2>6, <2>7 DEF n
<1>8. RemoveFirst(s, x) = u \o v
  BY <1>1, <1>2, <1>6 DEF RemoveFirst, RemoveAt, k
<1> HIDE DEF u, v
<1>9. <<x>> \in Seq(S) /\ Len(<<x>>) = 1 /\ <<x>>[1] = x
  BY <1>1, <1>6
<1>10. s = (u \o <<x>>) \o v
  <2>1. /\ u \o <<x>> \in Seq(S) /\ Len(u \o <<x>>) = k
        /\ \A i \in 1 .. k : (u \o <<x>>)[i] = IF i <= k - 1 THEN u[i] ELSE x
    BY <1>6, <1>7, <1>9, ConcatProperties
  <2>2. /\ (u \o <<x>>) \o v \in Seq(S) /\ Len((u \o <<x>>) \o v) = Len(s)
        /\ \A i \in 1 .. Len(s) :
               ((u \o <<x>>) \o v)[i] = IF i <= k THEN (u \o <<x>>)[i] ELSE v[i - k]
    <3> DEFINE l == u \o <<x>>
    <3>1. l \in Seq(S) /\ Len(l) = k /\ v \in Seq(S) /\ Len(v) = Len(s) - k /\ k + (Len(s) - k) = Len(s)
      BY <1>1, <1>6, <1>7, <2>1
    <3> HIDE DEF l
    <3>2. /\ l \o v \in Seq(S) /\ Len(l \o v) = Len(s)
          /\ \A i \in 1 .. Len(s) : (l \o v)[i] = IF i <= k THEN l[i] ELSE v[i - k]
      BY <3>1, ConcatProperties
    <3> QED
      BY <3>2 DEF l
  <2> DEFINE w == (u \o <<x>>) \o v
  <2>3. ASSUME NEW i \in 1 .. Len(s) PROVE w[i] = s[i]
    <3> HIDE DEF w
    <3>1. w[i] = (IF i <= k THEN (u \o <<x>>)[i] ELSE v[i - k])
      BY <2>2 DEF w
    <3>2. i \in Int /\ k \in Int
      BY <1>1, <1>6
    <3>3. CASE i <= k
      BY <1>1, <1>6, <1>7, <2>1, <3>1, <3>2, <3>3
    <3>4. CASE i > k
      <4>1. w[i] = v[i - k] /\ i - k \in 1 .. Len(s) - k /\ i - k + k = i
        BY <1>1, <1>6, <3>1, <3>2, <3>4
      <4> QED
        BY <1>7, <4>1
    <3> QED
      BY <3>2, <3>3, <3>4
  <2>4. w = s
    BY <2>2, <2>3, SeqEqual
  <2> QED
    BY <2>4 DEF w
<1>11. CutAt(s, u \o v, Len(u) + 1) /\ s[Len(u) + 1] = x /\ u \o v \in Seq(S)
  BY <1>7, <1>10, CutHolds
<1>12. Count(s, x) = Count(u \o v, x) + 1
  BY <1>7, <1>10, CopyCounts
<1> QED
  BY <1>8, <1>11, <1>12

\* The project's rule may come up in its chain.
LEMMA RuleIsRow ==
    ASSUME NEW c \in Owned
    PROVE  Rule(c) \in Rows(c)
<1>1. Rule(c) \in Foreign(c)
  BY ChainNames, Zenon DEF Foreign
<1> QED
  BY <1>1 DEF Rows

\* The plan's command puts one copy in.
LEMMA AddedIsCopied ==
    ASSUME NEW c \in Owned, NEW t \in Seq(Rows(c))
    PROVE  /\ Added(c, t) \in Seq(Rows(c))
           /\ Copied(c, Added(c, t), t, Place(c, t))
           /\ Count(Added(c, t), Rule(c)) = Count(t, Rule(c)) + 1
BY RuleIsRow, PutInFront, PutBehind DEF Added, Place, Copied

\* The deletion takes one copy out.
LEMMA RemovedIsCopied ==
    ASSUME NEW c \in Owned, NEW s \in Seq(Rows(c)), Count(s, Rule(c)) > 0
    PROVE  LET t == RemoveFirst(s, Rule(c))
           IN  /\ t \in Seq(Rows(c))
               /\ \E k : Copied(c, s, t, k)
               /\ Count(s, Rule(c)) = Count(t, Rule(c)) + 1
BY RuleIsRow, TakenOut DEF Copied

(* The invariant **********************************************************)

\* The copies the plan has seen, what it asks of a chain, and its result.
Seen(c)   == Count(hist.before[c], Rule(c))
Wanted(c) == Act(c, IF Seen(c) = 0 THEN Adding(c) ELSE "delete")

\* A chain that had no copy is as it was or has one; in any other one is left.
Kept(c) == IF Seen(c) = 0 THEN chains[c] \in {hist.before[c], Added(c, hist.before[c])}
           ELSE Copies(c) > 0 /\ Alike(chains[c], hist.before[c])

\* What is left to do leads to one copy; what is remembered takes back all
\* added, unless an inverse has failed.
Ahead(c)  == Copies(c) + (IF Seen(c) = 0 THEN Count(run.todo, Wanted(c)) ELSE -Count(run.todo, Wanted(c))) = 1
Behind(c) == Seen(c) = 0 /\ ~hist.stuck => Copies(c) <= Count(run.undo, Act(c, "delete"))

\* A transaction whose chains nobody has edited since its plan.
Alone == run.pc = "act" /\ ~hist.touched
AloneInv ==
    Alone => /\ Validate
             /\ \A c \in DOMAIN GRAPH : chains[c] = hist.before[c]
             /\ ToSet(run.todo) \subseteq {Wanted(c) : c \in Owned}
             /\ ToSet(run.undo) \subseteq {Reverted(Wanted(c)) : c \in Owned}
             /\ \A c \in Owned : Kept(c) /\ Behind(c)
             /\ ~run.rolling => \A c \in Owned : Ahead(c)

PhaseInv == /\ run.rolling => run.pc = "act"
            /\ run.pc = "act" => run.outcome \in {"none", "rollback-failed"}

\* What the plan asks of a chain, and what takes it back.
LEMMA CommandFacts ==
    ASSUME NEW c \in Owned
    PROVE  /\ Adding(c) \in {"insert", "append"} /\ Adding(c) # "delete" /\ (Adding(c) = "insert" <=> c = DNS_CHAIN)
           /\ Wanted(c) \in Actions /\ Wanted(c).chain = c
           /\ Wanted(c).cmd = IF Seen(c) = 0 THEN Adding(c) ELSE "delete"
           /\ Reverted(Wanted(c)) \in Actions /\ Reverted(Wanted(c)).chain = c
           /\ Reverted(Wanted(c)).cmd = IF Seen(c) = 0 THEN "delete" ELSE Adding(c)
<1>1. Adding(c) \in {"insert", "append"} /\ Adding(c) # "delete" /\ (Adding(c) = "insert" <=> c = DNS_CHAIN)
  BY DEF Adding
<1>2. /\ Wanted(c) \in Actions /\ Wanted(c).chain = c
      /\ Wanted(c).cmd = IF Seen(c) = 0 THEN Adding(c) ELSE "delete"
  BY <1>1 DEF Wanted, Act, Actions
<1> QED
  BY <1>1, <1>2 DEF Reverted, Act, Actions

\* What a command does to its chain, and that it does nothing to others.
LEMMA DoneFacts ==
    ASSUME IsRules(chains), NEW a \in Actions, Works(a), Done(a)
    PROVE  /\ IsRules(chains')
           /\ \A c \in Chains : c # a.chain => chains'[c] = chains[c]
           /\ a.cmd = "delete" => chains'[a.chain] = RemoveFirst(chains[a.chain], Rule(a.chain))
           /\ a.cmd = Adding(a.chain) => chains'[a.chain] = Added(a.chain, chains[a.chain])
<1> DEFINE c == a.chain
           s == chains[c]
           R == Rule(c)
<1>1. c \in Owned /\ c \in Chains /\ a.cmd \in {"insert", "append", "delete"}
  BY ChainNames DEF Actions
<1>2. s \in Seq(Rows(c)) /\ R \in Rows(c)
  BY <1>1, RowsFacts, RuleIsRow
<1>3. DOMAIN chains = Chains /\ chains \in [Chains -> Seq(UNION {Rows(d) : d \in Chains})]
  BY DEF IsRules
<1>4. chains' = [chains EXCEPT ![c] = CASE a.cmd = "insert" -> <<R>> \o s
                                        [] a.cmd = "append" -> Append(s, R)
                                        [] OTHER            -> RemoveFirst(s, R)]
  BY DEF Done
<1>5. /\ a.cmd = "insert" => chains'[c] = <<R>> \o s
      /\ a.cmd = "append" => chains'[c] = Append(s, R)
      /\ a.cmd = "delete" => chains'[c] = RemoveFirst(s, R)
      /\ \A d \in Chains : d # c => chains'[d] = chains[d]
  BY <1>1, <1>3, <1>4
<1>6. chains'[c] \in Seq(Rows(c))
  <2>1. a.cmd = "delete" => Count(s, R) > 0
    BY DEF Works, Copies
  <2>2. a.cmd = "delete" => RemoveFirst(s, R) \in Seq(Rows(c))
    BY <1>2, <2>1, TakenOut
  <2>3. <<R>> \o s \in Seq(Rows(c)) /\ Append(s, R) \in Seq(Rows(c))
    BY <1>2, PutInFront, PutBehind
  <2> QED
    BY <1>1, <1>5, <2>2, <2>3
<1>7. IsRules(chains')
  <2>1. Seq(Rows(c)) \subseteq Seq(UNION {Rows(d) : d \in Chains})
    BY <1>1, SeqMonotonic
  <2>2. chains' \in [Chains -> Seq(UNION {Rows(d) : d \in Chains})]
    BY <1>3, <1>4, <1>5, <1>6, <2>1
  <2>3. \A d \in Chains : chains'[d] \in Seq(Rows(d))
    BY <1>5, <1>6 DEF IsRules
  <2> QED
    BY <2>2, <2>3 DEF IsRules
<1>8. a.cmd = Adding(c) => chains'[c] = Added(c, s)
  BY <1>1, <1>5, CommandFacts DEF Added
<1> QED
  BY <1>5, <1>7, <1>8

\* A copy more or less keeps a chain acceptable.
LEMMA DoneIsGood ==
    ASSUME IsRules(chains), NEW a \in Actions, Works(a), Done(a), a.cmd \in {"delete", Adding(a.chain)},
           Good(a.chain, chains[a.chain])
    PROVE  /\ Good(a.chain, chains'[a.chain])
           /\ a.cmd = "delete" => \E k : Copied(a.chain, chains[a.chain], chains'[a.chain], k)
           /\ a.cmd # "delete" => \E k : Copied(a.chain, chains'[a.chain], chains[a.chain], k)
           /\ Copies(a.chain) \in Nat
           /\ Copies(a.chain)' = IF a.cmd = "delete" THEN Copies(a.chain) - 1 ELSE Copies(a.chain) + 1
<1> DEFINE c == a.chain
           s == chains[c]
           t == chains'[c]
<1>1. c \in Owned /\ c \in Chains /\ s \in Seq(Rows(c))
  BY ChainNames, RowsFacts DEF Actions
<1>2. Copies(c) = Count(s, Rule(c)) /\ Copies(c)' = Count(t, Rule(c)) /\ Count(s, Rule(c)) \in Nat
  BY <1>1, CountType DEF Copies
<1>3. CASE a.cmd = "delete"
  <2>1. t = RemoveFirst(s, Rule(c)) /\ Count(s, Rule(c)) > 0
    BY <1>2, <1>3, DoneFacts DEF Works
  <2>2. /\ t \in Seq(Rows(c)) /\ \E k : Copied(c, s, t, k)
        /\ Count(s, Rule(c)) = Count(t, Rule(c)) + 1
    BY <1>1, <2>1, RemovedIsCopied
  <2>3. Good(c, t)
    BY <1>1, <2>2, CopyKeepsDispatch, CopyKeepsDns, ChainNames DEF Good
  <2>4. Count(t, Rule(c)) \in Nat
    BY <2>2, CountType
  <2> QED
    BY <1>2, <1>3, <2>2, <2>3, <2>4
<1>4. CASE a.cmd # "delete"
  <2>1. t = Added(c, s)
    BY <1>4, DoneFacts
  <2>2. Copied(c, t, s, Place(c, s)) /\ Count(t, Rule(c)) = Count(s, Rule(c)) + 1
    BY <1>1, <2>1, AddedIsCopied
  <2>3. c = DNS_CHAIN => Place(c, s) = 1
    BY DEF Place
  <2>4. Good(c, t)
    BY <1>1, <2>2, <2>3, CopyKeepsDispatch, CopyKeepsDns, ChainNames DEF Good
  <2> QED
    BY <1>2, <1>4, <2>2, <2>4
<1> QED
  BY <1>3, <1>4

\* A command of the plan, or its inverse, keeps the chain as the plan may leave it.
LEMMA KeptStep ==
    ASSUME IsRules(chains), IsRules(hist.before), hist'.before = hist.before, NEW a \in Actions, Works(a), Done(a),
           NEW c \in Owned, c = a.chain, Good(c, chains[c]), Kept(c),
           IF Seen(c) = 0 THEN a.cmd = "delete" \/ (a.cmd = Adding(c) /\ Copies(c) = 0)
           ELSE a.cmd = Adding(c) \/ (a.cmd = "delete" /\ Copies(c) > 1)
    PROVE  Kept(c)'
<1> DEFINE s == chains[c]
           t == chains'[c]
           b == hist.before[c]
           R == Rule(c)
           n == Copies(c)
           m == Seen(c)
           x == Added(c, b)
<1>1. s \in Seq(Rows(c)) /\ b \in Seq(Rows(c)) /\ t \in Seq(Rows(c))
  <2>1. IsRules(chains') /\ c \in Chains
    BY DoneFacts, ChainNames
  <2> QED
    BY <2>1, RowsFacts
<1>2. \A q \in Seq(Rows(c)) : Count(q, R) \in Nat /\ (Count(q, R) > 0 <=> \E i \in DOMAIN q : q[i] = R)
  BY CountType
<1>3. n = Count(s, R) /\ m = Count(b, R) /\ Copies(c)' = Count(t, R)
  BY DEF Seen, Copies
<1>4. IF m = 0 THEN s \in {b, x} ELSE n > 0 /\ Alike(s, b)
  BY DEF Kept
<1>5. Kept(c)' <=> IF m = 0 THEN t \in {b, x} ELSE Copies(c)' > 0 /\ Alike(t, b)
  BY DEF Kept, Seen, Added
<1>6. Copied(c, x, b, Place(c, b)) /\ Count(x, R) = Count(b, R) + 1
  BY <1>1, AddedIsCopied
<1>7. a.cmd = "delete" => n > 0 /\ t = RemoveFirst(s, R) /\ \E k : Copied(c, s, t, k)
  BY <1>1, DoneFacts, RemovedIsCopied DEF Works, Copies
<1>8. a.cmd = Adding(c) => t = Added(c, s)
  BY DoneFacts
<1>9. m # 0 => \/ a.cmd = "delete" /\ n > 1 /\ Copies(c)' = n - 1 /\ Good(c, t)
               \/ /\ a.cmd = Adding(c) /\ Copies(c)' = n + 1 /\ Good(c, t)
                  /\ \E k : Copied(c, t, s, k)
  BY DoneIsGood, CommandFacts
<1>10. m = 0 => a.cmd = "delete" \/ (a.cmd = Adding(c) /\ n = 0)
  OBVIOUS
<1> HIDE DEF s, t, b, R, n, m, x
<1>11. CASE m = 0 /\ a.cmd = "delete"
  <2>0. m = 0 /\ n # 0
    BY <1>7, <1>11
  <2>1. s = x
    BY <1>3, <1>4, <2>0
  <2>2. PICK k : Copied(c, s, t, k)
    BY <1>7, <1>11
  <2>3. \A i \in DOMAIN b : b[i] # R
    <3>1. ~(Count(b, R) > 0)
      BY <1>3, <2>0
    <3> QED
      BY <1>1, <1>2, <3>1
  <2>4. t = b
    BY <1>1, <1>6, <2>1, <2>2, <2>3, CopyIsUnique DEF R
  <2> QED
    BY <1>5, <1>11, <2>4
<1>12. CASE m = 0 /\ a.cmd # "delete"
  <2>1. s = b
    BY <1>1, <1>2, <1>3, <1>4, <1>6, <1>10, <1>12
  <2> QED
    BY <1>5, <1>8, <1>10, <1>12, <2>1 DEF x
<1>13. CASE m # 0
  <2>1. n \in Nat /\ n > 0 /\ Alike(s, b) /\ Copies(c)' > 0
    BY <1>1, <1>2, <1>3, <1>4, <1>9, <1>13
  <2>2. (\E i \in DOMAIN s : s[i] = R) /\ (\E i \in DOMAIN t : t[i] = R)
    BY <1>1, <1>2, <1>3, <2>1
  <2>3. Good(c, s) /\ Good(c, t)
    BY <1>9, <1>13 DEF s
  <2>4. Alike(s, t) \/ Alike(t, s)
    <3>1. CASE a.cmd = "delete"
      BY <1>7, <2>2, <2>3, <3>1, CopyIsAlike DEF R
    <3>2. CASE a.cmd # "delete"
      BY <1>9, <1>13, <2>2, <2>3, <3>2, CopyIsAlike DEF R
    <3> QED
      BY <3>1, <3>2
  <2>5. Alike(t, b)
    BY <2>1, <2>4 DEF Alike
  <2> QED
    BY <1>5, <1>13, <2>1, <2>5
<1> QED
  BY <1>11, <1>12, <1>13

(* The plan ***************************************************************)

\* What is in a sequence counts.
LEMMA InSequence ==
    ASSUME NEW S, NEW s \in Seq(S), NEW x
    PROVE  x \in ToSet(s) <=> Count(s, x) > 0
BY CountType DEF ToSet

\* Head and tail of a sequence with an element put in front.
LEMMA ConsFacts ==
    ASSUME NEW S, NEW s \in Seq(S), NEW x \in S
    PROVE  /\ <<x>> \o s \in Seq(S) /\ <<x>> \o s # <<>>
           /\ Head(<<x>> \o s) = x /\ Tail(<<x>> \o s) = s
<1> DEFINE u == <<x>> \o s
           t == Tail(u)
<1>1. <<x>> \in Seq(S) /\ Len(<<x>>) = 1 /\ <<x>>[1] = x /\ Len(s) \in Nat
  BY LenProperties
<1>2. /\ u \in Seq(S) /\ Len(u) = 1 + Len(s)
      /\ \A i \in 1 .. 1 + Len(s) : u[i] = IF i <= 1 THEN <<x>>[i] ELSE s[i - 1]
  BY <1>1, ConcatProperties
<1> HIDE DEF u
<1>3. u # <<>> /\ Head(u) = u[1] /\ u[1] = x
  BY <1>1, <1>2
<1>4. t \in Seq(S) /\ Len(t) = Len(s) /\ \A i \in 1 .. Len(t) : t[i] = u[i + 1]
  BY <1>1, <1>2, <1>3, HeadTailProperties
<1> HIDE DEF t
<1>5. ASSUME NEW i \in 1 .. Len(s) PROVE t[i] = s[i]
  <2> DEFINE h == i + 1
  <2>1. h \in 1 .. 1 + Len(s) /\ ~(h <= 1) /\ h - 1 = i /\ t[i] = u[h]
    BY <1>1, <1>4
  <2> HIDE DEF h
  <2> QED
    BY <1>2, <2>1
<1>6. t = s
  BY <1>4, <1>5, SeqEqual
<1> QED
  BY <1>2, <1>3, <1>6 DEF u, t

\* The commands for a chain are all among those of the plan, and no others for it.
LEMMA InOrderFacts ==
    ASSUME NEW f \in [Owned -> Seq(Actions)], \A c \in Owned : \A i \in DOMAIN f[c] : f[c][i].chain = c
    PROVE  /\ InOrder(f) \in Seq(Actions)
           /\ \A a \in Actions : Count(InOrder(f), a) = Count(f[a.chain], a)
<1> DEFINE f1 == f[DNS_CHAIN]
           f2 == f["FORWARD_IN_USER"]
           f3 == f["FORWARD_OUT_USER"]
           f4 == f["INPUT_USER_HOOK"]
<1>1. f1 \in Seq(Actions) /\ f2 \in Seq(Actions) /\ f3 \in Seq(Actions) /\ f4 \in Seq(Actions)
  BY ChainNames
<1>2. ASSUME NEW a \in Actions PROVE Count(InOrder(f), a) = Count(f[a.chain], a)
  <2>1. Count(InOrder(f), a) = ((Count(f1, a) + Count(f2, a)) + Count(f3, a)) + Count(f4, a)
    <3> HIDE DEF f1, f2, f3, f4
    <3>1. f1 \o f2 \in Seq(Actions) /\ (f1 \o f2) \o f3 \in Seq(Actions)
      BY <1>1, ConcatProperties
    <3>2. Count(f1 \o f2, a) = Count(f1, a) + Count(f2, a)
      BY <1>1, CountConcat
    <3>3. Count((f1 \o f2) \o f3, a) = Count(f1 \o f2, a) + Count(f3, a)
      BY <1>1, <3>1, CountConcat
    <3>4. Count(((f1 \o f2) \o f3) \o f4, a) = Count((f1 \o f2) \o f3, a) + Count(f4, a)
      BY <1>1, <3>1, CountConcat
    <3> QED
      BY <3>2, <3>3, <3>4 DEF InOrder, f1, f2, f3, f4
  <2>2. \A c \in Owned : c # a.chain => Count(f[c], a) = 0
    <3> TAKE c \in Owned
    <3> DEFINE s == f[c]
    <3>1. s \in Seq(Actions) /\ (c # a.chain => ~\E i \in DOMAIN s : s[i] = a)
      OBVIOUS
    <3> HIDE DEF s
    <3>2. Count(s, a) \in Nat /\ (Count(s, a) > 0 <=> \E i \in DOMAIN s : s[i] = a)
      BY <3>1, CountType
    <3>3. c # a.chain => Count(s, a) = 0
      BY <3>1, <3>2
    <3> QED
      BY <3>3 DEF s
  <2>3. Count(f[a.chain], a) \in Nat /\ a.chain \in Owned
    BY CountType DEF Actions
  <2>4. Owned = {DNS_CHAIN, "FORWARD_IN_USER", "FORWARD_OUT_USER", "INPUT_USER_HOOK"}
    BY ChainNames
  <2>5. DNS_CHAIN \notin {"FORWARD_IN_USER", "FORWARD_OUT_USER", "INPUT_USER_HOOK"}
    BY DEF DNS_CHAIN
  <2> QED
    BY <2>1, <2>2, <2>3, <2>4, <2>5
<1>3. InOrder(f) \in Seq(Actions)
  <2> HIDE DEF f1, f2, f3, f4
  <2>1. f1 \o f2 \in Seq(Actions) /\ (f1 \o f2) \o f3 \in Seq(Actions) /\ ((f1 \o f2) \o f3) \o f4 \in Seq(Actions)
    BY <1>1, ConcatProperties
  <2> QED
    BY <2>1 DEF InOrder, f1, f2, f3, f4
<1> QED
  BY <1>2, <1>3

\* What a plan asks of a chain that has so many copies.
Asked(c) == Act(c, IF Copies(c) = 0 THEN Adding(c) ELSE "delete")

\* The plan asks for a missing rule once, and for all copies but one to go.
LEMMA PlanFacts ==
    ASSUME IsRules(chains)
    PROVE  /\ Missing \o Spare \in Seq(Actions)
           /\ ToSet(Missing \o Spare) \subseteq {Asked(c) : c \in Owned}
           /\ \A c \in Owned : /\ Copies(c) \in Nat
                               /\ Count(Missing \o Spare, Asked(c)) = IF Copies(c) = 0 THEN 1 ELSE Copies(c) - 1
<1> DEFINE f == [c \in Owned |-> IF Copies(c) = 0 THEN <<Act(c, Adding(c))>> ELSE <<>>]
           g == [c \in Owned |-> [i \in 1 .. Copies(c) - 1 |-> Act(c, "delete")]]
<1>1. \A c \in Owned : Copies(c) \in Nat
  BY OwnCopy DEF Copies
<1>2. \A c \in Owned : Act(c, Adding(c)) \in Actions /\ Act(c, "delete") \in Actions /\ Adding(c) # "delete"
  BY CommandFacts DEF Act, Actions
<1>3. ASSUME NEW c \in Owned
      PROVE  /\ f[c] \in Seq(Actions) /\ \A i \in DOMAIN f[c] : f[c][i].chain = c
             /\ Count(f[c], Act(c, Adding(c))) = IF Copies(c) = 0 THEN 1 ELSE 0
             /\ Count(f[c], Act(c, "delete")) = 0
  <2>1. Act(c, Adding(c)) # Act(c, "delete")
    BY <1>2 DEF Act
  <2>2. CASE Copies(c) = 0
    <3>1. f[c] = <<Act(c, Adding(c))>>
      BY <2>2
    <3> QED
      BY <1>2, <2>1, <2>2, <3>1, CountOne DEF Act
  <2>3. CASE Copies(c) # 0
    <3>1. f[c] = <<>>
      BY <2>3
    <3> QED
      BY <2>3, <3>1, CountNone
  <2> QED
    BY <2>2, <2>3
<1>4. ASSUME NEW c \in Owned
      PROVE  /\ g[c] \in Seq(Actions) /\ \A i \in DOMAIN g[c] : g[c][i].chain = c
             /\ Count(g[c], Act(c, Adding(c))) = 0
             /\ Count(g[c], Act(c, "delete")) = IF Copies(c) = 0 THEN 0 ELSE Copies(c) - 1
  <2> DEFINE n == IF Copies(c) = 0 THEN 0 ELSE Copies(c) - 1
             d == Act(c, "delete")
  <2>1. n \in Nat /\ 1 .. Copies(c) - 1 = 1 .. n
    BY <1>1
  <2>2. g[c] = [i \in 1 .. n |-> d]
    BY <2>1
  <2>3. d \in Actions /\ d.chain = c /\ Act(c, Adding(c)) # d
    BY <1>2 DEF Act
  <2> HIDE DEF n, d, g
  <2>4. [i \in 1 .. n |-> d] \in Seq(Actions)
    BY <2>1, <2>3
  <2>5. \A y : Count([i \in 1 .. n |-> d], y) = IF d = y THEN n ELSE 0
    BY <2>1, CountSame
  <2>6. Count(g[c], d) = n /\ Count(g[c], Act(c, Adding(c))) = 0
    BY <2>2, <2>3, <2>5
  <2> QED
    BY <2>2, <2>3, <2>4, <2>6 DEF n, d
<1>5. f \in [Owned -> Seq(Actions)] /\ g \in [Owned -> Seq(Actions)]
  BY <1>3, <1>4
<1>6. Missing = InOrder(f) /\ Spare = InOrder(g)
  BY DEF Missing, Spare
<1> HIDE DEF f, g
<1>7. /\ Missing \in Seq(Actions) /\ Spare \in Seq(Actions)
      /\ \A a \in Actions : Count(Missing, a) = Count(f[a.chain], a) /\ Count(Spare, a) = Count(g[a.chain], a)
  BY <1>3, <1>4, <1>5, <1>6, InOrderFacts
<1>8. Missing \o Spare \in Seq(Actions)
  BY <1>7, ConcatProperties
<1>9. ASSUME NEW a \in Actions
      PROVE  Count(Missing \o Spare, a) = Count(f[a.chain], a) + Count(g[a.chain], a)
  BY <1>7, CountConcat
<1>10. ASSUME NEW c \in Owned
       PROVE  /\ Count(Missing \o Spare, Act(c, Adding(c))) = IF Copies(c) = 0 THEN 1 ELSE 0
              /\ Count(Missing \o Spare, Act(c, "delete")) = IF Copies(c) = 0 THEN 0 ELSE Copies(c) - 1
  <2>1. Act(c, Adding(c)).chain = c /\ Act(c, "delete").chain = c
    BY DEF Act
  <2> QED
    BY <1>1, <1>2, <1>3, <1>4, <1>9, <2>1
<1>11. ASSUME NEW a \in ToSet(Missing \o Spare) PROVE \E c \in Owned : a = Asked(c)
  <2>1. a \in Actions /\ Count(Missing \o Spare, a) > 0
    BY <1>8, InSequence, ElementOfSeq, LenProperties DEF ToSet
  <2>2. a.chain \in Owned /\ a = Act(a.chain, a.cmd)
    BY <2>1 DEF Actions, Act
  <2>3. PICK c \in Owned : c = a.chain
    BY <2>2
  <2> DEFINE u == f[c]
             v == g[c]
  <2>4. u \in Seq(Actions) /\ v \in Seq(Actions)
    BY <1>5
  <2>5. /\ \A i \in DOMAIN u : u[i] = Act(c, Adding(c))
        /\ \A i \in DOMAIN v : v[i] = Act(c, "delete")
    BY DEF f, g
  <2>6. Count(u, a) + Count(v, a) > 0
    BY <1>9, <2>1, <2>3
  <2> HIDE DEF u, v
  <2>7. /\ Count(u, a) \in Nat /\ (Count(u, a) > 0 <=> \E i \in DOMAIN u : u[i] = a)
        /\ Count(v, a) \in Nat /\ (Count(v, a) > 0 <=> \E i \in DOMAIN v : v[i] = a)
    BY <2>4, CountType
  <2>8. a = Act(c, Adding(c)) \/ a = Act(c, "delete")
    BY <2>5, <2>6, <2>7
  <2> QED
    BY <1>1, <1>10, <2>1, <2>8 DEF Asked
<1> QED
  BY <1>1, <1>8, <1>10, <1>11 DEF Asked

(* The steps **************************************************************)

IInv == TypeOK /\ PhaseInv /\ AloneInv

\* What the types say of chains, actions and counts.
LEMMA TypeFacts ==
    ASSUME TypeOK
    PROVE  /\ IsRules(chains) /\ IsRules(hist.before)
           /\ run.todo \in Seq(Actions) /\ run.undo \in Seq(Actions)
           /\ \A c \in Owned : Copies(c) \in Nat /\ Seen(c) \in Nat
           /\ \A a : Count(run.todo, a) \in Nat /\ Count(run.undo, a) \in Nat
           /\ \A a \in Actions : Reverted(a) \in Actions
<1>1. IsRules(chains) /\ IsRules(hist.before) /\ run.todo \in Seq(Actions) /\ run.undo \in Seq(Actions)
  BY DEF TypeOK
<1>2. \A c \in Owned : Copies(c) \in Nat /\ Seen(c) \in Nat
  BY <1>1, OwnCopy DEF Copies, Seen
<1>3. \A a : Count(run.todo, a) \in Nat /\ Count(run.undo, a) \in Nat
  BY <1>1, CountType
<1>4. \A a \in Actions : Reverted(a) \in Actions
  BY CommandFacts DEF Reverted, Act, Actions
<1> QED
  BY <1>1, <1>2, <1>3, <1>4

\* A command on a chain, while nobody else edits the chains.
LEMMA Commanded ==
    ASSUME TypeOK, AloneInv, Alone, hist'.before = hist.before, NEW c \in Owned, NEW a \in Actions, a.chain = c,
           Works(a), Done(a),
           IF Seen(c) = 0 THEN a.cmd = "delete" \/ (a.cmd = Adding(c) /\ Copies(c) = 0)
           ELSE a.cmd = Adding(c) \/ (a.cmd = "delete" /\ Copies(c) > 1)
    PROVE  /\ IsRules(chains') /\ Validate'
           /\ \A d \in DOMAIN GRAPH : chains'[d] = hist'.before[d]
           /\ \A d \in Owned : Kept(d)' /\ (d # c => Copies(d)' = Copies(d))
           /\ Copies(c)' = IF a.cmd = "delete" THEN Copies(c) - 1 ELSE Copies(c) + 1
<1>1. /\ IsRules(chains) /\ IsRules(hist.before) /\ Validate
      /\ \A d \in DOMAIN GRAPH : chains[d] = hist.before[d]
      /\ \A d \in Owned : Kept(d)
  BY TypeFacts DEF AloneInv
<1>2. (\A d \in DOMAIN GRAPH : chains[d] = Layout[d]) /\ \A d \in Owned : Good(d, chains[d])
  BY <1>1, ValidateIsGood
<1>3. IsRules(chains') /\ \A d \in Chains : d # c => chains'[d] = chains[d]
  BY <1>1, DoneFacts
<1>4. a.cmd \in {"delete", Adding(a.chain)}
  OBVIOUS
<1>5. /\ Good(c, chains'[c])
      /\ Copies(c)' = IF a.cmd = "delete" THEN Copies(c) - 1 ELSE Copies(c) + 1
  BY <1>1, <1>2, <1>4, DoneIsGood
<1>6. Kept(c)'
  BY <1>1, <1>2, KeptStep
<1>7. ASSUME NEW d \in Owned, d # c PROVE Kept(d)' /\ Copies(d)' = Copies(d)
  <2>1. chains'[d] = chains[d] /\ Kept(d)
    BY <1>1, <1>3, <1>7, ChainNames
  <2> QED
    BY <2>1 DEF Kept, Copies, Seen, Added
<1>8. \A d \in DOMAIN GRAPH : chains'[d] = chains[d]
  BY <1>3, ChainNames
<1>9. \A d \in Owned : Good(d, chains'[d])
  BY <1>2, <1>3, <1>5, ChainNames
<1>10. Validate'
  BY <1>2, <1>8, <1>9, ChainNames DEF Validate, Good
<1> QED
  BY <1>1, <1>3, <1>5, <1>6, <1>7, <1>8, <1>10

\* UniFi's own layout is a layout.
LEMMA LayoutIsRules == IsRules(Layout)
<1>1. ASSUME NEW c \in Chains PROVE \E n \in Nat : DOMAIN Layout[c] = 1 .. n /\ Layout[c] = [i \in 1 .. n |-> Layout[c][i]]
  <2>1. CASE c \in DOMAIN GRAPH
    <3>1. PICK n \in Nat : DOMAIN Layout[c] = 1 .. n
      BY <2>1, GraphRows
    <3>2. Layout[c] = [i \in DOMAIN Layout[c] |-> Layout[c][i]]
      BY <2>1, GraphRows
    <3> QED
      BY <3>1, <3>2
  <2>2. CASE c = DNS_CHAIN
    <3>1. c \notin DOMAIN GRAPH
      BY <2>2, ChainNames
    <3>2. Layout[c] = <<Row("native", "RETURN"), Row("any", "ACCEPT")>>
      BY <2>2, <3>1 DEF Layout
    <3> QED
      BY <3>2
  <2>3. CASE c \notin DOMAIN GRAPH /\ c # DNS_CHAIN
    <3>1. Layout[c] = <<Row("native", DISPATCH[c]), Row("lan", "LAN")>>
      BY <2>3 DEF Layout
    <3> QED
      BY <3>1
  <2> QED
    BY <2>1, <2>2, <2>3
<1>2. ASSUME NEW c \in Chains PROVE Layout[c] \in Seq(Rows(c))
  <2>1. PICK n \in Nat : DOMAIN Layout[c] = 1 .. n /\ Layout[c] = [i \in 1 .. n |-> Layout[c][i]]
    BY <1>1
  <2>2. \A i \in 1 .. n : Layout[c][i] \in Rows(c)
    BY <2>1 DEF Rows
  <2> QED
    BY <2>1, <2>2, IsASeq
<1>3. \A c \in Chains : Seq(Rows(c)) \subseteq Seq(UNION {Rows(d) : d \in Chains})
  BY SeqMonotonic
<1>4. Layout = [c \in Chains |-> Layout[c]]
  BY DEF Layout
<1> QED
  BY <1>2, <1>3, <1>4 DEF IsRules

\* Nothing runs at the start.
LEMMA InitInv == Init => IInv
<1> SUFFICES ASSUME Init PROVE IInv
  OBVIOUS
<1>1. chains = Layout /\ run = Idle /\ hist = [edits |-> 0, touched |-> FALSE, before |-> Layout, faults |-> 0,
                                                   stuck |-> FALSE]
  BY DEF Init
<1>2. IsRules(Layout)
  BY LayoutIsRules
<1>3. <<>> \in Seq(Actions)
  OBVIOUS
<1>4. TypeOK
  BY <1>1, <1>2, <1>3, WanPolicyAssumption DEF TypeOK, Idle
<1>5. PhaseInv /\ AloneInv
  BY <1>1 DEF PhaseInv, AloneInv, Alone, Idle
<1> QED
  BY <1>4, <1>5 DEF IInv

\* A plan starts with the chains as they are, and asks for one copy each.
LEMMA PlanInv == IInv /\ Plan => IInv'
<1> SUFFICES ASSUME IInv, Plan PROVE IInv'
  OBVIOUS
<1>1. /\ TypeOK /\ IsRules(chains) /\ chains' = chains
      /\ hist' = [hist EXCEPT !.touched = FALSE, !.before = chains, !.stuck = FALSE]
      /\ run' = IF Validate THEN [Idle EXCEPT !.pc = "act", !.todo = Missing \o Spare]
                ELSE [Idle EXCEPT !.outcome = "refused"]
  BY DEF IInv, Plan, TypeOK
<1>2. /\ Missing \o Spare \in Seq(Actions)
      /\ ToSet(Missing \o Spare) \subseteq {Asked(c) : c \in Owned}
      /\ \A c \in Owned : /\ Copies(c) \in Nat
                          /\ Count(Missing \o Spare, Asked(c)) = IF Copies(c) = 0 THEN 1 ELSE Copies(c) - 1
  BY <1>1, PlanFacts
<1>3. <<>> \in Seq(Actions)
  OBVIOUS
<1>4. hist' \in [edits : 0 .. MaxEdits, touched : BOOLEAN, before : {hist'.before}, faults : 0 .. MaxFaults, stuck : BOOLEAN]
  BY <1>1 DEF TypeOK
<1>5. hist'.before = chains /\ hist'.touched = FALSE
  BY <1>1 DEF TypeOK
<1>6. CASE ~Validate
  <2>1. run' = [Idle EXCEPT !.outcome = "refused"]
    BY <1>1, <1>6
  <2>2. run'.pc = "idle" /\ run'.rolling = FALSE
    BY <2>1 DEF Idle
  <2>3. TypeOK'
    BY <1>1, <1>3, <1>4, <1>5, <2>1 DEF TypeOK, Idle
  <2> QED
    BY <2>2, <2>3 DEF IInv, PhaseInv, AloneInv, Alone
<1>7. CASE Validate
  <2>1. run' = [Idle EXCEPT !.pc = "act", !.todo = Missing \o Spare]
    BY <1>1, <1>7
  <2>2. /\ run'.pc = "act" /\ run'.rolling = FALSE /\ run'.outcome = "none"
        /\ run'.todo = Missing \o Spare /\ run'.undo = <<>>
    BY <2>1 DEF Idle
  <2>3. TypeOK'
    BY <1>1, <1>2, <1>3, <1>4, <1>5, <2>1 DEF TypeOK, Idle
  <2>4. \A c : Seen(c)' = Copies(c) /\ Copies(c)' = Copies(c) /\ Wanted(c)' = Asked(c)
    BY <1>1, <1>5 DEF Seen, Copies, Wanted, Asked
  <2>5. ASSUME NEW c \in Owned PROVE Kept(c)' /\ Behind(c)' /\ Ahead(c)'
    <3>1. Kept(c)'
      BY <1>1, <1>2, <1>5, <2>4 DEF Kept, Alike
    <3>2. Behind(c)'
      BY <2>2, <2>4, CountNone DEF Behind
    <3>3. Ahead(c)'
      BY <1>2, <2>2, <2>4 DEF Ahead
    <3> QED
      BY <3>1, <3>2, <3>3
  <2>6. ToSet(run.undo)' = {}
    BY <2>2 DEF ToSet
  <2>7. Validate'
    BY <1>1, <1>7 DEF Validate
  <2>8. AloneInv'
    BY <1>1, <1>2, <1>5, <2>2, <2>4, <2>5, <2>6, <2>7 DEF AloneInv
  <2> QED
    BY <2>2, <2>3, <2>8 DEF IInv, PhaseInv
<1> QED
  BY <1>6, <1>7

\* The inverse of the next action is remembered.
LEMMA PushFacts ==
    ASSUME TypeOK, run.todo # <<>>
    PROVE  LET x == Reverted(Head(run.todo))
               u == <<x>> \o run.undo
           IN  /\ Head(run.todo) \in Actions /\ Tail(run.todo) \in Seq(Actions) /\ u \in Seq(Actions)
               /\ ToSet(u) = {x} \cup ToSet(run.undo)
               /\ \A a : Count(u, a) = Count(run.undo, a) + IF x = a THEN 1 ELSE 0
<1> DEFINE x == Reverted(Head(run.todo))
           u == <<x>> \o run.undo
<1>1. run.todo \in Seq(Actions) /\ run.undo \in Seq(Actions)
  BY TypeFacts
<1>2. Head(run.todo) \in Actions /\ Tail(run.todo) \in Seq(Actions)
  BY <1>1, HeadTailProperties
<1>3. x \in Actions
  BY <1>2, TypeFacts
<1> HIDE DEF x
<1>4. <<x>> \in Seq(Actions) /\ Len(<<x>>) = 1
  BY <1>3
<1>5. u \in Seq(Actions) /\ u # <<>> /\ Head(u) = x /\ Tail(u) = run.undo
  BY <1>1, <1>3, ConsFacts
<1> HIDE DEF u
<1>6. ToSet(u) = {x} \cup ToSet(run.undo) /\ \A a : Count(u, a) = Count(run.undo, a) + IF x = a THEN 1 ELSE 0
  BY <1>5, HeadAndTail
<1> QED
  BY <1>2, <1>5, <1>6 DEF x, u

\* The next action works, brings its chain nearer to one copy, and has its inverse.
LEMMA ApplyInv == IInv /\ Apply => IInv'
<1> SUFFICES ASSUME IInv, Apply PROVE IInv'
  OBVIOUS
<1> DEFINE a == Head(run.todo)
<1>1. /\ TypeOK /\ PhaseInv /\ AloneInv /\ run.pc = "act" /\ run.rolling = FALSE /\ run.todo # <<>> /\ hist' = hist
      /\ IF Works(a) THEN Done(a) /\ run' = Remembered ELSE run' = Raised /\ chains' = chains
  BY DEF IInv, Apply, TypeOK
<1>2. /\ a \in Actions /\ Tail(run.todo) \in Seq(Actions) /\ <<Reverted(a)>> \o run.undo \in Seq(Actions)
      /\ ToSet(<<Reverted(a)>> \o run.undo) = {Reverted(a)} \cup ToSet(run.undo)
      /\ \A y : Count(<<Reverted(a)>> \o run.undo, y) = Count(run.undo, y) + IF Reverted(a) = y THEN 1 ELSE 0
  BY <1>1, PushFacts
<1>3. Remembered = [run EXCEPT !.undo = <<Reverted(a)>> \o run.undo, !.todo = Tail(run.todo)]
  BY DEF Remembered
<1>4. Raised = [run EXCEPT !.rolling = TRUE, !.undo = <<Reverted(a)>> \o run.undo]
  BY <1>1 DEF Raised
<1>5. IsRules(chains')
  BY <1>1, <1>2, DoneFacts, TypeFacts
<1>6. CASE ~Alone
  <2>1. hist.touched
    BY <1>1, <1>6 DEF Alone
  <2>2. TypeOK'
    BY <1>1, <1>2, <1>3, <1>4, <1>5, <2>1 DEF TypeOK
  <2>3. PhaseInv'
    BY <1>1, <1>3, <1>4 DEF PhaseInv, TypeOK
  <2> QED
    BY <1>1, <2>1, <2>2, <2>3 DEF IInv, AloneInv, Alone
<1>7. CASE Alone
  <2>1. /\ ToSet(run.todo) \subseteq {Wanted(c) : c \in Owned}
        /\ ToSet(run.undo) \subseteq {Reverted(Wanted(c)) : c \in Owned}
        /\ \A c \in Owned : Ahead(c) /\ Behind(c)
    BY <1>1, <1>7 DEF AloneInv
  <2>2. /\ ToSet(run.todo) = {a} \cup ToSet(Tail(run.todo))
        /\ \A y : Count(run.todo, y) = Count(Tail(run.todo), y) + IF a = y THEN 1 ELSE 0
    BY <1>1, HeadAndTail, TypeFacts
  <2>3. PICK c \in Owned : a = Wanted(c)
    BY <2>1, <2>2
  <2>4. a.chain = c /\ a.cmd = (IF Seen(c) = 0 THEN Adding(c) ELSE "delete") /\ Adding(c) # "delete"
    BY <2>3, CommandFacts
  <2>5. /\ Copies(c) \in Nat /\ Seen(c) \in Nat
        /\ \A y : Count(Tail(run.todo), y) \in Nat /\ Count(run.undo, y) \in Nat
    BY <1>1, <1>2, TypeFacts, CountType
  <2>6. IF Seen(c) = 0 THEN Copies(c) = 0 ELSE Copies(c) > 1
    BY <2>1, <2>2, <2>3, <2>5 DEF Ahead
  <2>7. Works(a)
    BY <2>4, <2>5, <2>6 DEF Works
  <2>8. Done(a) /\ run' = Remembered
    BY <1>1, <2>7
  <2>9. /\ Validate' /\ \A d \in DOMAIN GRAPH : chains'[d] = hist'.before[d]
        /\ \A d \in Owned : Kept(d)' /\ (d # c => Copies(d)' = Copies(d))
        /\ Copies(c)' = IF a.cmd = "delete" THEN Copies(c) - 1 ELSE Copies(c) + 1
    BY <1>1, <1>2, <1>7, <2>4, <2>6, <2>7, <2>8, Commanded
  <2>10. /\ run'.pc = "act" /\ run'.rolling = FALSE /\ run'.outcome = run.outcome
         /\ run'.todo = Tail(run.todo) /\ run'.undo = <<Reverted(a)>> \o run.undo
    BY <1>1, <1>3, <2>8 DEF TypeOK
  <2>11. \A d : Seen(d)' = Seen(d) /\ Wanted(d)' = Wanted(d)
    BY <1>1 DEF Seen, Wanted
  <2>12. ASSUME NEW d \in Owned PROVE Ahead(d)' /\ Behind(d)'
    <3>1. /\ Copies(d) \in Nat /\ Seen(d) \in Nat /\ Count(Tail(run.todo), Wanted(d)) \in Nat
          /\ Count(run.undo, Act(d, "delete")) \in Nat
      BY <1>1, <2>5, TypeFacts
    <3>2. CASE d # c
      <4>1. a # Wanted(d)
        BY <2>4, <3>2, CommandFacts
      <4>2. Ahead(d)'
        BY <2>1, <2>2, <2>9, <2>10, <2>11, <3>1, <3>2, <4>1 DEF Ahead
      <4>3. Behind(d)'
        BY <1>1, <1>2, <2>1, <2>9, <2>10, <2>11, <3>1, <3>2 DEF Behind
      <4> QED
        BY <4>2, <4>3
    <3>3. CASE d = c
      <4>1. Ahead(d)'
        BY <2>1, <2>2, <2>3, <2>4, <2>9, <2>10, <2>11, <3>1, <3>3 DEF Ahead
      <4>2. Seen(c) = 0 => Reverted(a) = Act(c, "delete")
        BY <2>4 DEF Reverted
      <4>3. Behind(d)'
        BY <1>1, <1>2, <2>1, <2>4, <2>9, <2>10, <2>11, <3>1, <3>3, <4>2 DEF Behind
      <4> QED
        BY <4>1, <4>3
    <3> QED
      BY <3>2, <3>3
  <2>13. /\ ToSet(run.todo)' \subseteq {Wanted(d)' : d \in Owned}
         /\ ToSet(run.undo)' \subseteq {Reverted(Wanted(d)') : d \in Owned}
    <3>1. ToSet(run.todo)' = ToSet(Tail(run.todo)) /\ ToSet(run.undo)' = ToSet(<<Reverted(a)>> \o run.undo)
      BY <2>10
    <3> QED
      BY <1>2, <2>1, <2>2, <2>3, <2>11, <3>1
  <2>14. TypeOK'
    BY <1>1, <1>2, <1>3, <1>5, <2>8 DEF TypeOK
  <2>15. AloneInv'
    BY <2>9, <2>12, <2>13 DEF AloneInv
  <2>16. PhaseInv'
    BY <1>1, <2>10 DEF PhaseInv
  <2> QED
    BY <2>14, <2>15, <2>16 DEF IInv
<1> QED
  BY <1>6, <1>7

\* A transaction turns to its rollback with all that was remembered, and maybe
\* the inverse of an action that has not run.
LEMMA RaisedInv ==
    ASSUME IInv, run.pc = "act", run.rolling = FALSE, chains' = chains,
           run' \in {Raised, [run EXCEPT !.rolling = TRUE]},
           hist' \in [edits : 0 .. MaxEdits, touched : BOOLEAN, before : {hist'.before}, faults : 0 .. MaxFaults, stuck : BOOLEAN],
           hist'.before = hist.before, hist'.touched = hist.touched, hist'.stuck = hist.stuck,
           hist'.touched \/ hist'.faults > 0
    PROVE  IInv'
<1>1. TypeOK /\ PhaseInv /\ AloneInv
  BY DEF IInv
<1> DEFINE u == IF run.todo = <<>> \/ run' # Raised THEN run.undo
                 ELSE <<Reverted(Head(run.todo))>> \o run.undo
<1>2. run' = [run EXCEPT !.rolling = TRUE, !.undo = u]
  <2>1. CASE run' = Raised
    BY <2>1 DEF Raised
  <2>2. CASE run' # Raised
    BY <1>1, <2>2 DEF TypeOK
  <2> QED
    BY <2>1, <2>2
<1>3. /\ run'.pc = "act" /\ run'.rolling = TRUE /\ run'.outcome = run.outcome
      /\ run'.todo = run.todo /\ run'.undo = u
  BY <1>1, <1>2 DEF TypeOK
<1>4. u \in Seq(Actions) /\ \A y : Count(u, y) \in Nat /\ Count(run.undo, y) \in Nat /\ Count(u, y) >= Count(run.undo, y)
  <2>1. run.undo \in Seq(Actions) /\ \A y : Count(run.undo, y) \in Nat
    BY <1>1, TypeFacts
  <2>2. CASE run.todo = <<>> \/ run' # Raised
    BY <2>1, <2>2
  <2>3. CASE run.todo # <<>> /\ run' = Raised
    <3>1. u \in Seq(Actions) /\ \A y : Count(u, y) = Count(run.undo, y) + IF Reverted(Head(run.todo)) = y THEN 1 ELSE 0
      BY <1>1, <2>3, PushFacts
    <3> QED
      BY <2>1, <3>1
  <2> QED
    BY <2>2, <2>3
<1>5. ToSet(u) \subseteq ToSet(run.undo) \cup {Reverted(a) : a \in ToSet(run.todo)}
  <2>1. CASE run.todo = <<>> \/ run' # Raised
    BY <2>1
  <2>2. CASE run.todo # <<>> /\ run' = Raised
    <3>1. ToSet(u) = {Reverted(Head(run.todo))} \cup ToSet(run.undo)
      BY <1>1, <2>2, PushFacts
    <3>2. run.todo \in Seq(Actions) /\ run.todo # <<>>
      BY <1>1, <2>2, TypeFacts
    <3>3. Head(run.todo) \in ToSet(run.todo)
      BY <3>2, HeadAndTail
    <3> QED
      BY <3>1, <3>3
  <2> QED
    BY <2>1, <2>2
<1> HIDE DEF u
<1>6. TypeOK'
  BY <1>1, <1>2, <1>4 DEF TypeOK
<1>7. PhaseInv'
  BY <1>1, <1>3 DEF PhaseInv
<1>8. ASSUME Alone PROVE AloneInv'
  <2>1. /\ Validate /\ \A c \in DOMAIN GRAPH : chains[c] = hist.before[c]
        /\ ToSet(run.todo) \subseteq {Wanted(c) : c \in Owned}
        /\ ToSet(run.undo) \subseteq {Reverted(Wanted(c)) : c \in Owned}
        /\ \A c \in Owned : Kept(c) /\ Behind(c)
    BY <1>1, <1>8 DEF AloneInv
  <2>2. \A c : Seen(c)' = Seen(c) /\ Copies(c)' = Copies(c) /\ Wanted(c)' = Wanted(c)
    BY DEF Seen, Copies, Wanted
  <2>3. Validate' /\ \A c \in DOMAIN GRAPH : chains'[c] = hist'.before[c]
    BY <2>1 DEF Validate
  <2>4. ToSet(run.todo)' \subseteq {Wanted(c)' : c \in Owned}
    BY <1>3, <2>1, <2>2
  <2>5. ToSet(run.undo)' \subseteq {Reverted(Wanted(c)') : c \in Owned}
    BY <1>3, <1>5, <2>1, <2>2
  <2>6. ASSUME NEW c \in Owned PROVE Kept(c)' /\ Behind(c)'
    <3>1. Kept(c)'
      BY <2>1, <2>2 DEF Kept, Alike
    <3>2. Copies(c) \in Nat
      BY <1>1, TypeFacts
    <3>3. Behind(c)'
      BY <1>3, <1>4, <2>1, <2>2, <3>2 DEF Behind
    <3> QED
      BY <3>1, <3>3
  <2> QED
    BY <1>3, <2>3, <2>4, <2>5, <2>6 DEF AloneInv
<1>9. ASSUME ~Alone PROVE AloneInv'
  BY <1>9 DEF Alone, AloneInv
<1> QED
  BY <1>6, <1>7, <1>8, <1>9 DEF IInv

\* Nothing is left to say of a transaction that has ended.
LEMMA IdleInv ==
    ASSUME TypeOK, chains' = chains, hist' = hist, run' \in {[Idle EXCEPT !.outcome = o] :
               o \in {"healthy", "rolled-back", "rollback-failed", run.outcome}}
    PROVE  IInv'
<1>1. PICK o \in {"none", "healthy", "refused", "rolled-back", "rollback-failed"} : run' = [Idle EXCEPT !.outcome = o]
  BY DEF TypeOK
<1>2. <<>> \in Seq(Actions)
  OBVIOUS
<1>3. TypeOK'
  BY <1>1, <1>2 DEF TypeOK, Idle
<1>4. PhaseInv' /\ AloneInv'
  BY <1>1 DEF PhaseInv, AloneInv, Alone, Idle
<1> QED
  BY <1>3, <1>4 DEF IInv

\* An undisturbed transaction that has done everything is healthy.
LEMMA HealthInv == IInv /\ HealthCheck => IInv'
<1> SUFFICES ASSUME IInv, HealthCheck PROVE IInv'
  OBVIOUS
<1>1. /\ TypeOK /\ AloneInv /\ run.pc = "act" /\ run.rolling = FALSE /\ run.todo = <<>> /\ chains' = chains /\ hist' = hist
      /\ run' = IF Validate /\ \A c \in Owned : Copies(c) > 0 THEN [Idle EXCEPT !.outcome = "healthy"] ELSE Raised
  BY DEF IInv, HealthCheck, TypeOK
<1>2. CASE Alone
  <2>1. Validate /\ \A c \in Owned : Ahead(c)
    BY <1>1, <1>2 DEF AloneInv
  <2>2. \A c \in Owned : Copies(c) > 0
    BY <1>1, <2>1, CountNone, TypeFacts DEF Ahead
  <2> QED
    BY <1>1, <2>1, <2>2, IdleInv
<1>3. CASE ~Alone
  <2>1. hist.touched
    BY <1>1, <1>3 DEF Alone
  <2>2. CASE run' = Raised
    BY <1>1, <2>1, <2>2, RaisedInv DEF TypeOK
  <2>3. CASE run' # Raised
    BY <1>1, <2>3, IdleInv
  <2> QED
    BY <2>2, <2>3
<1> QED
  BY <1>2, <1>3

\* The end of a rollback.
LEMMA RolledBackInv == IInv /\ RolledBack => IInv'
<1> SUFFICES ASSUME IInv, RolledBack PROVE IInv'
  OBVIOUS
<1>1. /\ TypeOK /\ chains' = chains /\ hist' = hist
      /\ run' = [Idle EXCEPT !.outcome = IF run.outcome = "none" THEN "rolled-back" ELSE run.outcome]
  BY DEF IInv, RolledBack
<1>2. run' \in {[Idle EXCEPT !.outcome = o] : o \in {"healthy", "rolled-back", "rollback-failed", run.outcome}}
  BY <1>1
<1> QED
  BY <1>1, <1>2, IdleInv

\* An interruption, with which a rollback begins.
LEMMA InterruptedInv == IInv /\ Interrupted => IInv'
<1> SUFFICES ASSUME IInv, Interrupted PROVE IInv'
  OBVIOUS
<1>1. /\ TypeOK /\ run.pc = "act" /\ run.rolling = FALSE /\ chains' = chains
      /\ run' \in {Raised, [run EXCEPT !.rolling = TRUE]} /\ hist.faults < MaxFaults /\ hist' = [hist EXCEPT !.faults = @ + 1]
  BY DEF IInv, Interrupted, TypeOK
<1>2. /\ hist'.before = hist.before /\ hist'.touched = hist.touched /\ hist'.faults > 0
      /\ hist'.stuck = hist.stuck
      /\ hist' \in [edits : 0 .. MaxEdits, touched : BOOLEAN, before : {hist'.before}, faults : 0 .. MaxFaults, stuck : BOOLEAN]
  BY <1>1, WanPolicyAssumption DEF TypeOK
<1> QED
  BY <1>1, <1>2, RaisedInv

\* An inverse takes back one copy added, or puts one back, or finds nothing to do;
\* or it fails and leaves its chain as it is.
LEMMA InverseInv ==
    ASSUME IInv, run.rolling, run.undo # <<>>, NEW o \in {run.outcome, "rollback-failed"},
           run' = [run EXCEPT !.undo = Tail(run.undo), !.outcome = o],
           \/ Works(Head(run.undo)) /\ Done(Head(run.undo))
           \/ chains' = chains /\ (Works(Head(run.undo)) => hist'.stuck),
           hist' \in [edits : 0 .. MaxEdits, touched : BOOLEAN, before : {hist'.before}, faults : 0 .. MaxFaults,
                     stuck : BOOLEAN],
           hist'.before = hist.before, hist'.touched = hist.touched, hist.stuck => hist'.stuck,
           hist'.touched \/ hist'.faults > 0
    PROVE  IInv'
<1> DEFINE a == Head(run.undo)
           u == Tail(run.undo)
<1>1. /\ TypeOK /\ PhaseInv /\ AloneInv /\ run.rolling = TRUE /\ run.pc = "act" /\ run.undo # <<>>
      /\ \/ Works(a) /\ Done(a)
         \/ chains' = chains /\ (Works(a) => hist'.stuck)
      /\ run' = [run EXCEPT !.undo = u, !.outcome = o]
  BY DEF IInv, TypeOK, PhaseInv
<1>2. /\ a \in Actions /\ u \in Seq(Actions) /\ ToSet(run.undo) = {a} \cup ToSet(u)
      /\ \A y : Count(run.undo, y) = Count(u, y) + IF a = y THEN 1 ELSE 0
  <2>1. run.undo \in Seq(Actions) /\ run.undo # <<>>
    BY <1>1, TypeFacts
  <2> QED
    BY <2>1, HeadAndTail
<1>3. /\ run'.pc = "act" /\ run'.rolling = TRUE /\ run'.todo = run.todo /\ run'.undo = u
      /\ run'.outcome \in {run.outcome, "rollback-failed"}
  BY <1>1 DEF TypeOK
<1>4. IsRules(chains')
  BY <1>1, <1>2, DoneFacts, TypeFacts
<1>5. TypeOK'
  <2>1. run.outcome \in {"none", "rollback-failed"}
    BY <1>1 DEF PhaseInv
  <2>2. run' \in [pc : {"idle", "act"}, todo : Seq(Actions), undo : Seq(Actions), rolling : BOOLEAN,
                  outcome : {"none", "healthy", "refused", "rolled-back", "rollback-failed"}]
    BY <1>1, <1>2, <2>1 DEF TypeOK
  <2> QED
    BY <1>1, <1>4, <2>2 DEF TypeOK
<1>6. PhaseInv'
  BY <1>1, <1>3 DEF PhaseInv
<1>7. CASE ~Alone
  BY <1>1, <1>3, <1>5, <1>6, <1>7 DEF IInv, AloneInv, Alone
<1>8. CASE Alone
  <2>1. /\ Validate /\ \A c \in DOMAIN GRAPH : chains[c] = hist.before[c]
        /\ ToSet(run.todo) \subseteq {Wanted(c) : c \in Owned}
        /\ ToSet(run.undo) \subseteq {Reverted(Wanted(c)) : c \in Owned}
        /\ \A c \in Owned : Kept(c) /\ Behind(c)
    BY <1>1, <1>8 DEF AloneInv
  <2>2. PICK c \in Owned : a = Reverted(Wanted(c))
    BY <1>2, <2>1
  <2>3. a.chain = c /\ a.cmd = (IF Seen(c) = 0 THEN "delete" ELSE Adding(c)) /\ Adding(c) # "delete"
    BY <2>2, CommandFacts
  <2>4. \A d : Seen(d)' = Seen(d) /\ Wanted(d)' = Wanted(d)
    BY <1>1 DEF Seen, Wanted
  <2>5. \A d \in Owned : Copies(d) \in Nat /\ Seen(d) \in Nat /\ Count(u, Act(d, "delete")) \in Nat
    BY <1>1, <1>2, TypeFacts, CountType
  <2>6. /\ Validate' /\ \A d \in DOMAIN GRAPH : chains'[d] = hist'.before[d]
        /\ \A d \in Owned : Kept(d)' /\ (d # c => Copies(d)' = Copies(d))
        /\ \/ Seen(c) = 0 => Copies(c)' = Copies(c) - 1
           \/ Copies(c)' = Copies(c) /\ (hist'.stuck \/ Copies(c) = 0)
    <3>1. CASE Works(a) /\ Done(a)
      BY <1>1, <1>2, <1>8, <2>3, <3>1, Commanded
    <3>2. CASE chains' = chains /\ (Works(a) => hist'.stuck)
      <4>1. ~Works(a) => Copies(c) = 0
        BY <2>3, <2>5 DEF Works
      <4>2. \A d \in Owned : Kept(d)' /\ Copies(d)' = Copies(d)
        BY <2>1, <3>2 DEF Kept, Copies, Seen, Alike, Added
      <4> QED
        BY <2>1, <3>2, <4>1, <4>2 DEF Validate
    <3> QED
      BY <1>1, <3>1, <3>2
  <2>7. ASSUME NEW d \in Owned, Seen(d) = 0, ~hist'.stuck PROVE Copies(d)' <= Count(u, Act(d, "delete"))
    <3>1. Copies(d) <= Count(run.undo, Act(d, "delete"))
      BY <2>1, <2>7 DEF Behind
    <3>2. CASE d # c
      <4>1. a # Act(d, "delete")
        BY <2>3, <3>2 DEF Act
      <4> QED
        BY <1>2, <2>5, <2>6, <3>1, <3>2, <4>1
    <3>3. CASE d = c
      <4>1. a = Act(c, "delete")
        BY <1>2, <2>3, <2>7, <3>3 DEF Act, Actions
      <4> QED
        BY <1>2, <2>5, <2>6, <2>7, <3>1, <3>3, <4>1
    <3> QED
      BY <3>2, <3>3
  <2>8. \A d \in Owned : Behind(d)'
    BY <1>3, <2>4, <2>7 DEF Behind
  <2>9. /\ ToSet(run.todo)' \subseteq {Wanted(d)' : d \in Owned}
        /\ ToSet(run.undo)' \subseteq {Reverted(Wanted(d)') : d \in Owned}
    BY <1>2, <1>3, <2>1, <2>4
  <2>10. AloneInv'
    BY <1>3, <2>6, <2>8, <2>9 DEF AloneInv
  <2> QED
    BY <1>5, <1>6, <2>10 DEF IInv
<1> QED
  BY <1>7, <1>8

\* The next inverse runs.
LEMMA UndoInv == IInv /\ Undo => IInv'
<1> SUFFICES ASSUME IInv, Undo PROVE IInv'
  OBVIOUS
<1> DEFINE a == Head(run.undo)
           o == IF Works(a) THEN run.outcome ELSE "rollback-failed"
<1>1. /\ run.rolling /\ run.undo # <<>> /\ hist' = hist
      /\ IF Works(a) THEN Done(a) ELSE chains' = chains
      /\ run' = [run EXCEPT !.undo = Tail(run.undo), !.outcome = o]
  BY DEF Undo
<1>2. /\ hist \in [edits : 0 .. MaxEdits, touched : BOOLEAN, before : {hist.before}, faults : 0 .. MaxFaults,
                    stuck : BOOLEAN]
      /\ hist.touched \/ hist.faults > 0
  BY <1>1 DEF IInv, TypeOK
<1> QED
  BY <1>1, <1>2, InverseInv

\* The next inverse fails, with its effect or without.
LEMMA UndoFailsInv == IInv /\ UndoFails => IInv'
<1> SUFFICES ASSUME IInv, UndoFails PROVE IInv'
  OBVIOUS
<1>1. /\ run.rolling /\ run.undo # <<>> /\ hist.faults < MaxFaults
      /\ run' = [run EXCEPT !.undo = Tail(run.undo), !.outcome = "rollback-failed"]
      /\ \/ Works(Head(run.undo)) /\ Done(Head(run.undo)) /\ hist' = [hist EXCEPT !.faults = @ + 1]
         \/ chains' = chains /\ hist' = [hist EXCEPT !.faults = @ + 1, !.stuck = TRUE]
  BY DEF UndoFails
<1>2. /\ hist \in [edits : 0 .. MaxEdits, touched : BOOLEAN, before : {hist.before}, faults : 0 .. MaxFaults,
                    stuck : BOOLEAN]
      /\ MaxFaults \in Nat
  BY WanPolicyAssumption DEF IInv, TypeOK
<1>3. \E b \in BOOLEAN : hist' = [edits |-> hist.edits, touched |-> hist.touched, before |-> hist.before,
                                faults |-> hist.faults + 1, stuck |-> b]
  BY <1>1, <1>2
<1>4. hist.faults + 1 \in 0 .. MaxFaults /\ hist.faults + 1 > 0
  BY <1>1, <1>2
<1>5. /\ hist' \in [edits : 0 .. MaxEdits, touched : BOOLEAN, before : {hist'.before}, faults : 0 .. MaxFaults,
                     stuck : BOOLEAN]
      /\ hist'.before = hist.before /\ hist'.touched = hist.touched /\ hist'.faults > 0
  BY <1>2, <1>3, <1>4
<1>6. CASE Works(Head(run.undo)) /\ Done(Head(run.undo)) /\ hist' = [hist EXCEPT !.faults = @ + 1]
  <2>1. hist'.stuck = hist.stuck
    BY <1>2, <1>6
  <2> QED
    BY <1>1, <1>5, <1>6, <2>1, InverseInv
<1>7. CASE chains' = chains /\ hist' = [hist EXCEPT !.faults = @ + 1, !.stuck = TRUE]
  <2>1. hist'.stuck
    BY <1>2, <1>7
  <2> QED
    BY <1>1, <1>5, <1>7, <2>1, InverseInv
<1> QED
  BY <1>1, <1>6, <1>7

\* Chains that somebody edits stay layouts, and the transaction is not alone.
LEMMA EditInv == IInv /\ Edit => IInv'
<1> SUFFICES ASSUME IInv, Edit PROVE IInv'
  OBVIOUS
<1>1. /\ TypeOK /\ PhaseInv /\ run' = run /\ hist.edits < MaxEdits
      /\ hist' = [hist EXCEPT !.edits = @ + 1, !.touched = TRUE]
  BY DEF IInv, Edit
<1>2. IsRules(chains')
  <2>1. CASE chains' = Layout
    BY <2>1, LayoutIsRules
  <2>2. ASSUME NEW c \in Chains, NEW row \in Foreign(c), NEW new \in {<<row>> \o chains[c], Append(chains[c], row)},
               chains' = [chains EXCEPT ![c] = new]
        PROVE  IsRules(chains')
    <3>1. row \in Rows(c) /\ chains[c] \in Seq(Rows(c))
      BY <1>1, RowsFacts, TypeFacts DEF Rows
    <3>2. new \in Seq(Rows(c))
      <4> DEFINE R == Rows(c)
                 s == chains[c]
      <4>1. row \in R /\ s \in Seq(R)
        BY <3>1
      <4> HIDE DEF R, s
      <4>2. <<row>> \in Seq(R)
        BY <4>1
      <4>3. <<row>> \o s \in Seq(R) /\ Append(s, row) \in Seq(R)
        BY <4>1, <4>2, ConcatProperties, AppendProperties
      <4> QED
        BY <2>2, <4>3 DEF R, s
    <3>3. Seq(Rows(c)) \subseteq Seq(UNION {Rows(d) : d \in Chains})
      BY SeqMonotonic
    <3> QED
      BY <1>1, <2>2, <3>2, <3>3, TypeFacts DEF IsRules
  <2>3. ASSUME NEW c \in Owned, Copies(c) > 0, Done(Act(c, "delete")) PROVE IsRules(chains')
    <3>1. Act(c, "delete") \in Actions /\ Works(Act(c, "delete"))
      BY <2>3 DEF Act, Actions, Works
    <3> QED
      BY <1>1, <2>3, <3>1, DoneFacts, TypeFacts
  <2> QED
    BY <2>1, <2>2, <2>3 DEF Edit
<1>3. hist'.touched = TRUE /\ hist'.before = hist.before
  BY <1>1 DEF TypeOK
<1>4. TypeOK'
  <2>1. /\ hist.edits \in 0 .. MaxEdits /\ hist.faults \in 0 .. MaxFaults /\ MaxEdits \in Nat
        /\ hist.stuck \in BOOLEAN
    BY <1>1, WanPolicyAssumption DEF TypeOK
  <2>2. hist' = [edits |-> hist.edits + 1, touched |-> TRUE, before |-> hist.before, faults |-> hist.faults,
               stuck |-> hist.stuck]
    BY <1>1 DEF TypeOK
  <2>3. hist.edits + 1 \in 0 .. MaxEdits
    BY <1>1, <2>1
  <2>4. hist' \in [edits : 0 .. MaxEdits, touched : BOOLEAN, before : {hist'.before}, faults : 0 .. MaxFaults, stuck : BOOLEAN]
    BY <2>1, <2>2, <2>3
  <2> QED
    BY <1>1, <1>2, <1>3, <2>4 DEF TypeOK
<1>5. PhaseInv' /\ AloneInv'
  BY <1>1, <1>3 DEF PhaseInv, AloneInv, Alone
<1> QED
  BY <1>4, <1>5 DEF IInv

\* Every step keeps the invariant.
LEMMA NextInv == IInv /\ [Next]_vars => IInv'
<1> SUFFICES ASSUME IInv, [Next]_vars PROVE IInv'
  OBVIOUS
<1>1. CASE UNCHANGED vars
  <2>1. chains' = chains /\ run' = run /\ hist' = hist /\ TypeOK /\ PhaseInv /\ AloneInv
    BY <1>1 DEF vars, IInv
  <2>2. TypeOK' /\ PhaseInv'
    BY <2>1 DEF TypeOK, PhaseInv
  <2>3. /\ Alone' <=> Alone
        /\ Validate' <=> Validate
        /\ \A c : Seen(c)' = Seen(c) /\ Copies(c)' = Copies(c) /\ Wanted(c)' = Wanted(c)
    BY <2>1 DEF Alone, Validate, Seen, Copies, Wanted
  <2>4. \A c : (Kept(c)' <=> Kept(c)) /\ (Behind(c)' <=> Behind(c)) /\ (Ahead(c)' <=> Ahead(c))
    BY <2>1, <2>3 DEF Kept, Behind, Ahead, Alike
  <2>5. AloneInv'
    BY <2>1, <2>3, <2>4 DEF AloneInv
  <2> QED
    BY <2>2, <2>5 DEF IInv
<1> QED
  BY <1>1, PlanInv, ApplyInv, HealthInv, UndoInv, UndoFailsInv, RolledBackInv, InterruptedInv,
       EditInv DEF Next, Step

(* The path of every packet ***********************************************)

\* What a rule of the project's chains jumps to is none of the chains.
LEMMA OwnedEndHere == ASSUME NEW c \in Owned, NEW row \in Rows(c) PROVE row.to \notin Chains
<1>1. c \in Chains /\ c \notin DOMAIN GRAPH
  BY ChainNames
<1>2. CASE c = DNS_CHAIN
  <2>1. Layout[c] = <<Row("native", "RETURN"), Row("any", "ACCEPT")>>
    BY <1>1, <1>2 DEF Layout
  <2>2. \A i \in DOMAIN Layout[c] : Layout[c][i] \in {Row("native", "RETURN"), Row("any", "ACCEPT")}
    BY <2>1
  <2>3. Foreign(c) = {Row("any", "ACCEPT"), Row("native", "RETURN"), Row("pattern", "RETURN"), Rule(c)}
    BY <1>1, <1>2 DEF Foreign
  <2>4. row.to \in {"RETURN", "ACCEPT"}
    BY <1>2, <2>2, <2>3 DEF Rows, Row, Rule
  <2> QED
    BY <2>4, ChainNames DEF Targets
<1>3. CASE c # DNS_CHAIN
  <2>1. c \in DOMAIN DISPATCH
    BY <1>3, ChainNames
  <2>2. Layout[c] = <<Row("native", DISPATCH[c]), Row("lan", "LAN")>>
    BY <1>1, <1>3 DEF Layout
  <2>3. \A i \in DOMAIN Layout[c] : Layout[c][i] \in {Row("native", DISPATCH[c]), Row("lan", "LAN")}
    BY <2>2
  <2>4. Foreign(c) = {Row("any", "RETURN"), Row("pattern", "LAN"), Row("lan", DISPATCH[c]),
                      Row("native", "LAN"), Row("tunnel", DISPATCH[c]), Rule(c)}
    BY <1>1, <1>3 DEF Foreign
  <2>5. row.to \in {"RETURN", "LAN", DISPATCH[c]}
    BY <1>3, <2>3, <2>4 DEF Rows, Row, Rule
  <2> QED
    BY <2>1, <2>5, ChainNames DEF Targets
<1> QED
  BY <1>2, <1>3

\* The path through a chain of the project's depends on no other chain.
LEMMA OwnedEnd ==
    ASSUME NEW cs, IsRules(cs), NEW c \in Owned, NEW via, NEW deeper
    PROVE  Through(cs[c], via, deeper) = Through(cs[c], via, Nowhere)
<1> DEFINE rows == cs[c]
<1>1. Len(rows) \in Nat /\ DOMAIN rows = 1 .. Len(rows) /\ rows \in Seq(Rows(c))
  BY RowsFacts, ChainNames
<1>2. \A i \in DOMAIN rows : rows[i].to \notin Chains
  BY <1>1, ElementOfSeq, OwnedEndHere
<1> HIDE DEF rows
<1>3. \A i \in DOMAIN rows : Meets(rows[i], deeper) = Meets(rows[i], Nowhere)
  BY <1>2 DEF Meets
<1>4. \A i \in DOMAIN rows : Leaves(rows[i], deeper) <=> Leaves(rows[i], Nowhere)
  BY <1>3 DEF Leaves
<1>5. \A i \in DOMAIN rows : \A j \in 1 .. i - 1 : j \in DOMAIN rows
  BY <1>1
<1>6. Reached(rows, via, deeper) = Reached(rows, via, Nowhere)
  BY <1>4, <1>5 DEF Reached
<1>7. Reached(rows, via, Nowhere) \subseteq DOMAIN rows
  BY DEF Reached
<1>8. ASSUME NEW m PROVE m \in Through(rows, via, deeper) <=> m \in Through(rows, via, Nowhere)
  BY <1>3, <1>6, <1>7, ThroughElements
<1>9. Through(rows, via, deeper) = Through(rows, via, Nowhere)
  BY <1>8
<1> QED
  BY <1>9 DEF rows

\* Chains that are alike one by one are alike as a whole.
LEMMA SamePath ==
    ASSUME NEW s, IsRules(s), NEW t, IsRules(t), \A c \in DOMAIN GRAPH : s[c] = t[c],
           \A c \in Owned : Alike(s[c], t[c]), NEW p \in Packets
    PROVE  Path(s, p) = Path(t, p)
<1>1. \A c : Via(c, p) \in Ifaces \cup {"none"}
  BY DEF Via, Packets
<1>2. ASSUME NEW c \in Chains, NEW deeper PROVE Through(s[c], Via(c, p), deeper) = Through(t[c], Via(c, p), deeper)
  <2>1. CASE c \in DOMAIN GRAPH
    BY <2>1
  <2>2. CASE c \in Owned
    <3>1. Through(s[c], Via(c, p), Nowhere) = Through(t[c], Via(c, p), Nowhere)
      BY <1>1, <2>2 DEF Alike
    <3> QED
      BY <2>2, <3>1, OwnedEnd
  <2> QED
    BY <2>1, <2>2, ChainNames
<1>3. \A deeper : Level(s, p, deeper) = Level(t, p, deeper)
  BY <1>2 DEF Level
<1> QED
  BY <1>3 DEF Path

\* When everything remembered is undone, every chain is as good as it was.
LEMMA UndoneIsAlike ==
    ASSUME IInv, run.rolling, run.undo = <<>>, ~hist.touched
    PROVE  /\ Validate
           /\ ~hist.stuck => \A p \in Packets : Path(chains, p) = Path(hist.before, p)
<1>1. /\ TypeOK /\ IsRules(chains) /\ IsRules(hist.before)
      /\ Validate /\ \A c \in DOMAIN GRAPH : chains[c] = hist.before[c]
      /\ \A c \in Owned : Kept(c) /\ Behind(c)
  BY TypeFacts DEF IInv, PhaseInv, AloneInv, Alone
<1>2. ASSUME NEW c \in Owned, ~hist.stuck PROVE Alike(chains[c], hist.before[c])
  <2>1. CASE Seen(c) # 0
    BY <1>1, <2>1 DEF Kept
  <2>2. CASE Seen(c) = 0
    <3>1. Copies(c) \in Nat /\ Copies(c) <= 0
      BY <1>1, <1>2, <2>2, CountNone, TypeFacts DEF Behind
    <3>2. hist.before[c] \in Seq(Rows(c)) /\ Rule(c) \in Rows(c)
      BY <1>1, RowsFacts, RuleIsRow, ChainNames
    <3>3. Count(Added(c, hist.before[c]), Rule(c)) = Seen(c) + 1
      BY <3>2, AddedIsCopied, CopyCounts DEF Seen
    <3>4. chains[c] # Added(c, hist.before[c])
      BY <2>2, <3>1, <3>3 DEF Copies
    <3>5. chains[c] = hist.before[c]
      BY <1>1, <2>2, <3>4 DEF Kept
    <3> QED
      BY <3>5 DEF Alike
  <2> QED
    BY <2>1, <2>2
<1> QED
  BY <1>1, <1>2, SamePath

\* Whatever inverses failed, every chain leads the packets it led before where it
\* led them, but for those of the tunnel.
LEMMA OthersKeepPaths ==
    ASSUME IInv, Alone, NEW p \in Packets, "tunnel" \notin {p.in, p.out}
    PROVE  Path(chains, p) = Path(hist.before, p)
<1>1. /\ TypeOK /\ IsRules(chains) /\ IsRules(hist.before)
      /\ \A c \in DOMAIN GRAPH : chains[c] = hist.before[c]
      /\ \A c \in Owned : Kept(c)
  BY TypeFacts DEF IInv, AloneInv
<1>2. \A c : Via(c, p) \in Ifaces \cup {"none"} /\ Via(c, p) # "tunnel"
  BY DEF Via, Packets
<1>3. ASSUME NEW c \in Owned, NEW via \in Ifaces \cup {"none"}, via # "tunnel"
      PROVE  Through(chains[c], via, Nowhere) = Through(hist.before[c], via, Nowhere)
  <2>1. CASE Seen(c) # 0 \/ chains[c] = hist.before[c]
    BY <1>1, <1>3, <2>1 DEF Kept, Alike
  <2>2. CASE chains[c] = Added(c, hist.before[c])
    <3> DEFINE t == hist.before[c]
               s == Added(c, t)
               k == Place(c, t)
    <3>1. t \in Seq(Rows(c))
      BY <1>1, RowsFacts, ChainNames
    <3>2. CutAt(s, t, k) /\ s[k] = Rule(c)
      BY <3>1, AddedIsCopied DEF Copied
    <3>3. ~Matches(s[k], via)
      BY <1>3, <3>2, RuleFacts DEF Matches, Ifaces
    <3> HIDE DEF s, t, k
    <3>4. Through(s, via, Nowhere) = Through(t, via, Nowhere)
      BY <3>2, <3>3, Thin
    <3> QED
      BY <2>2, <3>4 DEF s, t
  <2> QED
    BY <1>1, <2>1, <2>2 DEF Kept
<1>4. ASSUME NEW c \in Chains, NEW deeper
      PROVE  Through(chains[c], Via(c, p), deeper) = Through(hist.before[c], Via(c, p), deeper)
  <2>1. CASE c \in DOMAIN GRAPH
    BY <1>1, <2>1
  <2>2. CASE c \in Owned
    <3>1. Through(chains[c], Via(c, p), Nowhere) = Through(hist.before[c], Via(c, p), Nowhere)
      BY <1>2, <1>3, <2>2
    <3> QED
      BY <1>1, <2>2, <3>1, OwnedEnd
  <2> QED
    BY <2>1, <2>2, ChainNames
<1>5. \A deeper : Level(chains, p, deeper) = Level(hist.before, p, deeper)
  BY <1>4 DEF Level
<1> QED
  BY <1>5 DEF Path

(* The theorems ***********************************************************)

\* The invariant holds for good.
LEMMA Invariance == Spec => []IInv
<1>1. Init => IInv
  BY InitInv
<1>2. IInv /\ [Next]_vars => IInv'
  BY NextInv
<1> QED
  BY <1>1, <1>2, PTL DEF Spec

\* The chains hold rules of their kinds only, the counters stay in their bounds,
\* and a transaction whose chains nobody edits and that nobody interrupts never
\* rolls back: no action of its plan fails, and its health check finds every
\* rule in an acceptable layout (wan_policy.py 28-32 and core.py 743-777).
THEOREM TypeCorrect == Spec => []TypeOK
<1>1. IInv => TypeOK
  BY DEF IInv
<1> QED
  BY <1>1, Invariance, PTL

\* A transaction that ends "healthy" leaves every packet of the tunnel on the
\* path of a packet of the native WAN, whatever others did to the chains before
\* or during the transaction: validate accepts no layout in which the rules mean
\* something else (wan_policy.py 57-93).
THEOREM HealthyMeansFiltered == Spec => HealthyIsFiltered
<1> DEFINE A == run.pc = "act" /\ run'.outcome = "healthy" => Filtered
<1>1. IInv /\ [Next]_vars => [A]_vars
  <2> SUFFICES ASSUME IInv, [Next]_vars, run.pc = "act", run'.outcome = "healthy"
               PROVE  Filtered
    OBVIOUS
  <2>1. TypeOK /\ IsRules(chains) /\ run.outcome \in {"none", "rollback-failed"}
    BY TypeFacts DEF IInv, PhaseInv
  <2>2. CASE HealthCheck
    <3>1. Raised.outcome = run.outcome
      BY <2>1 DEF TypeOK, Raised
    <3>2. Validate /\ \A c \in Owned : Copies(c) > 0
      BY <2>1, <2>2, <3>1 DEF HealthCheck
    <3> QED
      BY <2>1, <3>2, AcceptedIsFiltered
  <2>3. CASE Plan
    BY <2>3 DEF Plan
  <2>4. CASE Apply
    BY <2>1, <2>4 DEF Apply, Remembered, Raised, TypeOK
  <2>5. CASE Undo \/ UndoFails
    BY <2>1, <2>5 DEF Undo, UndoFails, TypeOK
  <2>6. CASE RolledBack
    BY <2>1, <2>6 DEF RolledBack, Idle
  <2>7. CASE Interrupted
    BY <2>1, <2>7 DEF Interrupted, Raised, TypeOK
  <2>8. CASE Edit \/ UNCHANGED vars
    BY <2>1, <2>8 DEF Edit, vars
  <2> QED
    BY <2>2, <2>3, <2>4, <2>5, <2>6, <2>7, <2>8 DEF Next, Step
<1> QED
  BY <1>1, Invariance, PTL DEF Spec, HealthyIsFiltered

\* A rollback that ends in chains nobody else has edited leaves the layout
\* acceptable and every packet on the path it had before the plan, wherever it was
\* interrupted and whether or not inverses found nothing to delete; inverses that
\* really fail may change the paths of packets of the tunnel, of no other packet
\* (core.py 760-777: each inverse and where it puts a copy back; core.py 869-876).
THEOREM RollbacksKeepPaths == Spec => RollbackKeepsPaths
<1> DEFINE A == run.rolling /\ run'.pc = "idle" /\ ~hist.touched =>
                   /\ Validate
                   /\ \A p \in Packets :
                         Path(chains, p) = Path(hist.before, p) \/ (hist.stuck /\ "tunnel" \in {p.in, p.out})
<1>1. IInv /\ [Next]_vars => [A]_vars
  <2> SUFFICES ASSUME IInv, [Next]_vars, run.rolling, run'.pc = "idle", ~hist.touched
               PROVE  /\ Validate
                      /\ \A p \in Packets :
                            Path(chains, p) = Path(hist.before, p) \/ (hist.stuck /\ "tunnel" \in {p.in, p.out})
    OBVIOUS
  <2>1. TypeOK /\ run.pc = "act"
    BY DEF IInv, PhaseInv
  <2>2. CASE RolledBack
    <3>1. run.undo = <<>> /\ Alone
      BY <2>1, <2>2 DEF RolledBack, Alone
    <3> QED
      BY <3>1, UndoneIsAlike, OthersKeepPaths
  <2>3. CASE Plan
    BY <2>1, <2>3 DEF Plan
  <2>4. CASE Apply \/ HealthCheck \/ Interrupted
    BY <2>4 DEF Apply, HealthCheck, Interrupted
  <2>5. CASE Undo \/ UndoFails
    BY <2>1, <2>5 DEF Undo, UndoFails, TypeOK
  <2>6. CASE Edit \/ UNCHANGED vars
    BY <2>1, <2>6 DEF Edit, vars
  <2> QED
    BY <2>2, <2>3, <2>4, <2>5, <2>6 DEF Next, Step
<1> QED
  BY <1>1, Invariance, PTL DEF Spec, RollbackKeepsPaths
=============================================================================
