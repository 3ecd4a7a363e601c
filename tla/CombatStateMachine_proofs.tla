----------------------- MODULE CombatStateMachine_proofs -----------------------
(***************************************************************************)
(* Lemmas about the rule engine for any rules and any number of targets:   *)
(* what an ORDER leaves of the rules, and which target the loop of         *)
(* update() finds.                                                         *)
(***************************************************************************)
EXTENDS CombatStateMachine, Subsequences_proofs

-----------------------------------------------------------------------------
(* The rules after an ORDER, name by name.                                   *)

\* The set of all rule maps.
RuleMaps == UNION {[S -> Rules] : S \in SUBSET RuleClasses}

LEMMA RuleMapsAreMaps == \A rules : rules \in RuleMaps <=> IsRuleMap(rules)
  BY DEF RuleMaps, IsRuleMap

LEMMA ConfiguredIsMap == ConfigRules \in RuleMaps
  BY RulesAssumption, RuleMapsAreMaps

\* The rules and the next priority.
Progress == [rules : RuleMaps, prio : Nat]

LEMMA RulesOfMap ==
    ASSUME NEW rules \in RuleMaps
    PROVE  /\ DOMAIN rules \subseteq RuleClasses
           /\ rules \in [DOMAIN rules -> Rules]
  BY DEF RuleMaps

LEMMA WithRuleIsMap ==
    ASSUME NEW rules \in RuleMaps, NEW c \in RuleClasses, NEW rule \in Rules
    PROVE  /\ WithRule(rules, c, rule) \in RuleMaps
           /\ DOMAIN WithRule(rules, c, rule) = DOMAIN rules \union {c}
           /\ \A d \in DOMAIN rules \union {c} :
                 WithRule(rules, c, rule)[d] = IF d = c THEN rule ELSE rules[d]
<1> DEFINE S == DOMAIN rules \union {c}
<1>1. S \in SUBSET RuleClasses
  BY RulesOfMap
<1>2. WithRule(rules, c, rule) \in [S -> Rules]
  BY RulesOfMap DEF WithRule
<1> QED
  BY <1>1, <1>2 DEF RuleMaps, WithRule

\* What one name does to a class's rule.
Reordered(before, after, name) ==
    /\ name \notin RuleClasses => after = before
    /\ name \in RuleClasses =>
         /\ after.prio = before.prio + 1
         /\ DOMAIN after.rules = DOMAIN before.rules \union {name}
         /\ after.rules[name].priority = before.prio
         /\ \A d \in DOMAIN before.rules :
               /\ after.rules[d].min = before.rules[d].min
               /\ after.rules[d].max = before.rules[d].max
               /\ d # name => after.rules[d] = before.rules[d]

LEMMA NameStep ==
    ASSUME NEW acc \in Progress, NEW name
    PROVE  NameNext(acc, name) \in Progress /\ Reordered(acc, NameNext(acc, name), name)
<1>1. CASE name \notin RuleClasses
  BY <1>1 DEF NameNext, Reordered
<1>2. CASE name \in RuleClasses
  <2> DEFINE old  == RuleOf(acc.rules, name)
             rule == [old EXCEPT !.priority = acc.prio]
             new  == WithRule(acc.rules, name, rule)
  <2>1. acc.rules \in RuleMaps /\ acc.prio \in Nat
    BY DEF Progress
  <2>2. old \in Rules /\ (name \in DOMAIN acc.rules => old = acc.rules[name])
    BY <2>1, RulesOfMap, RulesAssumption DEF RuleOf, Rules
  <2> HIDE DEF old
  <2>3. rule \in Rules /\ rule.priority = acc.prio /\ rule.min = old.min /\ rule.max = old.max
    BY <2>1, <2>2 DEF Rules
  <2> HIDE DEF rule
  <2>4. /\ new \in RuleMaps /\ DOMAIN new = DOMAIN acc.rules \union {name}
        /\ \A d \in DOMAIN acc.rules \union {name} :
              new[d] = IF d = name THEN rule ELSE acc.rules[d]
    <3>1. \A rules \in RuleMaps :
             /\ WithRule(rules, name, rule) \in RuleMaps
             /\ DOMAIN WithRule(rules, name, rule) = DOMAIN rules \union {name}
             /\ \A d \in DOMAIN rules \union {name} :
                   WithRule(rules, name, rule)[d] = IF d = name THEN rule ELSE rules[d]
      BY <1>2, <2>3, WithRuleIsMap, SMTT(30)
    <3> QED
      BY <2>1, <3>1, Zenon
  <2>5. NameNext(acc, name) = [rules |-> new, prio |-> acc.prio + 1]
    BY <1>2 DEF NameNext, new, rule, old
  <2> HIDE DEF new
  <2>6. NameNext(acc, name) \in Progress
    BY <2>1, <2>4, <2>5 DEF Progress
  <2>7. Reordered(acc, NameNext(acc, name), name)
    BY <1>2, <2>2, <2>3, <2>4, <2>5 DEF Reordered
  <2> QED
    BY <2>6, <2>7
<1> QED
  BY <1>1, <1>2

\* The function behind Ordered.
Orders(after, names) ==
    /\ after[0] = Configured
    /\ \A n \in 1..Len(names) : after[n] = NameNext(after[n - 1], names[n])

LEMMA OrderedOrders ==
    ASSUME NEW names \in Seq(STRING)
    PROVE  \E after \in [0..Len(names) -> Progress] :
               Orders(after, names) /\ Ordered(names) = after[Len(names)].rules
<1> DEFINE N == Len(names)
           step == [x \in Nat \X Progress |-> NameNext(x[2], names[x[1]])]
           IsAfter(f) == f = [n \in 0..N |-> IF n = 0 THEN Configured
                                ELSE NameNext(f[n - 1], names[n])]
           after == CHOOSE f : IsAfter(f)
<1>1. N \in Nat /\ Configured \in Progress
  BY ConfiguredIsMap DEF Configured, Progress
<1>2. step \in [Nat \X Progress -> Progress]
  <2> SUFFICES ASSUME NEW x \in Nat \X Progress
               PROVE  step[x] \in Progress
    BY Zenon
  <2> QED
    BY NameStep
<1>3. PICK g \in [0..N -> Progress] :
          g[0] = Configured /\ \A n \in 1..N : g[n] = step[<<n, g[n - 1]>>]
  <2>1. Solutions(Progress, N, Configured, step) # {}
    <3> HIDE DEF step, N, IsAfter, after
    <3> QED
      BY <1>1, <1>2, Recursion
  <2> QED
    BY <2>1 DEF Solutions
<1>4. ASSUME NEW n \in 1..N
      PROVE  g[n] = NameNext(g[n - 1], names[n])
  <2>1. n \in Nat /\ g[n - 1] \in Progress
    OBVIOUS
  <2> QED
    BY <1>3, <2>1
<1>5. IsAfter(g)
  <2>1. \A n \in 0..N : g[n] = IF n = 0 THEN Configured ELSE NameNext(g[n - 1], names[n])
    BY <1>3, <1>4
  <2> HIDE DEF N
  <2> QED
    BY <2>1, Zenon
<1>6. IsAfter(after)
  BY <1>5, Zenon
<1>7. Ordered(names) = after[N].rules
  BY Zenon DEF Ordered
<1> HIDE DEF after, step
<1>8. after[0] = Configured
  BY <1>6
<1>9. ASSUME NEW n \in 1..N
      PROVE  after[n] = NameNext(after[n - 1], names[n])
  <2>1. n \in 0..N /\ n # 0
    OBVIOUS
  <2> HIDE DEF N
  <2> QED
    BY <1>6, <2>1, Zenon
<1>10. \A n \in 0..N : after[n] \in Progress
  <2> DEFINE S == {n \in 0..N : after[n] \in Progress}
  <2>1. 0 \in S
    BY <1>1, <1>8
  <2>2. ASSUME NEW n \in 1..N, n - 1 \in S
        PROVE  n \in S
    BY <1>9, <2>2, NameStep
  <2> HIDE DEF S
  <2>3. \A n \in 0..N : n \in S
    BY <1>1, <2>1, <2>2, InductionTo
  <2> QED
    BY <2>3 DEF S
<1>11. after \in [0..N -> Progress]
  BY <1>6, <1>10
<1> QED
  BY <1>7, <1>8, <1>9, <1>11 DEF Orders

\* An ORDER leaves a rule map, with the ranges that were configured.
LEMMA OrderedIsMap ==
    ASSUME NEW names \in Seq(STRING)
    PROVE  Ordered(names) \in RuleMaps
<1>1. PICK after \in [0..Len(names) -> Progress] : Ordered(names) = after[Len(names)].rules
  BY OrderedOrders
<1>2. after[Len(names)] \in Progress
  OBVIOUS
<1> QED
  BY <1>1, <1>2 DEF Progress

LEMMA OrderedKeepsRanges ==
    ASSUME NEW names \in Seq(STRING), NEW c \in DOMAIN ConfigRules
    PROVE  /\ c \in DOMAIN Ordered(names)
           /\ Ordered(names)[c].min = ConfigRules[c].min
           /\ Ordered(names)[c].max = ConfigRules[c].max
<1>1. PICK after \in [0..Len(names) -> Progress] :
        Orders(after, names) /\ Ordered(names) = after[Len(names)].rules
  BY OrderedOrders
<1> DEFINE Same(acc) == /\ c \in DOMAIN acc.rules
                        /\ acc.rules[c].min = ConfigRules[c].min
                        /\ acc.rules[c].max = ConfigRules[c].max
           S == {n \in 0..Len(names) : Same(after[n])}
<1>2. Len(names) \in Nat
  OBVIOUS
<1>3. 0 \in S
  BY <1>1 DEF Orders, Configured
<1>4. ASSUME NEW n \in 1..Len(names), n - 1 \in S
      PROVE  n \in S
  <2>1. after[n - 1] \in Progress /\ n \in 0..Len(names) /\ Same(after[n - 1])
    BY <1>4
  <2>2. after[n] = NameNext(after[n - 1], names[n])
    BY <1>1 DEF Orders
  <2>3. Reordered(after[n - 1], after[n], names[n])
    BY <2>1, <2>2, NameStep
  <2>4. Same(after[n])
    BY <2>1, <2>3 DEF Reordered
  <2> QED
    BY <2>1, <2>4
<1> HIDE DEF S
<1>5. \A n \in 0..Len(names) : n \in S
  BY <1>2, <1>3, <1>4, InductionTo
<1> QED
  BY <1>1, <1>2, <1>5 DEF S

\* The classes named among the first n names have priorities that rise with the
\* place where they are named, all below the next one.
RiseTo(acc, names, n) ==
    /\ \A i \in 1..n : names[i] \in RuleClasses =>
          names[i] \in DOMAIN acc.rules /\ acc.rules[names[i]].priority < acc.prio
    /\ \A i, j \in 1..n : i < j /\ names[i] \in RuleClasses /\ names[j] \in RuleClasses =>
          acc.rules[names[i]].priority < acc.rules[names[j]].priority

LEMMA PrioritiesAreNumbers ==
    ASSUME NEW acc \in Progress, NEW c \in DOMAIN acc.rules
    PROVE  acc.rules[c].priority \in Int
<1>1. acc.rules \in RuleMaps
  BY DEF Progress
<1>2. acc.rules[c] \in Rules
  BY <1>1, RulesOfMap
<1> QED
  BY <1>2 DEF Rules

LEMMA RiseStep ==
    ASSUME NEW names \in Seq(STRING),
           \A i, j \in 1..Len(names) : names[i] = names[j] => i = j,
           NEW n \in 1..Len(names), NEW acc \in Progress, NEW new \in Progress,
           RiseTo(acc, names, n - 1), Reordered(acc, new, names[n])
    PROVE  RiseTo(new, names, n)
<1>1. \A i \in 1..n : i = n \/ i \in 1..(n - 1)
  OBVIOUS
<1>2. \A i \in 1..(n - 1) : names[i] # names[n]
  OBVIOUS
<1>3. acc.prio \in Nat /\ new.prio \in Nat
  BY DEF Progress
<1>4. CASE names[n] \notin RuleClasses
  BY <1>1, <1>4 DEF RiseTo, Reordered
<1>5. CASE names[n] \in RuleClasses
  <2>1. /\ new.prio = acc.prio + 1 /\ names[n] \in DOMAIN new.rules
        /\ new.rules[names[n]].priority = acc.prio
    BY <1>5 DEF Reordered
  <2>2. ASSUME NEW i \in 1..(n - 1), names[i] \in RuleClasses
        PROVE  /\ names[i] \in DOMAIN new.rules
               /\ new.rules[names[i]].priority = acc.rules[names[i]].priority
               /\ acc.rules[names[i]].priority < acc.prio
               /\ acc.rules[names[i]].priority \in Int
    <3>1. names[i] \in DOMAIN acc.rules /\ acc.rules[names[i]].priority < acc.prio
      BY <2>2 DEF RiseTo
    <3>2. new.rules[names[i]] = acc.rules[names[i]] /\ names[i] \in DOMAIN new.rules
      BY <1>2, <1>5, <3>1 DEF Reordered
    <3> QED
      BY <3>1, <3>2, PrioritiesAreNumbers
  <2>3. ASSUME NEW i \in 1..n, names[i] \in RuleClasses
        PROVE  names[i] \in DOMAIN new.rules /\ new.rules[names[i]].priority < new.prio
    BY <1>1, <1>3, <2>1, <2>2, <2>3, SMTT(30)
  <2>4. ASSUME NEW i \in 1..n, NEW j \in 1..n, i < j,
               names[i] \in RuleClasses, names[j] \in RuleClasses
        PROVE  new.rules[names[i]].priority < new.rules[names[j]].priority
    <3>1. i \in 1..(n - 1)
      BY <2>4
    <3>2. CASE j = n
      BY <2>1, <2>2, <2>4, <3>1, <3>2
    <3>3. CASE j \in 1..(n - 1)
      BY <2>2, <2>4, <3>1, <3>3 DEF RiseTo
    <3> QED
      BY <1>1, <3>2, <3>3
  <2> QED
    BY <2>3, <2>4 DEF RiseTo
<1> QED
  BY <1>4, <1>5

LEMMA OrderedByRank ==
    ASSUME NEW names \in Seq(STRING),
           \A i, j \in 1..Len(names) : names[i] = names[j] => i = j
    PROVE  \A i, j \in 1..Len(names) :
             i < j /\ names[i] \in RuleClasses /\ names[j] \in RuleClasses =>
               Ordered(names)[names[i]].priority < Ordered(names)[names[j]].priority
<1>1. PICK after \in [0..Len(names) -> Progress] :
        Orders(after, names) /\ Ordered(names) = after[Len(names)].rules
  BY OrderedOrders
<1> DEFINE S == {n \in 0..Len(names) : RiseTo(after[n], names, n)}
<1>2. Len(names) \in Nat
  OBVIOUS
<1>3. 0 \in S
  BY <1>2 DEF RiseTo
<1>4. ASSUME NEW n \in 1..Len(names), n - 1 \in S
      PROVE  n \in S
  <2>1. /\ after[n - 1] \in Progress /\ after[n] \in Progress
        /\ RiseTo(after[n - 1], names, n - 1)
    BY <1>4
  <2>2. after[n] = NameNext(after[n - 1], names[n])
    BY <1>1 DEF Orders
  <2>3. Reordered(after[n - 1], after[n], names[n])
    BY <2>1, <2>2, NameStep
  <2>4. RiseTo(after[n], names, n)
    BY <2>1, <2>3, RiseStep
  <2> QED
    BY <2>4
<1> HIDE DEF S
<1>5. \A n \in 0..Len(names) : n \in S
  BY <1>2, <1>3, <1>4, InductionTo
<1>6. RiseTo(after[Len(names)], names, Len(names))
  BY <1>2, <1>5 DEF S
<1> QED
  BY <1>1, <1>6 DEF RiseTo

-----------------------------------------------------------------------------
(* The order of the targets, and the one-pass loop that finds its least.     *)

LEMMA KeysAreNumbers ==
    ASSUME NEW rules \in RuleMaps, NEW targets, NEW i \in Candidates(rules, targets)
    PROVE  /\ rules[targets[i].cls].priority \in Int
           /\ targets[i].aff # "Friend" /\ i \in DOMAIN targets
<1>1. targets[i].cls \in DOMAIN rules /\ i \in DOMAIN targets /\ targets[i].aff # "Friend"
  BY DEF Candidates, Eligible
<1>2. rules[targets[i].cls] \in Rules
  BY <1>1, RulesOfMap
<1> QED
  BY <1>1, <1>2 DEF Rules

\* Every distance and position is a number.
Vector(targets) ==
    \A i \in DOMAIN targets : i \in Int /\ targets[i].distance \in Int

LEMMA BeforeTransitive ==
    ASSUME NEW rules \in RuleMaps, NEW targets, Vector(targets),
           NEW i \in Candidates(rules, targets), NEW j \in Candidates(rules, targets),
           NEW k \in Candidates(rules, targets),
           Before(rules, targets, i, j), Before(rules, targets, j, k)
    PROVE  Before(rules, targets, i, k)
<1> DEFINE p(x) == rules[targets[x].cls].priority
           d(x) == targets[x].distance
<1>1. /\ i \in Int /\ p(i) \in Int /\ d(i) \in Int
      /\ j \in Int /\ p(j) \in Int /\ d(j) \in Int
      /\ k \in Int /\ p(k) \in Int /\ d(k) \in Int
  BY KeysAreNumbers DEF Vector
<1>2. /\ p(i) < p(j) \/ (p(i) = p(j) /\ (d(i) < d(j) \/ (d(i) = d(j) /\ i <= j)))
      /\ p(j) < p(k) \/ (p(j) = p(k) /\ (d(j) < d(k) \/ (d(j) = d(k) /\ j <= k)))
  BY Zenon DEF Before
<1> HIDE DEF p, d
<1>3. p(i) < p(k) \/ (p(i) = p(k) /\ (d(i) < d(k) \/ (d(i) = d(k) /\ i <= k)))
  BY <1>1, <1>2
<1> QED
  BY <1>3, Zenon DEF Before, p, d

LEMMA BeforeAntisymmetric ==
    ASSUME NEW rules \in RuleMaps, NEW targets, Vector(targets),
           NEW i \in Candidates(rules, targets), NEW j \in Candidates(rules, targets),
           Before(rules, targets, i, j), Before(rules, targets, j, i)
    PROVE  i = j
<1> DEFINE p(x) == rules[targets[x].cls].priority
           d(x) == targets[x].distance
<1>1. /\ i \in Int /\ p(i) \in Int /\ d(i) \in Int
      /\ j \in Int /\ p(j) \in Int /\ d(j) \in Int
  BY KeysAreNumbers DEF Vector
<1>2. /\ p(i) < p(j) \/ (p(i) = p(j) /\ (d(i) < d(j) \/ (d(i) = d(j) /\ i <= j)))
      /\ p(j) < p(i) \/ (p(j) = p(i) /\ (d(j) < d(i) \/ (d(j) = d(i) /\ j <= i)))
  BY Zenon DEF Before
<1> HIDE DEF p, d
<1> QED
  BY <1>1, <1>2

\* A later target that replaces the best so far comes before it; one that does
\* not comes after it.
LEMMA ReplacesIsBefore ==
    ASSUME NEW rules \in RuleMaps, NEW targets, Vector(targets),
           NEW i \in Candidates(rules, targets), NEW n \in Candidates(rules, targets), i < n
    PROVE  IF Replaces(rules, targets[n], targets[i]) THEN Before(rules, targets, n, i)
           ELSE Before(rules, targets, i, n)
<1> DEFINE p(x) == rules[targets[x].cls].priority
           d(x) == targets[x].distance
<1>1. /\ i \in Int /\ p(i) \in Int /\ d(i) \in Int
      /\ n \in Int /\ p(n) \in Int /\ d(n) \in Int
  BY KeysAreNumbers DEF Vector
<1>2. Replaces(rules, targets[n], targets[i]) <=>
         p(n) < p(i) \/ (p(n) = p(i) /\ d(n) < d(i))
  BY Zenon DEF Replaces, Priority
<1>3. /\ Before(rules, targets, n, i) <=>
            p(n) < p(i) \/ (p(n) = p(i) /\ d(n) < d(i))
              \/ (p(n) = p(i) /\ d(n) = d(i) /\ n <= i)
      /\ Before(rules, targets, i, n) <=>
            p(i) < p(n) \/ (p(i) = p(n) /\ d(i) < d(n))
              \/ (p(i) = p(n) /\ d(i) = d(n) /\ i <= n)
  BY Zenon DEF Before
<1> HIDE DEF p, d
<1> QED
  BY <1>1, <1>2, <1>3

\* best is the least of the candidates up to n, or none.
IsBest(rules, targets, best, n) ==
    IF best = NoTarget THEN \A j \in Candidates(rules, targets) : j > n
    ELSE /\ best \in Candidates(rules, targets) /\ best <= n
         /\ \A j \in Candidates(rules, targets) :
               j <= n => Before(rules, targets, best, j)

\* One turn of the loop.
Better(rules, targets, best, n) ==
    IF /\ Eligible(rules, targets[n])
       /\ \/ best = NoTarget
          \/ Replaces(rules, targets[n], targets[best])
    THEN n ELSE best

LEMMA BetterIsBest ==
    ASSUME NEW V, NEW rules \in RuleMaps, NEW targets \in Seq(V), Vector(targets),
           NEW n \in 1..Len(targets), NEW best \in Nat,
           IsBest(rules, targets, best, n - 1)
    PROVE  IsBest(rules, targets, Better(rules, targets, best, n), n)
<1> DEFINE C == Candidates(rules, targets)
           new == Better(rules, targets, best, n)
<1>1. n \in C <=> Eligible(rules, targets[n])
  BY DEF Candidates
<1>2. \A j \in C : j \in 1..Len(targets)
  BY DEF Candidates
<1>3. n # NoTarget /\ Before(rules, targets, n, n)
  BY DEF NoTarget, Before
<1>4. CASE n \notin C
  <2>1. new = best
    BY <1>1, <1>4 DEF Better
  <2>2. \A j \in C : j <= n <=> j <= n - 1
    BY <1>2, <1>4
  <2>3. \A j \in C : j > n - 1 <=> j > n
    BY <1>2, <1>4
  <2> HIDE DEF C, new
  <2> QED
    BY <2>1, <2>2, <2>3 DEF IsBest, C, new
<1>5. CASE n \in C /\ best = NoTarget
  <2>1. new = n
    BY <1>1, <1>5 DEF Better
  <2>2. \A j \in C : j <= n => j = n
    BY <1>2, <1>5 DEF IsBest
  <2> QED
    BY <1>3, <1>5, <2>1, <2>2 DEF IsBest
<1>6. CASE n \in C /\ best # NoTarget
  <2>1. best \in C /\ best <= n - 1 /\ \A j \in C : j <= n - 1 => Before(rules, targets, best, j)
    BY <1>6 DEF IsBest
  <2>2. best < n
    BY <2>1
  <2>3. CASE Replaces(rules, targets[n], targets[best])
    <3>1. new = n
      BY <1>1, <1>6, <2>3 DEF Better
    <3>2. Before(rules, targets, n, best)
      BY <1>6, <2>1, <2>2, <2>3, ReplacesIsBefore
    <3>3. ASSUME NEW j \in C, j <= n
          PROVE  Before(rules, targets, n, j)
      <4>1. CASE j = n
        BY <1>3, <4>1
      <4>2. CASE j # n
        <5>1. j <= n - 1
          BY <1>2, <3>3, <4>2
        <5>2. Before(rules, targets, best, j)
          BY <2>1, <5>1
        <5> QED
          BY <1>6, <2>1, <3>2, <5>2, BeforeTransitive
      <4> QED
        BY <4>1, <4>2
    <3> HIDE DEF C, new
    <3> QED
      BY <1>3, <1>6, <3>1, <3>3 DEF IsBest, C, new
  <2>4. CASE ~Replaces(rules, targets[n], targets[best])
    <3>1. new = best
      BY <1>6, <2>4 DEF Better
    <3>2. Before(rules, targets, best, n)
      BY <1>6, <2>1, <2>2, <2>4, ReplacesIsBefore
    <3>3. ASSUME NEW j \in C, j <= n
          PROVE  Before(rules, targets, best, j)
      BY <1>2, <2>1, <3>2, <3>3
    <3> HIDE DEF C, new
    <3> QED
      BY <1>6, <2>1, <2>2, <3>1, <3>3 DEF IsBest, C, new
  <2> QED
    BY <2>3, <2>4
<1> QED
  BY <1>4, <1>5, <1>6

\* The function behind Scan.
LEMMA ScanIsBest ==
    ASSUME NEW V, NEW rules \in RuleMaps, NEW targets \in Seq(V), Vector(targets)
    PROVE  Scan(rules, targets) \in Nat /\ IsBest(rules, targets, Scan(rules, targets), Len(targets))
<1> DEFINE N == Len(targets)
           step == [x \in Nat \X Nat |-> Better(rules, targets, x[2], x[1])]
           IsScan(f) == f = [n \in 0..N |-> IF n = 0 THEN NoTarget
                                ELSE IF /\ Eligible(rules, targets[n])
                                        /\ \/ f[n - 1] = NoTarget
                                           \/ Replaces(rules, targets[n], targets[f[n - 1]])
                                THEN n ELSE f[n - 1]]
           best == CHOOSE f : IsScan(f)
<1>1. N \in Nat /\ NoTarget \in Nat
  BY DEF NoTarget
<1>2. step \in [Nat \X Nat -> Nat]
  BY DEF Better
<1>3. PICK g \in [0..N -> Nat] :
          g[0] = NoTarget /\ \A n \in 1..N : g[n] = step[<<n, g[n - 1]>>]
  <2>1. Solutions(Nat, N, NoTarget, step) # {}
    <3> HIDE DEF step, N, IsScan, best
    <3> QED
      BY <1>1, <1>2, Recursion
  <2> QED
    BY <2>1 DEF Solutions
<1>4. ASSUME NEW n \in 1..N
      PROVE  g[n] = Better(rules, targets, g[n - 1], n)
  <2>1. n \in Nat /\ g[n - 1] \in Nat
    OBVIOUS
  <2> QED
    BY <1>3, <2>1
<1>5. IsScan(g)
  <2>1. \A n \in 0..N : g[n] = IF n = 0 THEN NoTarget
                               ELSE IF /\ Eligible(rules, targets[n])
                                       /\ \/ g[n - 1] = NoTarget
                                          \/ Replaces(rules, targets[n], targets[g[n - 1]])
                               THEN n ELSE g[n - 1]
    BY <1>3, <1>4 DEF Better
  <2> HIDE DEF N
  <2> QED
    BY <2>1, Zenon
<1>6. IsScan(best)
  BY <1>5, Zenon
<1>7. Scan(rules, targets) = best[N]
  BY Zenon DEF Scan
<1> HIDE DEF best, step
<1>8. best[0] = NoTarget
  BY <1>6
<1>9. ASSUME NEW n \in 1..N
      PROVE  best[n] = Better(rules, targets, best[n - 1], n)
  <2>1. n \in 0..N /\ n # 0
    OBVIOUS
  <2> HIDE DEF N
  <2> QED
    BY <1>6, <2>1, Zenon DEF Better
<1> DEFINE S == {n \in 0..N : best[n] \in Nat /\ IsBest(rules, targets, best[n], n)}
<1>10. 0 \in S
  <2>1. \A j \in Candidates(rules, targets) : j > 0
    BY DEF Candidates
  <2> QED
    BY <1>1, <1>8, <2>1 DEF IsBest
<1>11. ASSUME NEW n \in 1..N, n - 1 \in S
       PROVE  n \in S
  <2>1. best[n - 1] \in Nat /\ IsBest(rules, targets, best[n - 1], n - 1)
    BY <1>11
  <2>2. best[n] \in Nat
    BY <1>9, <2>1 DEF Better
  <2>3. IsBest(rules, targets, best[n], n)
    BY <1>9, <2>1, BetterIsBest
  <2> QED
    BY <2>2, <2>3
<1> HIDE DEF S
<1>12. \A n \in 0..N : n \in S
  BY <1>1, <1>10, <1>11, InductionTo
<1> QED
  BY <1>1, <1>7, <1>12 DEF S

\* The loop returns the foremost target if there is a candidate: it is the only one.
LEMMA ScanIsForemost ==
    ASSUME NEW V, NEW rules \in RuleMaps, NEW targets \in Seq(V), Vector(targets)
    PROVE  IF Candidates(rules, targets) = {} THEN Scan(rules, targets) = NoTarget
           ELSE /\ Foremost(rules, targets) = {Scan(rules, targets)}
                /\ Best(rules, targets) = Scan(rules, targets)
<1> DEFINE C == Candidates(rules, targets)
           scan == Scan(rules, targets)
<1>1. IsBest(rules, targets, scan, Len(targets))
  BY ScanIsBest
<1>2. \A j \in C : j \in 1..Len(targets)
  BY DEF Candidates
<1>3. CASE C = {}
  <2> HIDE DEF scan, C
  <2>1. scan = NoTarget
    BY <1>1, <1>3 DEF IsBest, C
  <2> QED
    BY <1>3, <2>1 DEF scan, C
<1>4. CASE C # {}
  <2>1. scan \in C /\ \A j \in C : Before(rules, targets, scan, j)
    <3> HIDE DEF scan
    <3> QED
      BY <1>1, <1>2, <1>4 DEF IsBest
  <2> HIDE DEF scan
  <2>2. Foremost(rules, targets) = {scan}
    <3>1. scan \in Foremost(rules, targets)
      BY <2>1 DEF Foremost
    <3>2. ASSUME NEW i \in Foremost(rules, targets)
          PROVE  i = scan
      <4>1. i \in C /\ Before(rules, targets, i, scan)
        BY <2>1 DEF Foremost
      <4> QED
        BY <2>1, <4>1, BeforeAntisymmetric
    <3> QED
      BY <3>1, <3>2
  <2>3. Best(rules, targets) = scan
    BY <2>2 DEF Best
  <2> QED
    BY <1>4, <2>2, <2>3 DEF scan
<1> QED
  BY <1>3, <1>4

\* What Decide engages is foremost.
LEMMA EngagesForemost ==
    ASSUME NEW targets, NEW p, Decide(targets, p).state = "Engaging"
    PROVE  /\ Decide(targets, p).locked \in Foremost(target_rules, targets)
           /\ targets[Decide(targets, p).locked].aff = "Foe"
           /\ ~targets[Decide(targets, p).locked].is_lost
<1> DEFINE best == Best(target_rules, targets)
<1>1. /\ Foremost(target_rules, targets) # {}
      /\ ~targets[best].is_lost /\ targets[best].aff = "Foe"
      /\ Decide(targets, p).locked = best
  BY DEF Decide
<1>2. best \in Foremost(target_rules, targets)
  BY <1>1 DEF Best
<1> QED
  BY <1>1, <1>2
=============================================================================
