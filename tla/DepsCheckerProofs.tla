--------------------------- MODULE DepsCheckerProofs ---------------------------
(***************************************************************************)
(* Proofs about DepsChecker: whatever the configuration, the derivation    *)
(* keeps the invariant Inv and implements DependencyClosure, and includes  *)
(* are judged as the configuration says.                                   *)
(***************************************************************************)
EXTENDS DepsChecker, NaturalsInduction, WellFoundedInduction, TLAPS

ReachOf(D, n) == Closure!Reach(D, n)

-----------------------------------------------------------------------------
\* The closure of a name is closed, and the least such set.
LEMMA ReachIsClosed ==
    ASSUME NEW D, NEW n \in Words
    PROVE  /\ ReachOf(D, n) \in SUBSET Words
           /\ Closure!ClosedFrom(D, n, ReachOf(D, n))
BY DEF ReachOf, Closure!Reach, Closure!ClosedFrom

LEMMA ReachIsLeast ==
    ASSUME NEW D, NEW n \in Words, NEW S \in SUBSET Words, Closure!ClosedFrom(D, n, S)
    PROVE  ReachOf(D, n) \subseteq S
BY DEF ReachOf, Closure!Reach

\* A name that depends on nothing reaches nothing.
LEMMA NothingReached ==
    ASSUME NEW D, NEW n \in Words, \A m \in Words : <<n, m>> \notin D
    PROVE  ReachOf(D, n) = {}
<1>1. Closure!ClosedFrom(D, n, {})
  BY DEF Closure!ClosedFrom
<1>2. {} \in SUBSET Words
  OBVIOUS
<1>. QED  BY <1>1, <1>2, ReachIsLeast, Zenon

\* A name reaches its direct dependencies and what they reach, and nothing else: what
\* add_rules puts together is the closure.
LEMMA ReachByDependencies ==
    ASSUME NEW D, NEW n \in Words, NEW R \in SUBSET Words,
           \A w \in Words : w \in R <=>
               \E d \in Words : <<n, d>> \in D /\ (w = d \/ w \in ReachOf(D, d))
    PROVE  R = ReachOf(D, n)
<1>1. Closure!ClosedFrom(D, n, R)
  <2>1. \A m \in Words : <<n, m>> \in D => m \in R
    OBVIOUS
  <2>2. ASSUME NEW x \in R, NEW y \in Words, <<x, y>> \in D
        PROVE  y \in R
    <3>1. PICK d \in Words : <<n, d>> \in D /\ (x = d \/ x \in ReachOf(D, d))
      OBVIOUS
    <3>2. Closure!ClosedFrom(D, d, ReachOf(D, d))
      BY ReachIsClosed
    <3>3. y \in ReachOf(D, d)
      BY <2>2, <3>1, <3>2 DEF Closure!ClosedFrom
    <3>. QED  BY <3>1, <3>3
  <2>. QED  BY <2>1, <2>2 DEF Closure!ClosedFrom
<1>2. ReachOf(D, n) \subseteq R
  BY <1>1, ReachIsLeast
<1>3. ASSUME NEW w \in R
      PROVE  w \in ReachOf(D, n)
  <2>1. PICK d \in Words : <<n, d>> \in D /\ (w = d \/ w \in ReachOf(D, d))
    OBVIOUS
  <2>2. /\ ReachOf(D, n) \in SUBSET Words
        /\ Closure!ClosedFrom(D, n, ReachOf(D, n))
    BY ReachIsClosed
  <2>3. d \in ReachOf(D, n) /\ Closure!ClosedFrom(D, d, ReachOf(D, n))
    BY <2>1, <2>2 DEF Closure!ClosedFrom
  <2>4. ReachOf(D, d) \subseteq ReachOf(D, n)
    BY <2>2, <2>3, ReachIsLeast
  <2>. QED  BY <2>1, <2>3, <2>4
<1>. QED  BY <1>2, <1>3

\* The expanded rules are a function of the configuration, which nothing changes.
LEMMA ExpansionIsFixed ==
    ASSUME UNCHANGED <<lines, defines>>
    PROVE  /\ process_defines' = process_defines
           /\ \A n : DirectFrom(n)' = DirectFrom(n)
BY DEF process_defines, DirectFrom, AtLevel, ExpandOnce

LEMMA ExpansionIsTyped == process_defines \in SUBSET Pairs
BY DEF process_defines

-----------------------------------------------------------------------------
Settled == {"config", "too deep"}

LEMMA DerivedIsEarlier ==
    ASSUME phase \notin Settled
    PROVE  Derived = Words \ Pending
BY DEF Derived, Settled

LEMMA InitEstablishesInv ==
    ASSUME NamesAssumption, Init
    PROVE  Inv
<1>1. TypeOK
  <2>1. Pending = {}
    BY DEF Init, Pending
  <2>2. transitive_rules \in [Pending -> SUBSET Words]
    BY DEF Init, Pending
  <2>3. name \in Words
    BY NamesAssumption DEF Init, NamesAssumption
  <2>. QED  BY <2>1, <2>2, <2>3 DEF Init, TypeOK, Verdicts
<1>. QED  BY <1>1 DEF Init, Inv, WaitingIsDirect, DerivedIsClosed, AtWork, WaitingIsEmpty,
              CyclesWait, Derived

\* One step for each part of the invariant, for each action of the constructor.
LEMMA ExpandDefinesKeepsInv ==
    ASSUME Inv, ExpandDefines
    PROVE  Inv'
<1>. DEFINE D == process_defines
<1>. USE DEF Inv
<1>1. D' = D /\ \A n : DirectFrom(n)' = DirectFrom(n)
  BY ExpansionIsFixed DEF ExpandDefines
<1>2. CASE TooDeep
  BY <1>2 DEF ExpandDefines, TypeOK, WaitingIsDirect, DerivedIsClosed, AtWork,
              WaitingIsEmpty, CyclesWait, Derived, Pending, Verdicts
<1>3. CASE ~TooDeep
  <2>1. /\ phase = "config" /\ phase' = "derive"
        /\ UNCHANGED <<lines, defines, rules, name, left, passed, errors>>
        /\ Pending' = {w \in Words : DirectFrom(w) # {}}
        /\ transitive_rules' = [n \in Pending' |-> DirectFrom(n)]
    BY <1>3 DEF ExpandDefines, Pending
  <2>2. TypeOK'
    BY <2>1 DEF TypeOK, DirectFrom
  <2>3. WaitingIsDirect'
    BY <1>1, <2>1 DEF WaitingIsDirect
  <2>4. Derived = {} /\ Derived' = Words \ Pending'
    BY <2>1 DEF Derived
  <2>5. \A n \in Words : rules[n] = {}
    BY <2>1, <2>4 DEF WaitingIsEmpty
  <2>6. DerivedIsClosed'
    <3>1. ASSUME NEW n \in Derived'
          PROVE  ReachOf(D, n) = {}
      <4>1. \A m \in Words : <<n, m>> \notin D
        BY <2>1, <2>4 DEF DirectFrom
      <4>. QED  BY <2>4, <4>1, NothingReached
    <3>. QED  BY <1>1, <2>1, <2>4, <2>5, <3>1 DEF DerivedIsClosed, ReachOf
  <2>7. AtWork' /\ WaitingIsEmpty'
    BY <2>1, <2>5 DEF AtWork, WaitingIsEmpty
  <2>8. CyclesWait'
    <3>1. ASSUME NEW S \in SUBSET Words, Closure!IsCyclic(D, S)
          PROVE  S \subseteq Pending'
      BY <2>1, <3>1 DEF Closure!IsCyclic, DirectFrom
    <3>. QED  BY <1>1, <3>1 DEF CyclesWait
  <2>. QED  BY <2>1, <2>2, <2>3, <2>6, <2>7, <2>8
<1>. QED  BY <1>2, <1>3

LEMMA PickNameKeepsInv ==
    ASSUME Inv, PickName
    PROVE  Inv'
<1>. USE DEF Inv
<1>1. PICK n \in Pending :
        /\ is_self_contained(n)
        /\ name' = n /\ left' = transitive_rules[n]
  BY DEF PickName
<1>2. /\ phase = "derive" /\ phase' = "add"
      /\ UNCHANGED <<lines, defines, transitive_rules, rules, passed, errors>>
  BY DEF PickName
<1>3. process_defines' = process_defines /\ \A m : DirectFrom(m)' = DirectFrom(m)
  BY <1>2, ExpansionIsFixed
<1>4. Pending' = Pending /\ Derived' = Derived /\ n \in Words
  BY <1>2 DEF Pending, Derived, TypeOK
<1>5. transitive_rules[n] = DirectFrom(n)
  BY <1>2 DEF WaitingIsDirect
<1>6. TypeOK'
  BY <1>1, <1>2, <1>4 DEF TypeOK
<1>7. AtWork'
  <2>1. rules[n] = {}
    BY <1>2, <1>4 DEF WaitingIsEmpty, Derived
  <2>2. DirectFrom(n) \cap Pending = {}
    BY <1>1, <1>5 DEF is_self_contained
  <2>. QED  BY <1>1, <1>2, <1>3, <1>4, <1>5, <2>1, <2>2 DEF AtWork, Added
<1>8. WaitingIsEmpty'
  BY <1>1, <1>2, <1>4 DEF WaitingIsEmpty
<1>. QED  BY <1>2, <1>3, <1>4, <1>6, <1>7, <1>8
          DEF WaitingIsDirect, DerivedIsClosed, CyclesWait

LEMMA AddRuleKeepsInv ==
    ASSUME Inv, NEW dep \in Words, add_rule(dep)
    PROVE  Inv'
<1>. USE DEF Inv
<1>1. /\ phase = "add" /\ dep \in left /\ name \in Words
      /\ rules' = [rules EXCEPT ![name] = @ \cup Added(dep)]
      /\ left' = left \ {dep}
      /\ UNCHANGED <<lines, defines, phase, transitive_rules, name, passed, errors>>
  BY DEF add_rule, TypeOK
<1>2. process_defines' = process_defines /\ \A m : DirectFrom(m)' = DirectFrom(m)
  BY <1>1, ExpansionIsFixed
<1>3. Pending' = Pending /\ Derived' = Derived /\ name \notin Derived
  BY <1>1 DEF Pending, Derived, AtWork
<1>4. /\ rules \in [Words -> SUBSET Words]
      /\ rules'[name] = rules[name] \cup Added(dep)
      /\ \A n \in Words \ {name} : rules'[n] = rules[n]
  BY <1>1 DEF TypeOK
<1>5. TypeOK'
  BY <1>1, <1>3, <1>4 DEF TypeOK, Added
<1>6. AtWork'
  <2>1. DirectFrom(name) \subseteq Words \ {name}
    BY <1>1 DEF AtWork, DirectFrom
  <2>2. \A d \in DirectFrom(name) : Added(d)' = Added(d)
    BY <1>4, <2>1 DEF Added
  <2>3. DirectFrom(name) \ left' = (DirectFrom(name) \ left) \cup {dep}
    BY <1>1 DEF AtWork
  <2>4. rules'[name] = UNION {Added(d) : d \in DirectFrom(name) \ left'}
    BY <1>1, <1>4, <2>3 DEF AtWork
  <2>5. UNION {Added(d) : d \in DirectFrom(name) \ left'}
          = UNION {Added(d)' : d \in DirectFrom(name) \ left'}
    BY <2>2
  <2>. QED  BY <1>1, <1>2, <1>3, <2>4, <2>5 DEF AtWork
<1>7. DerivedIsClosed' /\ WaitingIsEmpty'
  BY <1>1, <1>2, <1>3, <1>4 DEF DerivedIsClosed, WaitingIsEmpty, Derived
<1>. QED  BY <1>1, <1>2, <1>3, <1>5, <1>6, <1>7 DEF WaitingIsDirect, CyclesWait

\* When all its dependencies are added, the rules of a name are its closure.
LEMMA NameIsClosed ==
    ASSUME Inv, phase = "add", left = {}
    PROVE  rules[name] = ReachOf(process_defines, name)
<1>. DEFINE D == process_defines
<1>. USE DEF Inv
<1>1. name \in Words /\ rules[name] \in SUBSET Words
  BY DEF TypeOK
<1>2. \A d \in DirectFrom(name) : d \in Words /\ rules[d] = ReachOf(D, d)
  BY DEF AtWork, DerivedIsClosed, Derived, ReachOf, DirectFrom
<1>3. \A w \in Words : w \in rules[name] <=>
        \E d \in Words : <<name, d>> \in D /\ (w = d \/ w \in ReachOf(D, d))
  <2>1. rules[name] = UNION {Added(d) : d \in DirectFrom(name)}
    <3>1. DirectFrom(name) \ left = DirectFrom(name)
      OBVIOUS
    <3>. QED  BY <3>1 DEF AtWork
  <2>2. \A d \in DirectFrom(name) : Added(d) = {d} \cup ReachOf(D, d)
    BY <1>2 DEF Added
  <2>3. \A w : w \in rules[name] <=>
          \E d \in DirectFrom(name) : w = d \/ w \in ReachOf(D, d)
    BY <2>1, <2>2
  <2>4. \A d : d \in DirectFrom(name) <=> d \in Words /\ <<name, d>> \in D
    BY DEF DirectFrom
  <2>. QED  BY <2>3, <2>4
<1>. QED  BY <1>1, <1>3, ReachByDependencies

LEMMA NameDoneKeepsInv ==
    ASSUME Inv, NameDone
    PROVE  Inv'
<1>. DEFINE D == process_defines
<1>. USE DEF Inv
<1>1. /\ phase = "add" /\ phase' = "derive" /\ left = {} /\ name \in Pending
      /\ UNCHANGED <<lines, defines, rules, name, left, passed, errors>>
      /\ Pending' = Pending \ {name}
      /\ transitive_rules' = [n \in Pending' |-> transitive_rules[n]]
  BY DEF NameDone, AtWork, Pending
<1>2. D' = D /\ \A n : DirectFrom(n)' = DirectFrom(n)
  BY <1>1, ExpansionIsFixed
<1>3. Derived' = Derived \cup {name}
  BY <1>1 DEF Derived, TypeOK
<1>4. TypeOK'
  BY <1>1 DEF TypeOK
<1>5. WaitingIsDirect'
  BY <1>1, <1>2 DEF WaitingIsDirect
<1>6. DerivedIsClosed'
  <2>1. rules[name] = ReachOf(D, name)
    BY <1>1, NameIsClosed
  <2>. QED  BY <1>1, <1>2, <1>3, <2>1 DEF DerivedIsClosed, ReachOf
<1>7. AtWork' /\ WaitingIsEmpty'
  BY <1>1, <1>3 DEF AtWork, WaitingIsEmpty
<1>8. CyclesWait'
  <2>1. ASSUME NEW S \in SUBSET Words, Closure!IsCyclic(D, S)
        PROVE  S \subseteq Pending'
    <3>1. S \subseteq Pending
      BY <1>1, <2>1 DEF CyclesWait
    <3>2. name \notin S
      BY <1>1, <2>1, <3>1 DEF AtWork, Closure!IsCyclic, DirectFrom
    <3>. QED  BY <1>1, <3>1, <3>2
  <2>. QED  BY <1>2, <2>1 DEF CyclesWait
<1>. QED  BY <1>1, <1>4, <1>5, <1>6, <1>7, <1>8

\* When every waiting name waits for another, those names are a cycle.
LEMMA LoopIsACycle ==
    ASSUME Inv, LoopDetected
    PROVE  Closure!HasCycle(process_defines)
<1>. USE DEF Inv
<1>1. Pending \in SUBSET Words /\ Pending # {} /\ phase = "derive"
  BY DEF LoopDetected, TypeOK
<1>2. Closure!IsCyclic(process_defines, Pending)
  BY <1>1 DEF LoopDetected, is_self_contained, WaitingIsDirect, DirectFrom,
              Closure!IsCyclic
<1>. QED  BY <1>1, <1>2 DEF Closure!HasCycle

LEMMA OthersKeepInv ==
    ASSUME Inv,
           \/ LoopDetected \/ PatternsCreated
           \/ \E include \in Includes : match(include)
           \/ UNCHANGED vars
    PROVE  Inv'
<1>. USE DEF Inv
<1>1. /\ UNCHANGED <<lines, defines, transitive_rules, rules, name, left>>
      /\ \/ phase' = phase
         \/ phase = "derive" /\ phase' = "loop" /\ Closure!HasCycle(process_defines)
         \/ phase = "derive" /\ phase' = "ready" /\ Pending = {}
  BY LoopIsACycle DEF LoopDetected, PatternsCreated, match, vars
<1>2. process_defines' = process_defines /\ \A n : DirectFrom(n)' = DirectFrom(n)
  BY <1>1, ExpansionIsFixed
<1>3. Pending' = Pending /\ Derived' = Derived
  BY <1>1 DEF Pending, Derived
<1>4. passed' \subseteq Includes /\ errors' \subseteq Includes
  BY DEF match, vars, TypeOK, LoopDetected, PatternsCreated
<1>5. TypeOK'
  BY <1>1, <1>3, <1>4 DEF TypeOK, Verdicts
<1>6. AtWork' /\ WaitingIsEmpty'
  BY <1>1, <1>2, <1>3 DEF AtWork, WaitingIsEmpty, Added
<1>. QED  BY <1>1, <1>2, <1>3, <1>5, <1>6 DEF WaitingIsDirect, DerivedIsClosed, CyclesWait

LEMMA NextKeepsInv ==
    ASSUME Inv, [Next]_vars
    PROVE  Inv'
BY ExpandDefinesKeepsInv, PickNameKeepsInv, AddRuleKeepsInv, NameDoneKeepsInv, OthersKeepInv
   DEF Next, Construct

\* Whatever the configuration holds, the derivation keeps its invariant: waiting names
\* have their direct rules, derived ones their closure, and names on a cycle wait.
THEOREM DerivationInvariant == Spec => []Inv
<1>1. Init => Inv
  BY NamesAssumption, InitEstablishesInv
<1>2. Inv /\ [Next]_vars => Inv'
  BY NextKeepsInv
<1>. QED  BY <1>1, <1>2, PTL DEF Spec

\* A published configuration has no cycle, a reported loop is one, and what is published
\* is the transitive closure of the expanded rules, no more and no less.
THEOREM PublishedIsTheClosure ==
    Spec => [](/\ phase = "ready" =>
                    /\ ~Closure!HasCycle(process_defines)
                    /\ \A n \in Words : rules[n] = Closure!Reach(process_defines, n)
               /\ phase = "loop" => Closure!HasCycle(process_defines))
<1>1. Inv => /\ phase = "ready" =>
                  /\ ~Closure!HasCycle(process_defines)
                  /\ \A n \in Words : rules[n] = Closure!Reach(process_defines, n)
             /\ phase = "loop" => Closure!HasCycle(process_defines)
  BY DEF Inv, CyclesWait, DerivedIsClosed, Derived, Closure!HasCycle
<1>. QED  BY <1>1, DerivationInvariant, PTL

-----------------------------------------------------------------------------
AllowedPairs == {pair \in Pairs : pair[1] \in Derived /\ pair[2] \in rules[pair[1]]}
OutcomeOf == CASE phase = "ready" -> "published" [] phase = "loop" -> "loop"
               [] OTHER -> "open"

LEMMA InitRefines ==
    ASSUME Init
    PROVE  Closure!Init
BY DEF Init, Closure!Init, Derived, process_defines, Pairs

LEMMA StutterRefines ==
    ASSUME AllowedPairs' = AllowedPairs, OutcomeOf' = OutcomeOf,
           process_defines' = process_defines
    PROVE  UNCHANGED Closure!vars
BY DEF AllowedPairs, OutcomeOf, Closure!vars

LEMMA ExpandDefinesRefines ==
    ASSUME Inv, ExpandDefines
    PROVE  UNCHANGED Closure!vars
<1>1. process_defines' = process_defines
  BY ExpansionIsFixed DEF ExpandDefines
<1>2. phase = "config" /\ phase' \in {"too deep", "derive"} /\ rules' = rules
  BY DEF ExpandDefines
<1>3. Derived = {}
  BY <1>2 DEF Derived
<1>4. \A n \in Words : rules[n] = {}
  BY <1>2, <1>3 DEF Inv, WaitingIsEmpty
<1>5. AllowedPairs = {} /\ AllowedPairs' = {}
  BY <1>2, <1>3, <1>4 DEF AllowedPairs, Pairs, Derived
<1>6. OutcomeOf' = OutcomeOf
  BY <1>2 DEF OutcomeOf
<1>. QED  BY <1>1, <1>5, <1>6, StutterRefines

LEMMA AddRuleRefines ==
    ASSUME Inv, NEW dep \in Words, add_rule(dep)
    PROVE  UNCHANGED Closure!vars
<1>1. process_defines' = process_defines
  BY ExpansionIsFixed DEF add_rule
<1>2. phase' = phase /\ Derived' = Derived /\ name \notin Derived
  BY DEF add_rule, Derived, Pending, Inv, AtWork
<1>3. \A n \in Derived : rules'[n] = rules[n]
  BY <1>2 DEF add_rule, Inv, TypeOK, Derived
<1>4. AllowedPairs' = AllowedPairs
  BY <1>2, <1>3 DEF AllowedPairs
<1>5. OutcomeOf' = OutcomeOf
  BY <1>2 DEF OutcomeOf
<1>. QED  BY <1>1, <1>4, <1>5, StutterRefines

LEMMA NameDoneRefines ==
    ASSUME Inv, NameDone
    PROVE  Closure!Derive(name)
<1>. DEFINE D == process_defines
<1>1. D' = D
  BY ExpansionIsFixed DEF NameDone
<1>2. /\ phase = "add" /\ phase' = "derive" /\ rules' = rules /\ left = {}
      /\ name \in Words /\ rules[name] \in SUBSET Words
  BY DEF NameDone, Inv, TypeOK
<1>3. Derived' = Derived \cup {name}
  BY <1>2 DEF NameDone, Derived, Pending, Inv, TypeOK
<1>4. rules[name] = ReachOf(D, name)
  BY <1>2, NameIsClosed
<1>5. AllowedPairs' = AllowedPairs \cup ({name} \X ReachOf(D, name))
  BY <1>2, <1>3, <1>4 DEF AllowedPairs, Pairs
<1>6. OutcomeOf = "open" /\ OutcomeOf' = "open"
  BY <1>2 DEF OutcomeOf
<1>. QED  BY <1>1, <1>5, <1>6
          DEF Closure!Derive, Closure!Row, AllowedPairs, OutcomeOf, ReachOf

LEMMA PatternsCreatedRefines ==
    ASSUME Inv, PatternsCreated
    PROVE  Closure!Publish
<1>. DEFINE D == process_defines
<1>1. /\ phase = "derive" /\ phase' = "ready" /\ Pending = {}
      /\ UNCHANGED <<rules, transitive_rules>> /\ D' = D
  BY ExpansionIsFixed DEF PatternsCreated
<1>2. ~Closure!HasCycle(D)
  BY <1>1 DEF Inv, CyclesWait, Closure!HasCycle
<1>3. Derived = Words /\ Derived' = Words
  BY <1>1 DEF Derived, Pending
<1>4. \A n \in Words : {n} \X Closure!Reach(D, n) \subseteq AllowedPairs
  <2>1. ASSUME NEW n \in Words
        PROVE  rules[n] = Closure!Reach(D, n) /\ rules[n] \in SUBSET Words
    BY <1>3 DEF Inv, DerivedIsClosed, TypeOK
  <2>. QED  BY <1>3, <2>1 DEF AllowedPairs, Pairs
<1>5. AllowedPairs' = AllowedPairs
  BY <1>1, <1>3 DEF AllowedPairs
<1>6. OutcomeOf = "open" /\ OutcomeOf' = "published"
  BY <1>1 DEF OutcomeOf
<1>. QED  BY <1>1, <1>2, <1>4, <1>5, <1>6
          DEF Closure!Publish, Closure!Row, AllowedPairs, OutcomeOf

LEMMA LoopDetectedRefines ==
    ASSUME Inv, LoopDetected
    PROVE  Closure!ReportLoop
<1>1. /\ phase = "derive" /\ phase' = "loop"
      /\ UNCHANGED <<rules, transitive_rules>>
      /\ process_defines' = process_defines
  BY ExpansionIsFixed DEF LoopDetected
<1>2. Derived' = Derived
  BY <1>1 DEF Derived, Pending
<1>3. AllowedPairs' = AllowedPairs
  BY <1>1, <1>2 DEF AllowedPairs
<1>4. OutcomeOf = "open" /\ OutcomeOf' = "loop"
  BY <1>1 DEF OutcomeOf
<1>. QED  BY <1>1, <1>3, <1>4, LoopIsACycle
          DEF Closure!ReportLoop, AllowedPairs, OutcomeOf

LEMMA OthersRefine ==
    ASSUME PickName \/ (\E include \in Includes : match(include)) \/ UNCHANGED vars
    PROVE  UNCHANGED Closure!vars
<1>1. process_defines' = process_defines
  BY ExpansionIsFixed DEF PickName, match, vars
<1>2. /\ UNCHANGED <<rules, transitive_rules>>
      /\ phase' = phase \/ (phase = "derive" /\ phase' = "add")
  BY DEF PickName, match, vars
<1>3. Derived' = Derived
  BY <1>2 DEF Derived, Pending
<1>4. AllowedPairs' = AllowedPairs /\ OutcomeOf' = OutcomeOf
  BY <1>2, <1>3 DEF AllowedPairs, OutcomeOf
<1>. QED  BY <1>1, <1>4, StutterRefines

\* The checker implements the abstract specification, for every configuration: rows
\* appear complete, are published only without a cycle, and a loop is reported only when
\* the expanded rules have one.
THEOREM CheckerDerivesTheClosure == Spec => DerivesTheClosure
<1>1. Init => Closure!Init
  BY InitRefines
<1>2. Inv /\ [Next]_vars => [Closure!Next]_(Closure!vars)
  <2>. SUFFICES ASSUME Inv, [Next]_vars
                PROVE  Closure!Next \/ UNCHANGED Closure!vars
    OBVIOUS
  <2>1. CASE ExpandDefines
    BY <2>1, ExpandDefinesRefines
  <2>2. CASE \E dep \in Words : add_rule(dep)
    BY <2>2, AddRuleRefines
  <2>3. CASE NameDone
    <3>1. name \in Words
      BY DEF Inv, TypeOK
    <3>2. Closure!Derive(name)
      BY <2>3, NameDoneRefines
    <3>3. \E n \in Words : Closure!Derive(n)
      BY <3>1, <3>2 DEF Closure!Derive
    <3>. QED  BY <3>3 DEF Closure!Next
  <2>4. CASE PatternsCreated
    BY <2>4, PatternsCreatedRefines DEF Closure!Next
  <2>5. CASE LoopDetected
    BY <2>5, LoopDetectedRefines DEF Closure!Next
  <2>6. CASE PickName \/ (\E include \in Includes : match(include)) \/ UNCHANGED vars
    BY <2>6, OthersRefine
  <2>. QED  BY <2>1, <2>2, <2>3, <2>4, <2>5, <2>6 DEF Next, Construct
<1>. QED  BY <1>1, <1>2, DerivationInvariant, PTL DEF Spec, DerivesTheClosure, Closure!Spec

-----------------------------------------------------------------------------
(* The levels of expand_define, and the configuration they come from.      *)

\* The numbers, ordered.
Before == {ss \in Nat \X Nat : ss[1] < ss[2]}

\* The order of the numbers is well founded.
LEMMA NumbersAreOrdered == IsWellFoundedOn(Before, Nat)
BY NatLessThanWellFounded DEF OpToRel, Before

\* Induction over the numbers, for a set of them.
LEMMA CountingUp ==
    ASSUME NEW S, 0 \in S, \A n \in Nat : n \in S => n + 1 \in S
    PROVE  Nat \subseteq S
<1>. DEFINE T == Nat \ S
<1>. SUFFICES ASSUME T # {} PROVE FALSE
  OBVIOUS
<1>1. PICK n \in T : \A m \in T : <<m, n>> \notin Before
  <2>. HIDE DEF T
  <2>1. T \subseteq Nat
    BY DEF T
  <2>. QED  BY <2>1, NumbersAreOrdered, WFMin, Zenon
<1>2. n \in Nat /\ n - 1 \in Nat /\ n - 1 < n
  OBVIOUS
<1>3. n - 1 \in S
  BY <1>1, <1>2 DEF Before
<1>. QED  BY <1>2, <1>3

\* What the rules of one level make at the next.
Expanded(set) == UNION {ExpandOnce(rule) : rule \in set}

\* The levels are what expand_define is called with, one after the other.
LEMMA LevelsAreExpanded ==
    ASSUME NamesAssumption
    PROVE  /\ AtLevel[1] = lines
           /\ \A k \in 1 .. NestingLimit - 1 : AtLevel[k + 1] = Expanded(AtLevel[k])
<1>. DEFINE Rec(g, k) == g = [i \in 1..k |-> IF i = 1 THEN lines ELSE Expanded(g[i - 1])]
            S == {k \in Nat : k = 0 \/ \E g : Rec(g, k)}
<1>1. 0 \in S
  OBVIOUS
<1>2. ASSUME NEW k \in Nat, k \in S PROVE k + 1 \in S
  <2>1. CASE k = 0
    <3>. DEFINE h == [i \in 1..1 |-> lines]
    <3>1. h = [i \in 1..1 |-> IF i = 1 THEN lines ELSE Expanded(h[i - 1])]
      OBVIOUS
    <3>2. Rec(h, k + 1)
      BY <2>1, <3>1
    <3>. HIDE DEF h
    <3>. QED  BY <3>2
  <2>2. CASE k # 0
    <3>1. PICK g : Rec(g, k)
      BY <1>2, <2>2
    <3>. DEFINE h == [i \in 1..(k + 1) |-> IF i = k + 1 THEN Expanded(g[k]) ELSE g[i]]
    <3>2. ASSUME NEW i \in 1..(k + 1)
          PROVE  h[i] = IF i = 1 THEN lines ELSE Expanded(h[i - 1])
      <4>1. CASE i = k + 1
        <5>1. i # 1 /\ i - 1 = k /\ k \in 1..(k + 1) /\ k # k + 1
          BY <2>2, <4>1
        <5>2. h[k] = g[k] /\ h[i] = Expanded(g[k])
          BY <4>1, <5>1
        <5>. HIDE DEF h
        <5>. QED  BY <5>1, <5>2
      <4>2. CASE i # k + 1
        <5>1. h[i] = g[i] /\ i \in 1..k
          BY <4>2
        <5>2. g[i] = IF i = 1 THEN lines ELSE Expanded(g[i - 1])
          BY <3>1, <5>1
        <5>3. i # 1 => h[i - 1] = g[i - 1]
          BY <5>1
        <5>. QED  BY <5>1, <5>2, <5>3
      <4>. QED  BY <4>1, <4>2
    <3>3. Rec(h, k + 1)
      <4>1. h = [i \in 1..(k + 1) |-> h[i]]
        OBVIOUS
      <4>. HIDE DEF h
      <4>. QED  BY <3>2, <4>1
    <3>. HIDE DEF h
    <3>. QED  BY <3>3
  <2>. QED  BY <2>1, <2>2
<1>3. NestingLimit \in S /\ NestingLimit # 0
  <2>. HIDE DEF S
  <2>. QED  BY <1>1, <1>2, CountingUp DEF NamesAssumption
<1>4. AtLevel = CHOOSE g : Rec(g, NestingLimit)
  BY Zenon DEF AtLevel, Expanded
<1>5. Rec(AtLevel, NestingLimit)
  <2>1. \E g : Rec(g, NestingLimit)
    BY <1>3
  <2>. HIDE DEF Rec
  <2>. QED  BY <1>4, <2>1
<1>. DEFINE level == AtLevel
<1>6. level = [i \in 1..NestingLimit |-> IF i = 1 THEN lines ELSE Expanded(level[i - 1])]
  BY <1>5
<1>. HIDE DEF level
<1>7. level[1] = lines /\ \A k \in 1 .. NestingLimit - 1 : level[k + 1] = Expanded(level[k])
  BY <1>6, NamesAssumption DEF NamesAssumption
<1>. QED  BY <1>7 DEF level

\* The names a name stands for, through any nesting of defines.
StandsFor(n) ==
    {m \in Names : \A S \in SUBSET Names :
        n \in S /\ (\A a \in S \cap Aliases : defines[a] \subseteq S) => m \in S}

\* The words among them are what the name means.
LEMMA MeaningIsWords == \A n : Meaning(n) = StandsFor(n) \cap Words
BY DEF Meaning, StandsFor, Names

\* A name stands for itself, and with a define for all that is in it.
LEMMA StandsForItself ==
    ASSUME TypeOK, NEW n \in Names
    PROVE  /\ n \in StandsFor(n)
           /\ \A a \in StandsFor(n) \cap Aliases : defines[a] \subseteq StandsFor(n)
BY DEF StandsFor, TypeOK

\* A rule of a level pairs what two names of one configured rule stand for.
Follows(rule) ==
    \E line \in lines : rule[1] \in StandsFor(line[1]) /\ rule[2] \in StandsFor(line[2])

\* By induction over the levels: expanding a rule leaves it with the line it comes from.
LEMMA LevelsFollow ==
    ASSUME NamesAssumption, TypeOK
    PROVE  \A k \in 1..NestingLimit : AtLevel[k] \subseteq {rule \in Names \X Names : Follows(rule)}
<1>. DEFINE level == AtLevel  G == {rule \in Names \X Names : Follows(rule)}
            S == {k \in Nat : k \in 1..NestingLimit => level[k] \subseteq G}
<1>1. level[1] = lines /\ \A k \in 1 .. NestingLimit - 1 : level[k + 1] = Expanded(level[k])
  BY LevelsAreExpanded
<1>. HIDE DEF level
<1>2. lines \subseteq G
  <2> SUFFICES ASSUME NEW line \in lines PROVE line \in Names \X Names /\ Follows(line)
    OBVIOUS
  <2>1. line \in Names \X Names
    BY DEF TypeOK, NamesAssumption
  <2>2. line[1] \in StandsFor(line[1]) /\ line[2] \in StandsFor(line[2])
    BY <2>1, StandsForItself
  <2> QED
    BY <2>1, <2>2 DEF Follows
<1>3. ASSUME NEW rule \in G PROVE ExpandOnce(rule) \subseteq G
  <2>1. rule \in Names \X Names /\ Follows(rule)
    OBVIOUS
  <2>2. PICK line \in lines : rule[1] \in StandsFor(line[1]) /\ rule[2] \in StandsFor(line[2])
    BY <2>1 DEF Follows
  <2>3. line[1] \in Names /\ line[2] \in Names
    BY DEF TypeOK, NamesAssumption
  <2>4. /\ \A a \in StandsFor(line[1]) \cap Aliases : defines[a] \subseteq StandsFor(line[1])
        /\ \A a \in StandsFor(line[2]) \cap Aliases : defines[a] \subseteq StandsFor(line[2])
    BY <2>3, StandsForItself
  <2>5. StandsFor(line[1]) \subseteq Names /\ StandsFor(line[2]) \subseteq Names
    BY DEF StandsFor
  <2>6. CASE rule[1] \in Aliases
    <3> SUFFICES ASSUME NEW m \in defines[rule[1]]
                 PROVE  <<m, rule[2]>> \in Names \X Names /\ Follows(<<m, rule[2]>>)
      BY <2>6 DEF ExpandOnce
    <3>1. m \in StandsFor(line[1])
      BY <2>2, <2>4, <2>6
    <3>. QED  BY <2>1, <2>2, <2>5, <3>1 DEF Follows
  <2>7. CASE rule[1] \notin Aliases /\ rule[2] \in Aliases
    <3> SUFFICES ASSUME NEW m \in defines[rule[2]]
                 PROVE  <<rule[1], m>> \in Names \X Names /\ Follows(<<rule[1], m>>)
      BY <2>7 DEF ExpandOnce
    <3>1. m \in StandsFor(line[2])
      BY <2>2, <2>4, <2>7
    <3>. QED  BY <2>1, <2>2, <2>5, <3>1 DEF Follows
  <2>8. CASE rule[1] \notin Aliases /\ rule[2] \notin Aliases
    BY <2>8 DEF ExpandOnce
  <2>. QED  BY <2>6, <2>7, <2>8
<1>. HIDE DEF G
<1>4. 0 \in S
  OBVIOUS
<1>5. ASSUME NEW k \in Nat, k \in S PROVE k + 1 \in S
  <2> SUFFICES ASSUME k + 1 \in 1..NestingLimit PROVE level[k + 1] \subseteq G
    OBVIOUS
  <2>1. CASE k = 0
    BY <1>1, <1>2, <2>1
  <2>2. CASE k # 0
    <3>1. k \in 1..NestingLimit /\ k \in 1 .. NestingLimit - 1
      BY <2>2, NamesAssumption DEF NamesAssumption
    <3>2. level[k] \subseteq G /\ level[k + 1] = Expanded(level[k])
      BY <1>1, <1>5, <3>1
    <3>. QED  BY <1>3, <3>2 DEF Expanded
  <2>. QED  BY <2>1, <2>2
<1>6. \A k \in 1..NestingLimit : level[k] \subseteq G
  <2>. HIDE DEF S
  <2>1. Nat \subseteq S
    BY <1>4, <1>5, CountingUp
  <2>. QED  BY <2>1 DEF S
<1>. QED  BY <1>6 DEF level, G

\* Unless a define is nested too deeply, the expanded rules are the configured ones.
LEMMA ExpansionIsConfigured ==
    ASSUME NamesAssumption, TypeOK, ~ TooDeep
    PROVE  process_defines = Configured
<1>. DEFINE level == AtLevel
<1>0. NestingLimit \in Nat /\ NestingLimit # 0 /\ Words \cap Aliases = {} /\ lines \subseteq Names \X Names
  BY DEF NamesAssumption, TypeOK
<1>1. /\ level[1] = lines /\ \A k \in 1 .. NestingLimit - 1 : level[k + 1] = Expanded(level[k])
      /\ level[NestingLimit] = {}
  BY LevelsAreExpanded DEF TooDeep
<1>2. \A k \in 1..NestingLimit : level[k] \subseteq {rule \in Names \X Names : Follows(rule)}
  BY LevelsFollow
<1>3. process_defines = {rule \in Pairs : \E k \in 1 .. NestingLimit - 1 : rule \in level[k]}
  BY DEF process_defines
<1>. HIDE DEF level
<1>4. process_defines \subseteq Configured
  <2> SUFFICES ASSUME NEW rule \in Pairs, NEW k \in 1 .. NestingLimit - 1, rule \in level[k]
               PROVE  rule \in Configured
    BY <1>3
  <2>1. Follows(rule)
    BY <1>0, <1>2
  <2>2. PICK line \in lines : rule[1] \in StandsFor(line[1]) /\ rule[2] \in StandsFor(line[2])
    BY <2>1 DEF Follows
  <2>3. rule[1] \in Meaning(line[1]) /\ rule[2] \in Meaning(line[2]) /\ rule = <<rule[1], rule[2]>>
    BY <2>2, MeaningIsWords DEF Pairs
  <2>4. rule \in Meaning(line[1]) \X Meaning(line[2])
    BY <2>3
  <2>. QED  BY <2>4 DEF Configured
<1>5. Configured \subseteq process_defines
  <2> SUFFICES ASSUME NEW line \in lines, NEW w \in Meaning(line[1]), NEW v \in Meaning(line[2])
               PROVE  <<w, v>> \in process_defines
    BY DEF Configured
  <2>0. w \in Words /\ v \in Words /\ w \notin Aliases /\ line[1] \in Names /\ line[2] \in Names
    BY <1>0 DEF Meaning
  <2>1. ASSUME NEW a, NEW d, NEW k \in 1..NestingLimit, <<a, d>> \in level[k]
        PROVE  /\ k \in 1 .. NestingLimit - 1 /\ k + 1 \in 1..NestingLimit
               /\ ExpandOnce(<<a, d>>) \subseteq level[k + 1]
    <3>1. k # NestingLimit
      BY <1>1, <2>1
    <3>2. k \in 1 .. NestingLimit - 1 /\ k + 1 \in 1..NestingLimit
      BY <1>0, <3>1
    <3>3. level[k + 1] = Expanded(level[k])
      BY <1>1, <3>2
    <3>. QED  BY <2>1, <3>2, <3>3 DEF Expanded
  <2>2. \E k \in 1..NestingLimit : <<w, line[2]>> \in level[k]
    <3>. DEFINE T == {m \in Names : \E k \in 1..NestingLimit : <<m, line[2]>> \in level[k]}
    <3>1. line[1] \in T
      <4>1. line = <<line[1], line[2]>> /\ 1 \in 1..NestingLimit
        BY <1>0
      <4>. QED  BY <1>1, <2>0, <4>1
    <3>2. ASSUME NEW a \in T \cap Aliases, NEW m \in defines[a] PROVE m \in T
      <4>1. PICK k \in 1..NestingLimit : <<a, line[2]>> \in level[k]
        OBVIOUS
      <4>2. k + 1 \in 1..NestingLimit /\ ExpandOnce(<<a, line[2]>>) \subseteq level[k + 1]
        BY <2>1, <4>1
      <4>3. ExpandOnce(<<a, line[2]>>) = defines[a] \X {line[2]}
        BY DEF ExpandOnce
      <4>4. m \in Names
        BY DEF TypeOK
      <4>. QED  BY <4>2, <4>3, <4>4
    <3>3. T \in SUBSET Names
      OBVIOUS
    <3>. HIDE DEF T
    <3>4. w \in T
      BY <3>1, <3>2, <3>3 DEF Meaning
    <3>. QED  BY <3>4 DEF T
  <2>3. \E k \in 1..NestingLimit : <<w, v>> \in level[k]
    <3>. DEFINE T == {m \in Names : \E k \in 1..NestingLimit : <<w, m>> \in level[k]}
    <3>1. line[2] \in T
      BY <2>0, <2>2
    <3>2. ASSUME NEW a \in T \cap Aliases, NEW m \in defines[a] PROVE m \in T
      <4>1. PICK k \in 1..NestingLimit : <<w, a>> \in level[k]
        OBVIOUS
      <4>2. k + 1 \in 1..NestingLimit /\ ExpandOnce(<<w, a>>) \subseteq level[k + 1]
        BY <2>1, <4>1
      <4>3. ExpandOnce(<<w, a>>) = {w} \X defines[a]
        BY <2>0 DEF ExpandOnce
      <4>4. m \in Names
        BY DEF TypeOK
      <4>. QED  BY <4>2, <4>3, <4>4
    <3>3. T \in SUBSET Names
      OBVIOUS
    <3>. HIDE DEF T
    <3>4. v \in T
      BY <3>1, <3>2, <3>3 DEF Meaning
    <3>. QED  BY <3>4 DEF T
  <2>4. PICK k \in 1..NestingLimit : <<w, v>> \in level[k]
    BY <2>3
  <2>5. k \in 1 .. NestingLimit - 1
    BY <2>1, <2>4
  <2>. QED  BY <1>3, <2>0, <2>4, <2>5 DEF Pairs
<1>. QED  BY <1>4, <1>5

-----------------------------------------------------------------------------
(* The verdicts.                                                           *)

\* Once the defines are expanded none was nested too deeply, and what has been judged was
\* judged by the derived rules.
JudgedInv ==
    /\ phase \notin Settled => ~ TooDeep
    /\ phase # "ready" => passed \cup errors = {}
    /\ \A include \in passed : Permitted(include)
    /\ \A include \in errors : ~ Permitted(include)

\* Nothing has been judged at first.
LEMMA InitJudged == Init => JudgedInv
BY DEF Init, JudgedInv, Settled

\* Rules no longer change once includes are judged by them.
LEMMA NextJudged ==
    ASSUME JudgedInv, [Next]_vars
    PROVE  JudgedInv'
<1>1. UNCHANGED <<lines, defines>> => (TooDeep' <=> TooDeep)
  BY DEF TooDeep, AtLevel, ExpandOnce
<1>2. UNCHANGED rules => \A include : Permitted(include)' <=> Permitted(include)
  BY DEF Permitted
<1>3. ASSUME UNCHANGED <<lines, defines, passed, errors>>,
             UNCHANGED <<phase, rules>> \/ (phase # "ready" /\ (phase \notin Settled \/ phase' \in Settled))
      PROVE  JudgedInv'
  BY <1>1, <1>2, <1>3 DEF JudgedInv, Settled
<1>4. CASE UNCHANGED vars
  BY <1>3, <1>4 DEF vars
<1>5. CASE ExpandDefines
  <2>1. phase = "config" /\ UNCHANGED <<lines, defines, rules, passed, errors>>
    BY <1>5 DEF ExpandDefines
  <2>2. phase' = "too deep" \/ (phase' = "derive" /\ ~ TooDeep)
    BY <1>5 DEF ExpandDefines
  <2>. QED  BY <1>1, <1>2, <2>1, <2>2 DEF JudgedInv, Settled
<1>6. CASE PickName \/ NameDone \/ LoopDetected \/ PatternsCreated \/ \E dep \in Words : add_rule(dep)
  <2>1. /\ UNCHANGED <<lines, defines, passed, errors>>
        /\ phase \in {"derive", "add"}
    BY <1>6 DEF PickName, NameDone, LoopDetected, PatternsCreated, add_rule
  <2>. QED  BY <1>3, <2>1 DEF Settled
<1>7. ASSUME NEW include, match(include) PROVE JudgedInv'
  <2>1. UNCHANGED <<lines, defines, phase, rules>> /\ phase = "ready"
    BY <1>7 DEF match
  <2>2. \/ Permitted(include) /\ passed' = passed \cup {include} /\ errors' = errors
        \/ ~ Permitted(include) /\ errors' = errors \cup {include} /\ passed' = passed
    BY <1>7 DEF match
  <2>. QED  BY <1>1, <1>2, <2>1, <2>2 DEF JudgedInv
<1>. QED  BY <1>4, <1>5, <1>6, <1>7 DEF Next, Construct

\* A verdict by the derived rules is one by the configuration: the derived rules are the
\* closure of the expanded ones, and these are the configured ones.
LEMMA VerdictsAreRight ==
    ASSUME NamesAssumption, Inv, JudgedInv
    PROVE  VerdictsFollowTheConfiguration
<1>. DEFINE Allowed(include) ==
               \E w \in Words :
                  /\ <<w, include[1]>> \in Covers
                  /\ \E v \in Closure!Reach(Configured, w) :
                       <<v, fixed_dest_dir(include[1], include[2])>> \in Covers
<1>. SUFFICES ASSUME NEW include \in passed \cup errors
              PROVE  include \in passed <=> Allowed(include)
  BY DEF VerdictsFollowTheConfiguration
<1>1. phase = "ready" /\ Pending = {} /\ TypeOK
  BY DEF JudgedInv, Inv
<1>2. process_defines = Configured
  BY <1>1, ExpansionIsConfigured DEF JudgedInv, Settled
<1>3. \A w \in Words : rules[w] = Closure!Reach(Configured, w)
  BY <1>1, <1>2 DEF Inv, DerivedIsClosed, Derived
<1>4. Permitted(include) <=> Allowed(include)
  <2>1. ASSUME Permitted(include) PROVE Allowed(include)
    <3>1. PICK rule \in Pairs : /\ rule[2] \in rules[rule[1]]
                                /\ <<rule[1], include[1]>> \in Covers
                                /\ <<rule[2], fixed_dest_dir(include[1], include[2])>> \in Covers
      BY <2>1, Zenon DEF Permitted
    <3>2. rule[1] \in Words
      BY DEF Pairs
    <3>3. rule[2] \in Closure!Reach(Configured, rule[1])
      BY <1>3, <3>1, <3>2, Zenon
    <3>. QED  BY <3>1, <3>2, <3>3, Zenon
  <2>2. ASSUME Allowed(include) PROVE Permitted(include)
    <3>1. PICK w \in Words :
            /\ <<w, include[1]>> \in Covers
            /\ \E v \in Closure!Reach(Configured, w) :
                 <<v, fixed_dest_dir(include[1], include[2])>> \in Covers
      BY <2>2, Zenon
    <3>2. PICK v \in Closure!Reach(Configured, w) : <<v, fixed_dest_dir(include[1], include[2])>> \in Covers
      BY <3>1, Zenon
    <3>3. v \in Words
      BY ReachIsClosed DEF ReachOf
    <3>4. <<w, v>> \in Pairs /\ <<w, v>>[1] = w /\ <<w, v>>[2] = v
      BY <3>3 DEF Pairs
    <3>5. v \in rules[w]
      BY <1>3, <3>2
    <3>. DEFINE rule == <<w, v>>
    <3>6. rule \in Pairs /\ rule[1] = w /\ rule[2] = v
      BY <3>4
    <3>. HIDE DEF rule
    <3>. QED  BY <3>1, <3>2, <3>5, <3>6, Zenon DEF Permitted
  <2>. QED  BY <2>1, <2>2
<1>5. include \in passed <=> Permitted(include)
  BY DEF JudgedInv
<1>. QED  BY <1>4, <1>5

\* For any configuration, any nesting limit and any directories, an include is reported
\* exactly when no chain of configured rules, read with the meaning of their defines, leads
\* from the directory of the file to the included one (expand_define, process_rules, match).
THEOREM VerdictsAreTheConfigured == Spec => []VerdictsFollowTheConfiguration
<1>1. Inv /\ JudgedInv => VerdictsFollowTheConfiguration
  BY NamesAssumption, VerdictsAreRight
<1>2. Spec => []JudgedInv
  <2>1. JudgedInv /\ [Next]_vars => JudgedInv'
    BY NextJudged
  <2>. QED  BY <2>1, InitJudged, PTL DEF Spec
<1>. QED  BY <1>1, <1>2, DerivationInvariant, PTL
================================================================================
