----------------------------- MODULE DepsChecker -----------------------------
(***************************************************************************)
(* The dependency checker of the C++ linter (linters/cpp/DepsChecker.py).  *)
(* The configuration holds defines, a name that stands for a set of names, *)
(* and rules, one name may include another.  The checker expands the       *)
(* defines, derives the rules that follow by transitivity, and then judges *)
(* the includes of the project, one directory including from another.      *)
(*                                                                         *)
(* A word is a name that is no define.  A word is a regular expression     *)
(* over directories: Covers says which directories it matches.             *)
(***************************************************************************)
EXTENDS Naturals, Sequences

CONSTANTS
    Words,         \* names of rules that are no defines
    Aliases,       \* names of defines
    Lines,         \* the rules a configuration may hold, pairs of names
    NestingLimit,  \* 5, the level at which expand_define gives up
    Includes,      \* the includes of the project: the directory of the file and the
                   \* directory it names, each a sequence of path elements
    Root,          \* the directory `bitxorcore'
    Covers         \* the pairs of a word and a directory it matches

Names == Words \cup Aliases
Pairs == Words \X Words

ASSUME NamesAssumption ==
    /\ Words \cap Aliases = {}
    /\ Lines \subseteq Names \X Names
    /\ NestingLimit \in Nat \ {0}
    /\ Words # {}

VARIABLES
    lines,             \* self.lines, the rules read from the configuration
    defines,           \* self.defines
    phase,             \* where the constructor stands, "ready" when it returned
    transitive_rules,  \* direct rules of the names not derived yet
    rules,             \* derived rules
    name,              \* the name whose rules are being derived
    left,              \* its direct dependencies not added yet
    passed,            \* history: includes that were judged allowed
    errors             \* includes that were reported

vars == <<lines, defines, phase, transitive_rules, rules, name, left, passed, errors>>

Pending == DOMAIN transitive_rules
Verdicts == {"ready", "too deep", "loop"}

-----------------------------------------------------------------------------
\* Mutation: the destination is expanded for plain sources only at the first level.
ExpandOnce_SourceOnly(rule) ==
    IF rule[1] \in Aliases THEN defines[rule[1]] \X {rule[2]} ELSE {}

\* What expand_define makes of a rule at one level: the source is expanded first.
ExpandOnce(rule) ==
    IF rule[1] \in Aliases THEN defines[rule[1]] \X {rule[2]}
    ELSE IF rule[2] \in Aliases THEN {rule[1]} \X defines[rule[2]]
    ELSE {}

\* The rules expand_define is called with, by level.
AtLevel[level \in 1 .. NestingLimit] ==
    IF level = 1 THEN lines ELSE UNION {ExpandOnce(rule) : rule \in AtLevel[level - 1]}

TooDeep == AtLevel[NestingLimit] # {}

process_defines ==
    {rule \in Pairs : \E level \in 1 .. NestingLimit - 1 : rule \in AtLevel[level]}

DirectFrom(n) == {m \in Words : <<n, m>> \in process_defines}

Init ==
    /\ lines \in SUBSET Lines
    /\ defines \in [Aliases -> SUBSET Names]
    /\ phase = "config"
    /\ transitive_rules = <<>>
    /\ rules = [n \in Words |-> {}]
    /\ name = CHOOSE n \in Words : TRUE
    /\ left = {}
    /\ passed = {} /\ errors = {}

ExpandDefines ==
    /\ phase = "config"
    /\ IF TooDeep
       THEN phase' = "too deep" /\ UNCHANGED transitive_rules
       ELSE /\ phase' = "derive"
            /\ transitive_rules' =
                 [n \in {w \in Words : DirectFrom(w) # {}} |-> DirectFrom(n)]
    /\ UNCHANGED <<lines, defines, rules, name, left, passed, errors>>

\* Mutation: a name may wait for itself.
is_self_contained_ButItself(n) == transitive_rules[n] \cap Pending \subseteq {n}

is_self_contained(n) == transitive_rules[n] \cap Pending = {}

\* The first name in the order of the configuration none of whose dependencies waits.
PickName ==
    /\ phase = "derive"
    /\ \E n \in Pending :
         /\ is_self_contained(n)
         /\ name' = n /\ left' = transitive_rules[n]
    /\ phase' = "add"
    /\ UNCHANGED <<lines, defines, transitive_rules, rules, passed, errors>>

\* Mutation: what a dependency depends on is not taken over.
Added_Direct(dep) == {dep}

Added(dep) == {dep} \cup rules[dep]

add_rule(dep) ==
    /\ phase = "add" /\ dep \in left
    /\ rules' = [rules EXCEPT ![name] = @ \cup Added(dep)]
    /\ left' = left \ {dep}
    /\ UNCHANGED <<lines, defines, phase, transitive_rules, name, passed, errors>>

\* Mutation: a derived name keeps waiting.
NameDone_Kept ==
    /\ phase = "add" /\ left = {}
    /\ phase' = "derive"
    /\ UNCHANGED <<lines, defines, transitive_rules, rules, name, left, passed, errors>>

NameDone ==
    /\ phase = "add" /\ left = {}
    /\ transitive_rules' = [n \in Pending \ {name} |-> transitive_rules[n]]
    /\ phase' = "derive"
    /\ UNCHANGED <<lines, defines, rules, name, left, passed, errors>>

LoopDetected ==
    /\ phase = "derive" /\ Pending # {}
    /\ \A n \in Pending : ~is_self_contained(n)
    /\ phase' = "loop"
    /\ UNCHANGED <<lines, defines, transitive_rules, rules, name, left, passed, errors>>

PatternsCreated ==
    /\ phase = "derive" /\ Pending = {}
    /\ phase' = "ready"
    /\ UNCHANGED <<lines, defines, transitive_rules, rules, name, left, passed, errors>>

\* An include of a single directory, other than the root, is below the includer.
fixed_dest_dir(src, dest) == IF Len(dest) = 1 /\ dest # Root THEN src \o dest ELSE dest

Permitted(include) ==
    \E rule \in Pairs :
        /\ rule[2] \in rules[rule[1]]
        /\ <<rule[1], include[1]>> \in Covers
        /\ <<rule[2], fixed_dest_dir(include[1], include[2])>> \in Covers

match(include) ==
    /\ phase = "ready"
    /\ IF Permitted(include)
       THEN passed' = passed \cup {include} /\ UNCHANGED errors
       ELSE errors' = errors \cup {include} /\ UNCHANGED passed
    /\ UNCHANGED <<lines, defines, phase, transitive_rules, rules, name, left>>

Construct ==
    \/ ExpandDefines \/ PickName \/ NameDone \/ LoopDetected \/ PatternsCreated
    \/ \E dep \in Words : add_rule(dep)

Next == Construct \/ \E include \in Includes : match(include)

Spec == Init /\ [][Next]_vars

\* The constructor runs in one thread and waits for nothing.
FairSpec == Spec /\ WF_vars(Construct)

-----------------------------------------------------------------------------
TypeOK ==
    /\ lines \in SUBSET Lines
    /\ defines \in [Aliases -> SUBSET Names]
    /\ phase \in {"config", "derive", "add"} \cup Verdicts
    /\ Pending \subseteq Words
    /\ transitive_rules \in [Pending -> SUBSET Words]
    /\ rules \in [Words -> SUBSET Words]
    /\ name \in Words /\ left \subseteq Words
    /\ passed \subseteq Includes /\ errors \subseteq Includes

\* The abstract specification: a name is derived when its row is complete.
Derived == {n \in Words : phase \notin {"config", "too deep"} /\ n \notin Pending}

Closure == INSTANCE DependencyClosure WITH
    direct <- process_defines,
    allowed <- {pair \in Pairs : pair[1] \in Derived /\ pair[2] \in rules[pair[1]]},
    outcome <- CASE phase = "ready" -> "published" [] phase = "loop" -> "loop"
                 [] OTHER -> "open"

\* Every step of process_rules is a step of the abstract specification or none: rows
\* appear complete, are published only without a cycle, and a loop is reported only
\* when the expanded rules have one.
DerivesTheClosure == Closure!Spec

\* The state of the derivation in terms of the configuration: what waits has its direct
\* rules, a derived name has its closure, the name at work has what its handled
\* dependencies lead to, and names on a cycle keep waiting.  It is inductive.
WaitingIsDirect ==
    phase \notin {"config", "too deep"} =>
        \A n \in Pending : transitive_rules[n] = DirectFrom(n)
DerivedIsClosed ==
    \A n \in Derived : rules[n] = Closure!Reach(process_defines, n)
AtWork ==
    phase = "add" =>
        /\ name \in Pending /\ left \subseteq DirectFrom(name)
        /\ DirectFrom(name) \cap Pending = {}
        /\ rules[name] = UNION {Added(dep) : dep \in DirectFrom(name) \ left}
WaitingIsEmpty ==
    \A n \in Words : n \notin Derived /\ (phase = "add" => n # name) => rules[n] = {}
CyclesWait ==
    phase \notin {"config", "too deep"} =>
        \A S \in SUBSET Words : Closure!IsCyclic(process_defines, S) => S \subseteq Pending

Inv ==
    /\ TypeOK /\ WaitingIsDirect /\ DerivedIsClosed /\ AtWork /\ WaitingIsEmpty
    /\ CyclesWait
    /\ phase = "loop" => Closure!HasCycle(process_defines)
    /\ phase = "ready" => Pending = {}

\* The constructor always returns or raises: process_rules restarts its search after
\* every name and leaves when none is left or none can be derived.
ConstructorEnds == <>(phase \in Verdicts)

\* The words a name of the configuration stands for, through any nesting of defines.
Meaning(n) ==
    {w \in Words : \A S \in SUBSET Names :
        n \in S /\ (\A a \in S \cap Aliases : defines[a] \subseteq S) => w \in S}

Configured == UNION {Meaning(line[1]) \X Meaning(line[2]) : line \in lines}

\* An include is reported exactly when no chain of configured rules, read with the
\* meaning of their defines, leads from the directory of the file to the included one.
VerdictsFollowTheConfiguration ==
    \A include \in passed \cup errors :
        include \in passed <=>
            \E w \in Words :
                /\ <<w, include[1]>> \in Covers
                /\ \E v \in Closure!Reach(Configured, w) :
                     <<v, fixed_dest_dir(include[1], include[2])>> \in Covers
=============================================================================
