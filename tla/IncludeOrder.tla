----------------------------- MODULE IncludeOrder -----------------------------
(***************************************************************************)
(* The order of the includes of a file (linters/cpp/                       *)
(* checkProjectStructure.py).  Two includes are compared by a sequence of  *)
(* tests, of which the first that does not tie decides.                    *)
(*                                                                         *)
(* An include is its delimiters, its path, and whether it is external      *)
(* (donna, openssl), a C++ library (boost and others) or a C header.       *)
(***************************************************************************)
EXTENDS Integers, Sequences, SequencesExt

CONSTANT PathOrder  \* path elements in the order of the code points

ASSUME PathOrderAssumption == PathOrder \in Seq(STRING)

\* What the text of an include can say: the tests look for a `<' in front.
Includes ==
    [quote : {"quotes", "brackets"}, path : Seq(ToSet(PathOrder)), external : BOOLEAN,
     cpp : BOOLEAN, cHeader : BOOLEAN]

IsInclude(x) ==
    /\ x \in Includes /\ x.path # <<>>
    /\ x.quote = "quotes" => ~x.external /\ ~x.cpp /\ ~x.cHeader

\* What a test says of a pair: a comes first, b comes first, or neither.
Decide(first, second) == IF first THEN "a" ELSE IF second THEN "b" ELSE "tie"
Prefer(a, b) == Decide(a /\ ~b, b /\ ~a)

check_external_include(a, b) == Prefer(a.external, b.external)
check_cpp_include(a, b) == Prefer(a.cpp, b.cpp)

INCLUDE_PRIORITIES_1LVL ==
    [src |-> 100, mongo |-> 125, zeromq |-> 125, plugins |-> 150, bitxorcore |-> 200,
     bitxor |-> 200, tests |-> 500, test |-> 500]
INCLUDE_PRIORITIES_2LVL == [extended |-> -100, txes |-> -50]

Lookup(table, element, otherwise) ==
    IF element \in DOMAIN table THEN table[element] ELSE otherwise

\* The first path element still has its quote, so `tests' is only looked for behind it; the
\* last one has the other.
LocalPriority(path) ==
    (IF Len(path) > 1 THEN Lookup(INCLUDE_PRIORITIES_1LVL, path[1], 1) ELSE 1)
    + (IF Len(path) > 2 /\ path[1] = "bitxor" THEN Lookup(INCLUDE_PRIORITIES_2LVL, path[2], 0)
       ELSE 0)
    + (IF \E i \in 2 .. Len(path) - 1 : path[i] = "tests" THEN 250 ELSE 0)

check_local_include(a, b) ==
    Decide(LocalPriority(a.path) < LocalPriority(b.path),
           LocalPriority(b.path) < LocalPriority(a.path))

\* Mutation: two elements come before more, but after a single one only at the top.
check_include_depth_Pairs(a, b) ==
    IF Len(a.path) = 2 /\ Len(b.path) # 2 THEN "b"
    ELSE IF Len(b.path) = 2 THEN "b" ELSE Prefer(Len(a.path) = 1, Len(b.path) = 1)

\* A single name comes first, a path of two elements last.
check_include_depth(a, b) ==
    LET single(x) == Len(x.path) = 1
        pair(x) == Len(x.path) = 2
    IN  IF single(a) # single(b) THEN Prefer(single(a), single(b)) ELSE Prefer(pair(b), pair(a))

Rank(element) == CHOOSE i \in DOMAIN PathOrder : PathOrder[i] = element

PathBefore(p, q) ==
    \/ IsStrictPrefix(p, q)
    \/ \E i \in DOMAIN p \cap DOMAIN q :
         SubSeq(p, 1, i - 1) = SubSeq(q, 1, i - 1) /\ Rank(p[i]) < Rank(q[i])

compare_paths(a, b) ==
    LET tests == <<check_external_include(a, b), check_cpp_include(a, b)>> \o
                 (IF a.quote = "quotes" THEN <<check_local_include(a, b), check_include_depth(a, b)>>
                  ELSE <<>>)
        decisive == {i \in DOMAIN tests : tests[i] # "tie"}
    IN  IF decisive = {} THEN PathBefore(a.path, b.path) ELSE tests[Min(decisive)] = "a"

\* Quotes before angle brackets; C headers are the last of these.
__lt__(a, b) ==
    LET c(x) == x.cHeader /\ ~x.cpp
    IN  IF a.quote # b.quote THEN a.quote = "quotes"
        ELSE IF a.quote = "brackets" /\ c(a) # c(b) THEN c(b)
        ELSE compare_paths(a, b)

\* An element goes before the first that it is less than.
Inserted(sorted, x) ==
    LET behind == {i \in DOMAIN sorted : __lt__(x, sorted[i])}
    IN  InsertAt(sorted, IF behind = {} THEN Len(sorted) + 1 ELSE Min(behind), x)

\* The first elements of a list in order, for each number of them.
SortedFirst(includes) ==
    LET sorted[i \in 0 .. Len(includes)] ==
            IF i = 0 THEN <<>> ELSE Inserted(sorted[i - 1], includes[i])
    IN  sorted

sort(includes) == SortedFirst(includes)[Len(includes)]

-----------------------------------------------------------------------------
\* An include of a header of the file's own directory loses its path.
fix_relative(own, include) ==
    IF Len(include.path) = Len(own) + 1 /\ IsPrefix(own, include.path)
    THEN [include EXCEPT !.path = <<Last(@)>>]
    ELSE include

\* The order that is asked for: sorted, the header of the source file itself first.
ProperOrder(file, includes) ==
    LET sorted == sort([i \in DOMAIN includes |-> fix_relative(file.directory, includes[i])])
        at == SelectInSeq(sorted, LAMBDA x : <<x.quote, x.path>> = file.firstInclude)
    IN  IF file.isHeader \/ at = 0 THEN sorted
        ELSE <<sorted[at]>> \o SubSeq(sorted, 1, at - 1) \o SubSeq(sorted, at + 1, Len(sorted))

\* A source file without includes has none to be the first.
IncludesRaise(file, includes) == ~file.isHeader /\ includes = <<>>

IncludeReports(file, includes) ==
    (IF ~file.isHeader /\ file.firstInclude # <<includes[1].quote, includes[1].path>>
     THEN {[group |-> "firstInclude", line |-> 0]} ELSE {})
    \cup (IF includes # ProperOrder(file, includes)
          THEN {[group |-> "includesOrder", line |-> 0]} ELSE {})
=============================================================================
