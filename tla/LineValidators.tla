---------------------------- MODULE LineValidators ----------------------------
(***************************************************************************)
(* The validators of the C++ linter that read a file line by line          *)
(* (linters/cpp/validation.py).  One object of each kind serves all files  *)
(* of a run.  Most are reset per file; seven of them are not.              *)
(*                                                                         *)
(* A line is a record: its indent, its tokens, the marks, which say what   *)
(* the regular expressions and comparisons of the validators find in it,   *)
(* the faults, the validators without a memory that object to it, and the  *)
(* include of the line, a sequence of at most one.                         *)
(* The state of all validators is one record v.  ValidatorReports gives    *)
(* what they report of line n, ValidatorsStep their state after it.        *)
(***************************************************************************)
EXTENDS Integers, Sequences, SequencesExt, Tables

CONSTANTS
    BlockLimit,     \* a call whose lines have fewer tokens fits in a line (140 columns)
    CopyrightLines  \* 20, the lines of the copyright comment

Empty == [indent |-> 0, toks |-> <<>>, marks |-> {"empty"}, faults |-> {}, include |-> <<>>]

Is(line, mark) == mark \in line.marks
Occurrences(line, tok) == Len(SelectSeq(line.toks, LAMBDA t : t = tok))
When(condition, group, n) == IF condition THEN {[group |-> group, line |-> n]} ELSE {}

\* The fields that reset assigns, one row for each validator.
PerFile(isHeader) ==
    [carriageReturns |-> FALSE,
     testClass |-> 0, mismatched |-> FALSE,
     numOpen |-> 0, firstLine |-> 0, long |-> 0,
     pragma |-> IF isHeader THEN "unseen" ELSE "seen", license |-> FALSE, comment |-> 0,
     emptyLine |-> 0, emptyError |-> IF isHeader THEN "undecided" ELSE "no",
     counter |-> 0, region |-> 0, topRegion |-> 0, regionErrors |-> {},
     recent |-> <<Empty, Empty>>,
     copyright |-> TRUE, last |-> 0]

\* The fields that are set when the validators are created, and never again.
PerRun ==
    [previous |-> Empty, unclosed |-> FALSE, insertion |-> Empty,
     parens |-> 0, angles |-> 0, ctorLine |-> 0, args |-> <<>>]

NewValidators == Over(PerFile(FALSE), PerRun)

\* Mutation: the regions of a file are not forgotten.
reset_KeepsRegions(v, isHeader) == Over([PerFile(isHeader) EXCEPT !.counter = v.counter], v)

reset(v, isHeader) == Over(PerFile(isHeader), v)

-----------------------------------------------------------------------------
\* WhitespaceLineValidator and TestClassMacroValidator: the pattern of the latter asks
\* for two spaces after TEST_CLASS and takes the second one for the name of the class.
TestClassReports(v, n, line) ==
    When(/\ v.testClass # 0 /\ v.testClass + 1 = n
         /\ ~Is(line, "empty") /\ ~Is(line, "TEST_CLASS  "), "testClassMacro", v.testClass)

TestClassStep(v, n, line) ==
    [v EXCEPT !.carriageReturns = @ \/ Is(line, "CR"),
              !.testClass = IF Is(line, "TEST_CLASS  ") THEN n ELSE @,
              !.mismatched = @ \/ Is(line, "TEST_CLASS  ")]

\* SingleLineValidator: a call that opens at the end of a line is followed until its
\* parentheses balance, a comment comes, or a line that looks like a lambda.
EndsBlock(line) ==
    \/ Is(line, "comment")
    \/ Occurrences(line, "{") > 0 /\ Occurrences(line, "[") + Occurrences(line, "]") > 1

OpenAfter(v, line) == v.numOpen + Occurrences(line, "(") - Occurrences(line, ")")

SingleLineReports(v, n, line) ==
    When(/\ v.numOpen # 0 /\ ~EndsBlock(line)
         /\ OpenAfter(v, line) <= 0 /\ v.long + Len(line.toks) < BlockLimit,
         "singleLine", v.firstLine)

SingleLineStep(v, n, line) ==
    IF v.numOpen # 0 /\ EndsBlock(line) THEN [v EXCEPT !.numOpen = 0]
    ELSE IF Is(line, "ends (")
    THEN [v EXCEPT !.numOpen = 1, !.firstLine = n, !.long = Len(line.toks)]
    ELSE IF v.numOpen # 0
    THEN [v EXCEPT !.numOpen = OpenAfter(v, line), !.long = @ + Len(line.toks)]
    ELSE v

\* PragmaOnceValidator: 1 inside the copyright comment, 2 on the line after it.  The
\* pragma itself starts with # and decides that no empty line is to be reported.
PragmaOnceStep(v, n, line) ==
    LET inside == IF Is(line, "starts /**") THEN 1 ELSE v.comment
        licensed == [v EXCEPT !.license = @ \/ Is(line, "starts /**"), !.comment = inside]
        undecided == v.emptyError = "undecided"
    IN  IF inside = 1 THEN [licensed EXCEPT !.comment = IF Is(line, "**/") THEN 2 ELSE 1]
        ELSE IF inside = 2 THEN [licensed EXCEPT !.comment = 3]
        ELSE [v EXCEPT
                 !.emptyError =
                     IF ~undecided THEN @
                     ELSE IF Is(line, "#include") /\ v.emptyLine > 0 THEN "yes"
                     ELSE IF Is(line, "#") THEN "no" ELSE @,
                 !.emptyLine = IF v.pragma = "seen" /\ Is(line, "empty") THEN n ELSE @,
                 !.pragma = IF @ # "unseen" THEN @
                            ELSE IF Is(line, "#pragma once") THEN "seen" ELSE "missing"]

\* RegionValidator: errors are kept until the end, where a region that is still open
\* is reported instead of them.
RegionReports(v, n, line) == When(Is(line, "misspelt region"), "regionValidator", n)

RegionStep(v, n, line) ==
    IF Is(line, "region")
    THEN [v EXCEPT !.regionErrors = IF v.counter > 0 THEN @ \cup {n} ELSE @,
                   !.topRegion = IF v.counter > 0 /\ @ = 0 THEN v.region ELSE @,
                   !.region = n, !.counter = @ + 1]
    ELSE IF Is(line, "endregion")
    THEN [v EXCEPT !.regionErrors = IF v.counter = 0 THEN @ \cup {n} ELSE @,
                   !.counter = @ - 1]
    ELSE v

RegionFinalize(v) ==
    IF v.counter > 0
    THEN When(TRUE, "regionValidator", IF v.topRegion # 0 THEN v.topRegion ELSE v.region)
    ELSE UNION {When(TRUE, "regionValidator", n) : n \in v.regionErrors}

\* ClosingBraceVerticalSpacingValidator and NamespaceOpeningBraceVerticalSpacingValidator
\* look at the last two lines and the current one.
ClosingBraceReports(v, n, line) ==
    LET before == v.recent[1]
        middle == v.recent[2]
    IN  When(/\ Is(middle, "is }") /\ ~Is(line, "empty") /\ ~Is(line, "may follow }"),
             "closingBrace", n)
        \cup
        When(/\ Is(line, "is }") /\ Is(before, "is }")
             /\ Is(middle, "empty") \/ ~Is(middle, "may follow }"), "closingBrace", n - 1)

NamespaceOpeningReports(v, n, line) ==
    LET opening == v.recent[2]
        outer == Is(opening, "opens namespace") /\ opening.indent = 0
        inner == \/ Is(opening, "opens namespace") /\ opening.indent > 0
                 \/ Is(opening, "opens anonymous namespace")
    IN  When(outer /\ line.marks \cap {"empty", "opens namespace", "forward"} = {},
             "namespaceOpeningBrace", n - 1)
        \cup When(inner /\ Is(line, "empty"), "namespaceOpeningBrace", n - 1)

CopyrightReports(v, n, line) ==
    When(n = CopyrightLines /\ ~(v.copyright /\ Is(line, "copyright")), "copyrightComment", 1)

RecentStep(v, n, line) ==
    [v EXCEPT !.recent = <<v.recent[2], line>>,
              !.copyright = IF n <= CopyrightLines THEN @ /\ Is(line, "copyright") ELSE @,
              !.last = n]

-----------------------------------------------------------------------------
\* The validators without a reset.  Five keep the last line they have seen, of any file.
PreviousLineReports(v, n, line) ==
    LET previous == v.previous
        continued == Is(previous, "starts : or ,") \/ Is(line, "starts : or ,")
    IN  When(Is(previous, "ENUM_VALUE") /\ ~Is(line, "starts \\"), "enumValueBlankLine", n - 1)
        \cup When(Is(previous, "ends ,") /\ Is(line, "starts closing"), "trailingComma", n - 1)
        \cup When(Is(line, "ends {}") /\ ~Is(line, "is {}")
                    /\ ~Is(line, "starts virtual ~ or while"), "emptyStatement", n)
        \cup When(Is(line, "ends {};") /\ (continued <=> ~Is(line, "is {};")),
                  "emptyStatement", n)
        \cup When(/\ v.unclosed /\ ~Is(line, "ends {")
                  /\ Is(line, "is };") \/ Is(line, "is }"), "emptyStatement", n)
        \cup When(Is(line, "starts ///") /\
                    previous.marks \cap {"empty", "starts ///", "#", "ends {", "ends :"} = {},
                  "documentationVerticalSpacing", n)
        \cup When(Is(previous, "TEST(") /\ Is(line, "assert comment"),
                  "testFirstLineComment", n)

\* Mutation: a brace stays open until a line ends with another one.
PreviousLineStep_StaysOpen(v, n, line) ==
    [v EXCEPT !.previous = line, !.unclosed = @ \/ Is(line, "ends {")]

PreviousLineStep(v, n, line) == [v EXCEPT !.previous = line, !.unclosed = Is(line, "ends {")]

\* InsertionOperatorFormattingValidator: within a chain of lines that start with <<, the
\* line it remembers is the first one of the chain.
InsertionReports(v, n, line) ==
    LET previous == v.insertion
        starts == Is(line, "starts <<")
    IN  When(starts /\ Is(line, "ends open_array") /\ Is(previous, "ends \""),
             "insertionOperator", n)
        \cup When(starts /\ Is(previous, "has <<") /\ ~Is(previous, "starts <<"),
                  "insertionOperator", n - 1)

InsertionStep(v, n, line) ==
    [v EXCEPT !.insertion = IF Is(line, "starts <<") /\ Is(@, "starts <<") THEN @ ELSE line]

\* ExplicitCtorValidator: the arguments of an explicit constructor are collected up to its
\* closing parenthesis, outside of angle brackets.  The latter are counted as they come,
\* those of -> and of a comparison too, and the count is never reset.
CtorToken(c, tok) ==
    LET angles == CASE tok = "<" -> c.angles + 1 [] tok = ">" -> c.angles - 1
                    [] OTHER -> c.angles
    IN  IF c.closed THEN c
        ELSE CASE tok = "(" -> [c EXCEPT !.parens = @ + 1]
               [] tok = ")" -> [c EXCEPT !.parens = @ - 1, !.closed = c.parens = 1]
               [] OTHER -> [c EXCEPT !.angles = angles,
                                     !.args = IF angles = 0 /\ c.parens # 0
                                              THEN Append(@, tok) ELSE @]

InCtor(v, line) == v.parens # 0 \/ Is(line, "explicit ctor")

CtorAfter(v, line) ==
    FoldLeft(CtorToken,
             [parens |-> v.parens, angles |-> v.angles, args |-> v.args, closed |-> FALSE],
             line.toks)

\* Several arguments, the second one without a default.
IsMultiArg(args) ==
    LET commas == {i \in DOMAIN args : args[i] = ","}
        second == {args[j] : j \in {k \in DOMAIN args :
                     Cardinality({i \in commas : i < k}) = 1 /\ k \notin commas}}
    IN  commas # {} /\ second \cap {"=", "..."} = {}

ExplicitCtorReports(v, n, line) ==
    LET c == CtorAfter(v, line)
        first == IF v.parens = 0 THEN n ELSE v.ctorLine
    IN  When(InCtor(v, line) /\ c.closed /\ (c.args = <<>> \/ IsMultiArg(c.args)),
             "explicitCtor", first)

ExplicitCtorStep(v, n, line) ==
    LET c == CtorAfter(v, line)
    IN  IF ~InCtor(v, line) THEN v
        ELSE [v EXCEPT !.ctorLine = IF v.parens = 0 THEN n ELSE @,
                       !.parens = c.parens, !.angles = c.angles,
                       !.args = IF c.closed THEN <<>> ELSE c.args]

-----------------------------------------------------------------------------
ValidatorReports(v, n, line) ==
    {[group |-> g, line |-> n] : g \in line.faults}
    \cup TestClassReports(v, n, line) \cup SingleLineReports(v, n, line)
    \cup RegionReports(v, n, line) \cup ClosingBraceReports(v, n, line)
    \cup NamespaceOpeningReports(v, n, line) \cup CopyrightReports(v, n, line)
    \cup PreviousLineReports(v, n, line) \cup InsertionReports(v, n, line)
    \cup ExplicitCtorReports(v, n, line)

\* The validators have no fields in common, so the order of their steps is immaterial.
ValidatorsStep(v, n, line) ==
    LET v1 == SingleLineStep(TestClassStep(v, n, line), n, line)
        v2 == RegionStep(PragmaOnceStep(v1, n, line), n, line)
        v3 == PreviousLineStep(RecentStep(v2, n, line), n, line)
    IN  ExplicitCtorStep(InsertionStep(v3, n, line), n, line)

finalize(v) ==
    When(v.carriageReturns, "whitespaceLines", 0)
    \cup When(v.mismatched, "testClassMacro", 0)
    \cup When(~v.license, "pragmaErrors", 0)
    \cup When(v.pragma # "seen", "pragmaErrors", 0)
    \cup When(v.emptyError = "yes", "pragmaErrors", v.emptyLine)
    \cup RegionFinalize(v)
    \cup When(v.last < CopyrightLines, "copyrightComment", 1)
=============================================================================
