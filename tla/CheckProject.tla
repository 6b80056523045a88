----------------------------- MODULE CheckProject -----------------------------
(***************************************************************************)
(* A run of the C++ linter (linters/cpp/checkProjectStructure.py) over the *)
(* files of a source directory: every file is read once line by line and   *)
(* once token by token, the validators live on from file to file, and the  *)
(* exit code counts what was found.                                        *)
(*                                                                         *)
(* A file is a record: its lines; isHeader; skipped (SKIP_FILES), isTest   *)
(* (in a tests directory); exempt, the reports that are filtered for it;   *)
(* skipForwards and falsePositive, its exclusions from the order of        *)
(* forward declarations and from the namespace check; hits, the exclusions *)
(* it matches; namespace, the one its path asks for; directory and         *)
(* firstInclude, for its includes; crossIncludes, whether it includes      *)
(* other components; badIncludes, how many of its includes the dependency  *)
(* checker rejects; declares, what it is made of if it is written as the   *)
(* namespace parser expects.                                               *)
(***************************************************************************)
EXTENDS HeaderParser, ForwardsValidator, NamespaceText, IncludeOrder

CONSTANTS
    Projects,    \* the sequences of files
    AllOptions,  \* records: text, fixIndents, deps (printing only), checkDeps
    Exclusions,  \* the exclusion patterns of the source directory
    TextPrefixes, \* pairs of names of which the first is a proper prefix of the second
    ExitCodes    \* 256: the exit code of a process is a number below

\* The reports of validators without a memory.
LineFaults ==
    {"whitespaceLines", "tooLongLines", "templateFollowedBySpace",
     "catchAndClosingTryBraceOnSeparateLines", "nameTypo", "functionAlias", "spaceBrace",
     "returnOnNewLine", "multiConditionChecker", "cpp17Traits", "utilsSubdir",
     "stressTestName", "macroSemicolonChecker"}

IsList(s) == Len(s) \in Nat /\ DOMAIN s = 1 .. Len(s)

\* Lines as the expressions of the validators can find them: a line opens or closes one
\* region at most.
IsLine(line) ==
    /\ line.indent \in Nat /\ line.faults \in SUBSET LineFaults /\ line.toks \in Seq(STRING)
    /\ line.include \in Seq(Includes)
    /\ Cardinality(line.marks \cap {"region", "endregion", "misspelt region"}) <= 1

\* Includes are texts: those with the same delimiter and path are the same.  No library is in
\* the file's own directory.
AreIncludesOf(f, includes) ==
    /\ \A x \in includes : IsInclude(x) /\ (x.quote = "brackets" => fix_relative(f.directory, x) = x)
    /\ \A x, y \in includes : x.quote = y.quote /\ x.path = y.path => x = y

IncludesOf(f) == UNION {ToSet(f.lines[n].include) : n \in DOMAIN f.lines}

IsFile(f) ==
    /\ IsList(f.lines) /\ \A n \in DOMAIN f.lines : IsLine(f.lines[n])
    /\ IsList(f.directory) /\ AreIncludesOf(f, IncludesOf(f))
    /\ f.exempt \subseteq {"emptyNearEnd", "tooLongLines"}
    /\ f.hits \subseteq Exclusions /\ f.badIncludes \in Nat
    /\ f.declares # <<>> =>
         /\ IsText(f.declares[1])
         /\ TextOfPieces(f.declares[1]) = Joined([n \in DOMAIN f.lines |-> f.lines[n].toks])

ASSUME ProjectsAssumption ==
    /\ \A files \in Projects : IsList(files) /\ \A i \in DOMAIN files : IsFile(files[i])
    /\ IsFiniteSet(Exclusions) /\ ExitCodes \in Nat

VARIABLES
    options, project,
    phase, at, pos,       \* what is done, in which file, lines read of it
    validators, forwards, header, parser,
    context,              \* the reports
    present,              \* the exclusions that were hit
    entries,              \* what is known of the files that were parsed
    failures, code,       \* reported failures so far, the exit code
    twin, carried         \* history: validators that are new for each file, and the
                          \* lines of which they would have reported something else

vars == <<options, project, phase, at, pos, validators, forwards, header, parser, context,
          present, entries, failures, code, twin, carried>>
scan == <<validators, forwards, header, twin, carried>>

file == project[at]
Lines == file.lines

\* FilteredReporter drops what a file is exempt from.
Reports(found) ==
    {[path |-> at, group |-> r.group, line |-> r.line] :
        r \in {r \in found : r.group \notin file.exempt}}

Init ==
    /\ options \in AllOptions /\ project \in Projects
    /\ phase = "walk" /\ at = 0 /\ pos = 0
    /\ validators = NewValidators /\ twin = NewValidators /\ carried = {}
    /\ forwards = NewForwards /\ header = NewHeader /\ parser = NewParser
    /\ context = {} /\ present = {} /\ entries = <<>>
    /\ failures = 0 /\ code = -1

\* An exception, or quit: nothing is printed.
Abort ==
    /\ phase' = "exited" /\ code' = 1
    /\ UNCHANGED <<options, project, at, pos, parser, context, present, entries, failures, scan>>

Ignored(f) == f.skipped \/ (options.deps /\ f.isTest)

NextFile ==
    /\ phase = "walk" /\ at < Len(project)
    /\ at' = at + 1
    /\ present' = present \cup project[at + 1].hits
    /\ IF Ignored(project[at + 1]) THEN UNCHANGED <<phase, pos, scan>>
       ELSE /\ phase' = "lines" /\ pos' = 0
            /\ validators' = reset(validators, project[at + 1].isHeader)
            /\ twin' = reset(NewValidators, project[at + 1].isHeader)
            /\ forwards' = NewForwards /\ header' = NewHeader
            /\ UNCHANGED carried
    /\ UNCHANGED <<options, project, parser, context, entries, failures, code>>

ReadLine ==
    /\ phase = "lines" /\ pos < Len(Lines)
    /\ LET n == pos + 1
           line == Lines[n]
           reported == ValidatorReports(validators, n, line)
           alone == ValidatorReports(twin, n, line)
       IN  IF ForwardsStep(forwards, n, line).raised \/ HeaderStep(header, n, line).raised
           THEN Abort
           ELSE /\ pos' = n
                /\ validators' = ValidatorsStep(validators, n, line)
                /\ forwards' = ForwardsStep(forwards, n, line)
                /\ header' = HeaderStep(header, n, line)
                /\ context' = context \cup Reports(reported \cup HeaderReports(header, n, line))
                /\ twin' = ValidatorsStep(twin, n, line)
                /\ carried' = carried \cup
                       {[group |-> r.group, at |-> n] :
                           r \in (reported \ alone) \cup (alone \ reported)}
                /\ UNCHANGED <<options, project, phase, at, parser, present, entries, failures,
                               code>>

FileRead ==
    /\ phase = "lines" /\ pos = Len(Lines)
    /\ IF \/ HeaderEndRaises(header, pos)
          \/ options.fixIndents /\ header.fixes # <<>>
          \/ IncludesRaise(file, header.includes)
       THEN Abort
       ELSE /\ phase' = "tokens" /\ pos' = 0 /\ parser' = NewParser
            /\ context' = context \cup
                   Reports(HeaderEndReports(header, pos) \cup finalize(validators)
                           \cup ForwardsReports(forwards, file.skipForwards)
                           \cup report_indents(header)
                           \cup IncludeReports(file, header.includes)
                           \cup When(file.crossIncludes, "cross_includes", 0))
            /\ UNCHANGED <<options, project, at, present, entries, failures, code, scan>>

ParseLine ==
    /\ phase = "tokens" /\ pos < Len(Lines)
    /\ LET p == ParserAfter(parser, Lines[pos + 1].toks)[Len(Lines[pos + 1].toks)]
       IN  IF p.end # "running" THEN Abort
           ELSE /\ parser' = p /\ pos' = pos + 1
                /\ UNCHANGED <<options, project, phase, at, context, present, entries, failures,
                               code, scan>>

-----------------------------------------------------------------------------
\* The namespace of a file.
namespace_filter(ns) ==
    /\ ns.name \notin FilteredNamespaces
    /\ "forward" \in ns.had => ns.had \cap {"class", "func", "using", "test"} # {}
    /\ ns.had # {}

StartsWith(name, prefix) ==
    LET n == Len(prefix)
    IN  /\ n <= Len(name)
        /\ Front(prefix) = SubSeq(name, 1, n - 1)
        /\ name[n] = Last(prefix) \/ <<Last(prefix), name[n]>> \in TextPrefixes

\* The shortest namespace stands for the others if its text is the start of theirs.  Of
\* several shortest ones, the one that the set yields first is taken.  (The code looks for
\* one with fewer than 100 parts.)
get_shortest_namespace_set(namespaces) ==
    LET names == {ns.name : ns \in {ns \in namespaces : namespace_filter(ns)}}
        shortest == {x \in names : \A y \in names : Len(x) <= Len(y)}
    IN  IF names = {} THEN {{}}
        ELSE {IF \A y \in names : StartsWith(y, x) THEN {x} ELSE names : x \in shortest}

FileParsed ==
    /\ phase = "tokens" /\ pos = Len(Lines)
    /\ LET p == ParserEnd(parser)
       IN  IF p.end # "read" THEN Abort
           ELSE \E candidates \in get_shortest_namespace_set(p.namespaces) :
                  /\ entries' = Append(entries, [file |-> at, namespaces |-> candidates,
                                                 templateErrors |-> p.templateErrors])
                  /\ context' = context \cup Reports(
                         When("preprocessorOther" \in p.errors, "preprocessorOther", 0) \cup
                         When("anonNamespace" \in p.errors /\ file.isHeader, "anonNamespace", 0))
                  /\ parser' = p /\ phase' = "walk"
                  /\ UNCHANGED <<options, project, at, pos, present, failures, code, scan>>

check(entry) ==
    LET f == project[entry.file]
        found == entry.namespaces
    IN  IF f.falsePositive THEN "SUCCESS"
        ELSE CASE found = {} -> "EMPTY"
               [] Cardinality(found) > 1 -> "MULTIPLE"
               [] found = {f.namespace} -> "SUCCESS"
               [] Cardinality(found) = 1 /\ found # {f.namespace} -> "INVALID"

-----------------------------------------------------------------------------
\* The time per file is printed, which divides by zero without a file.
WalkDone ==
    /\ phase = "walk" /\ at = Len(project)
    /\ IF project = <<>> THEN Abort
       ELSE /\ phase' = "formatting"
            /\ UNCHANGED <<options, project, at, pos, parser, context, present, entries,
                           failures, code, scan>>

\* The sum of the first numbers of a list, for each of them, and of all.
Totals(counts) ==
    LET total[i \in 0 .. Len(counts)] == IF i = 0 THEN 0 ELSE total[i - 1] + counts[i]
    IN  total

Total(counts) == Totals(counts)[Len(counts)]

Counted(from, to, count) ==
    /\ phase = from /\ phase' = to
    /\ failures' = failures + count
    /\ UNCHANGED <<options, project, at, pos, parser, context, present, entries, code, scan>>

\* Mutation: the reports of the linter itself are printed and not counted.
ValidatorReportsOnly ==
    Cardinality(Exclusions \ present) +
    Cardinality({r \in context : r.group \notin
        {"consecutiveEmpty", "preprocessorOther", "anonNamespace", "indentedPreprocessor",
         "emptyNearEnd", "firstInclude", "cross_includes", "includesOrder"}})

\* Two reports of one validator on one line count as one here.
FormattingFailures == Cardinality(Exclusions \ present) + Cardinality(context)

PrintFormatting == Counted("formatting", "namespaces", FormattingFailures)

PrintNamespaces ==
    Counted("namespaces", "templates",
            Cardinality({i \in DOMAIN entries : check(entries[i]) # "SUCCESS"}))

PrintTemplateErrors ==
    Counted("templates", "dependencies",
            Total([i \in DOMAIN entries |-> entries[i].templateErrors]))

PrintDependencies ==
    Counted("dependencies", "done",
            IF ~options.checkDeps THEN 0
            ELSE Total([i \in DOMAIN entries |-> project[entries[i].file].badIncludes]))

\* The failures are counted by the console reporter, which only text mode uses.
Exit ==
    /\ phase = "done" /\ phase' = "exited"
    /\ code' = IF options.text THEN failures % ExitCodes ELSE 0
    /\ UNCHANGED <<options, project, at, pos, parser, context, present, entries, failures, scan>>

Exited == phase = "exited" /\ UNCHANGED vars

Next ==
    \/ NextFile \/ ReadLine \/ FileRead \/ ParseLine \/ FileParsed \/ WalkDone
    \/ PrintFormatting \/ PrintNamespaces \/ PrintTemplateErrors \/ PrintDependencies
    \/ Exit \/ Exited

Spec == Init /\ [][Next]_vars

-----------------------------------------------------------------------------
\* The regions of a file (validation.py, RegionValidator): the lines of a file are
\* reported if and only if its regions are not a sequence of closed pairs without
\* nesting, whatever the files before it left behind.
RegionsAreJudged ==
    LET depth(n) == Cardinality({i \in 1 .. n : Is(Lines[i], "region")})
                    - Cardinality({i \in 1 .. n : Is(Lines[i], "endregion")})
        paired == /\ \A n \in DOMAIN Lines : depth(n) \in {0, 1}
                  /\ depth(Len(Lines)) = 0
                  /\ \A n \in DOMAIN Lines : ~Is(Lines[n], "misspelt region")
    IN  phase = "tokens" =>
            (paired <=> \A r \in context : r.path = at => r.group # "regionValidator")

\* Seven validators with a memory have no reset (validation.py:977, 1000, 1143, 1204, 1233,
\* 1266, 1291): the last line of one file is the previous line of the next.  What they carry
\* over changes the reports of the first line of a file at most; the two that remember more
\* than a line (1233, 1291) are known to reach further.
CarryOverReachesOneLine ==
    \A c \in carried : c.at = 1 \/ c.group \in {"explicitCtor", "insertionOperator"}

\* When the order of the forward declarations of a file is rejected, the text that the
\* report asks for is accepted in their place (forwardsValidation.py): nobody is sent in
\* circles.  The text replaces what was read up to the last namespace at the root, hence
\* that namespace has to start a line, outside of any other, and to be without declarations.
\* Out of reach: an inline namespace that holds another one and comes first, whose text
\* would start with a word the validator does not start at.
Relint(lines) ==
    FoldLeftDomain(LAMBDA f, n : ForwardsStep(f, n, lines[n]), NewForwards, lines)

AsLine(text) ==
    [Empty EXCEPT !.indent = text.indent, !.toks = text.toks,
                  !.marks = IF text = Blank THEN {"empty"}
                            ELSE IF text.comment THEN {"comment"} ELSE {}]

SuggestionIsAccepted ==
    LET wanted == Expected(forwards)
        suggested == [i \in DOMAIN wanted |-> AsLine(wanted[i])]
        before == Relint(SubSeq(Lines, 1, forwards.previousBlock - 1))
        again == Relint(SubSeq(Lines, 1, forwards.match - 1) \o suggested
                        \o SubSeq(Lines, forwards.previousBlock, Len(Lines)))
    IN  (/\ phase = "tokens" /\ Mismatch(forwards)
         /\ forwards.lastForward < forwards.previousBlock
         /\ before.mode = "normal" /\ before.stack = <<>>
         /\ wanted[1].toks[1] = "namespace")
        => ~again.raised /\ ~Mismatch(again)

\* The namespaces of a file that is written as the parser expects are found, with exactly
\* the kinds of declarations they hold (Parser.py), and the namespace of the file is the
\* one that encloses all others (checkProjectStructure.py:478-501), whatever is declared
\* first and however often a namespace is opened again.  It may be another one where the
\* name of a namespace is the start of its sibling's name (line 491).
NamespacesAreFound ==
    LET declared == Declared(file.declares[1])
        names == {ns.name : ns \in {ns \in declared : namespace_filter(ns)}}
        enclosing == {x \in names : \A y \in names : IsPrefix(x, y)}
        told == \A x, y \in names : StartsWith(y, x) => IsPrefix(x, y)
    IN  (phase = "walk" /\ at > 0 /\ file.declares # <<>> /\ ~Ignored(file)) =>
            /\ parser.namespaces = declared
            /\ told => Last(entries).namespaces = IF enclosing # {} THEN enclosing ELSE names

\* In text mode the linter exits with 0 if and only if it has parsed every file it was not
\* told to skip and found nothing: no report, no file in a wrong namespace, no template
\* error, no exclusion without a use, no forbidden include.
ExitTellsTheVerdict ==
    LET parsed == {entries[i].file : i \in DOMAIN entries}
        clean == /\ project # <<>>
                 /\ \A i \in DOMAIN project : Ignored(project[i]) \/ i \in parsed
                 /\ context = {} /\ present = Exclusions
                 /\ \A i \in DOMAIN entries :
                      /\ check(entries[i]) = "SUCCESS" /\ entries[i].templateErrors = 0
                      /\ options.checkDeps => project[entries[i].file].badIncludes = 0
    IN  (phase = "exited" /\ options.text /\ failures < ExitCodes) => (code = 0 <=> clean)

\* The includes of a file have one proper order, whatever order they are found in, and the
\* order that a report asks for is accepted (checkProjectStructure.py:83-222, 288-348).
IncludesHaveOneOrder ==
    LET found == header.includes
        proper == ProperOrder(file, found)
    IN  phase = "tokens" /\ pos = 0 /\ found # <<>> =>
            /\ \A order \in SetToSeqs(DOMAIN found) :
                 ProperOrder(file, [i \in DOMAIN found |-> found[order[i]]]) = proper
            /\ ProperOrder(file, proper) = proper
=============================================================================
