----------------------------- MODULE HeaderParser -----------------------------
(***************************************************************************)
(* What the linter itself finds while it hands the lines of a file to the  *)
(* validators (linters/cpp/HeaderParser.py): the includes, empty lines at  *)
(* the wrong places, and directives that are not at the first column.      *)
(***************************************************************************)
EXTENDS LineValidators

NewHeader ==
    [multiline |-> FALSE, wasBlank |-> FALSE, previous |-> Empty, last |-> Empty,
     fixes |-> <<>>, includes |-> <<>>, raised |-> FALSE]

\* A blank line may hold white space, an empty line holds nothing.
IsBlank(line) == Is(line, "empty") \/ Is(line, "blank")

HeaderReports(h, n, line) == When(IsBlank(line) /\ h.wasBlank, "consecutiveEmpty", n)

\* A report of blank lines quotes three lines, and raises when there are but two.
HeaderStep(h, n, line) ==
    LET read == [h EXCEPT !.wasBlank = IsBlank(line), !.previous = h.last, !.last = line,
                          !.raised = IsBlank(line) /\ h.wasBlank /\ n = 2]
        fixes(kind) == Append(h.fixes, [kind |-> kind, line |-> n, indent |-> line.indent])
        continues == Is(line, "ends \\")
    IN  IF h.multiline
        THEN [read EXCEPT !.multiline = continues, !.fixes = fixes("continuation")]
        ELSE IF Is(line, "#include")
        THEN [read EXCEPT !.fixes = fixes("directive"), !.includes = @ \o line.include]
        ELSE IF Is(line, "#")
        THEN [read EXCEPT !.multiline = continues,
                          !.fixes = IF Is(line, "#pragma once") THEN @ ELSE fixes("directive"),
                          !.raised = @ \/ Is(line, "unknown directive")]
        ELSE read

\* The line before the last one, when it is blank without being empty.
NearEndIsBlank(h) == Is(h.previous, "blank") /\ ~Is(h.previous, "empty")
HeaderEndRaises(h, n) == NearEndIsBlank(h) /\ n = 2
HeaderEndReports(h, n) == When(NearEndIsBlank(h), "emptyNearEnd", n + 1)

\* The first continuation after an indented directive is to have one tab.
report_indents(h) ==
    LET directives == {i \in DOMAIN h.fixes : h.fixes[i].kind = "directive"}
        indented == {i \in directives : h.fixes[i].indent > 0}
        first_continuations ==
            {i \in DOMAIN h.fixes \ directives :
                \E j \in indented : j < i /\ j .. (i - 1) \subseteq directives}
        wrong == indented \cup {i \in first_continuations : h.fixes[i].indent # 1}
    IN  {[group |-> "indentedPreprocessor", line |-> h.fixes[i].line] : i \in wrong}
=============================================================================
