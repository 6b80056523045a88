---------------------------- MODULE MCCheckProject ----------------------------
(***************************************************************************)
(* Instances of the linter for TLC: families of small projects, one for    *)
(* each part of the linter.                                                *)
(***************************************************************************)
EXTENDS CheckProject

MCNameOrder == <<"a", "ab", "b", "X", "Y", "Z">>
MCPathOrder == <<"a.h", "b.h", "bitxor", "boost", "donna", "extended", "model", "src", "string",
                 "tests", "txes", "u.h", "v.h">>
MCFiltered == {<<"b">>}
MCUnknown == {"'C'"}
MCPrefixes == {<<"a", "ab">>}
MCExclusions == {"used"}

Marked(toks, marks) == [Empty EXCEPT !.toks = toks, !.marks = marks]
Line(indent, toks) == [Empty EXCEPT !.indent = indent, !.toks = toks, !.marks = {}]

File(lines) ==
    [lines |-> lines, isHeader |-> TRUE, skipped |-> FALSE, isTest |-> FALSE, exempt |-> {},
     skipForwards |-> FALSE, falsePositive |-> FALSE, hits |-> {"used"}, namespace |-> <<"a">>,
     directory |-> <<"src">>, firstInclude |-> <<"quotes", <<"v.h">>>>, crossIncludes |-> FALSE,
     badIncludes |-> 0, declares |-> <<>>]

Upto(set, n) == UNION {[1 .. k -> set] : k \in 0 .. n}

\* Regions: a file that may leave one open, then another one; a file of four lines.
RegionLines == {Marked(<<>>, {"region"}), Marked(<<>>, {"endregion"}), Line(0, <<>>)}
RegionProjects ==
    {<<File(<<last>>), File(lines)>> : last \in RegionLines, lines \in Upto(RegionLines, 3)}
    \cup {<<File(lines)>> : lines \in [1 .. 4 -> RegionLines]}
    \cup {<<File(lines)>> : lines \in
            Upto(RegionLines \cup {Marked(<<>>, {"misspelt region"})}, 2)}

\* Every validator that is not reset: the last line of a file, and two lines of the next.
MemoryLines ==
    {Marked(<<>>, {"ENUM_VALUE"}), Marked(<<>>, {"ends ,"}), Marked(<<"}">>, {"starts closing", "is }"}),
     Marked(<<"x", "{">>, {"ends {"}), Marked(<<"}", ";">>, {"is };", "starts closing"}),
     Marked(<<>>, {"starts ///"}), Marked(<<>>, {"TEST("}), Marked(<<>>, {"comment", "assert comment"}),
     Marked(<<>>, {"ends \"", "has <<"}), Marked(<<>>, {"starts <<", "has <<", "ends open_array"}),
     Marked(<<"f", "(">>, {"explicit ctor", "ends ("}), Marked(<<"x", ",", "<", "y", ")">>, {}),
     Empty, Marked(<<"call", "(">>, {"ends ("})}
MemoryProjects ==
    {<<File(<<last>>), File(<<x, y>>)>> :
        last \in MemoryLines, x \in MemoryLines, y \in {y \in MemoryLines : ~Is(y, "has <<")}}

\* Forward declarations: up to three blocks, then a namespace with a body.
Forward(ns, type, name) == <<Line(0, <<"namespace", ns, "{", type, name, ";", "}">>)>>
Pair(ns, x, y) ==
    <<Line(0, <<"namespace", ns, "{">>), Line(1, <<"class", x, ";">>),
      Line(1, <<"struct", y, ";">>), Line(0, <<"}">>)>>
Nested(ns, inner, x) ==
    <<Line(0, <<"namespace", ns, "{">>), Line(1, <<"namespace", inner, "{", "class", x, ";", "}">>),
      Line(1, <<"class", "Z", ";">>), Line(0, <<"}">>)>>
ForwardBlocks ==
    {Forward("a", "class", "X"), Forward("b", "struct", "Y"), Pair("a", "X", "Y"),
     Pair("a", "Y", "X"), Nested("a", "b", "X"), Nested("b", "ab", "Y"), <<Empty>>,
     <<Line(0, <<"namespace", "a", "{">>), Line(1, <<"enum", "class", "X", ":", "Y", ";">>),
       Line(0, <<"}">>)>>,
     <<Line(0, <<"inline", "namespace", "ab", "{", "class", "X", ";", "}">>)>>,
     <<Line(0, <<"namespace", "b", "{">>), Line(1, <<"template", "<", "T", ">">>),
       Line(1, <<"class", "X", ";">>), Line(0, <<"}">>)>>}
Body == <<Line(0, <<"namespace", "a", "{">>), Line(1, <<"void", "f", "(", ")", ";">>), Line(0, <<"}">>)>>
ForwardProjects ==
    {<<File(FlattenSeq(blocks) \o Body)>> : blocks \in Upto(ForwardBlocks, 3)}
    \cup {<<File(Body \o Forward("a", "class", "X"))>>,
          <<File(<<Line(0, <<"namespace", "a", "{">>), Line(0, <<"}">>), Line(0, <<"}">>)>>)>>}

\* Namespaces: up to two declarations in one that encloses up to one more, which holds one.
Words(toks) == [is |-> "words", toks |-> toks]
Parens(toks) == [is |-> "parens", toks |-> toks]
Templated(template, d) == [is |-> d.is, template |-> <<template>>, parts |-> d.parts, body |-> d.body]
Class(is, key, head, body) == [is |-> is, template |-> <<>>, key |-> key, head |-> head, body |-> body]
Declarator(is, parts, body) == [is |-> is, template |-> <<>>, parts |-> parts, body |-> body]
F == <<Words(<<"void", "f">>), Parens(<<>>)>>
Items ==
    {Class("class", "class", <<"X", ":", "Y">>, <<"void", "f", "(", ")", ";">>),
     Class("class", "enum", <<"class", "X">>, <<"u", ",", "v">>),
     Class("forward", "struct", <<"Y">>, <<>>),
     [is |-> "using", template |-> <<>>, body |-> <<"T", "=", "f", "<", "x", ">">>],
     Declarator("declaration", <<Words(<<"bool">>), [is |-> "operator", op |-> <<"=", "=">>, toks |-> <<"x">>]>>, <<>>),
     Declarator("declaration", <<Words(<<"x">>), [is |-> "angles", toks |-> <<"T">>], Words(<<"y">>)>>, <<>>),
     Declarator("function", F, <<"if", "(", "x", ")", "{", "}">>),
     Templated(<<"typename", "T">>, Declarator("function", F, <<>>)),
     Declarator("value", <<Words(<<"constexpr", "auto", "x">>)>>, <<"1">>),
     Declarator("function", <<Words(<<"TEST">>), Parens(<<"x">>)>>, <<>>),
     Declarator("declaration", <<Words(<<"DEFINE_X">>), Parens(<<"x">>)>>, <<>>)}
InnerItems == {x \in Items : Declares(x) \cap {"class", "forward", "using", "macro"} # {}}
Opens(ns) == [is |-> "open", name |-> ns]
Closes == [is |-> "close"]
Written(pieces) ==
    [File([i \in DOMAIN pieces |-> Line(IF pieces[i].is \in {"open", "close"} THEN 0 ELSE 1,
                                        TextOfPiece(pieces[i]))])
     EXCEPT !.declares = <<pieces>>]
NamespaceProjects ==
    {<<Written(<<Opens("a")>> \o outer \o <<Opens(inner), x, Closes, Closes>>
               \o (IF again THEN <<Opens("a"), x, Closes>> ELSE <<>>))>> :
        outer \in Upto(Items, 2), x \in InnerItems, inner \in {"X"}, again \in BOOLEAN}
    \cup {<<Written(<<Opens(other), x, Closes, Opens("a"), y, Closes>>)>> :
            x \in Items, y \in Items, other \in {"X", "ab"}}

\* Includes: three or four different ones.
Inc(quote, path) ==
    [quote |-> quote, path |-> path, external |-> path[1] = "donna", cpp |-> path[1] = "boost",
     cHeader |-> quote = "brackets" /\ Last(path) \in {"a.h", "u.h"}]
MCIncludes ==
    {Inc("quotes", <<"a.h">>), Inc("quotes", <<"src", "v.h">>), Inc("quotes", <<"src", "b.h">>),
     Inc("quotes", <<"bitxor", "a.h">>), Inc("quotes", <<"bitxor", "extended", "b.h">>),
     Inc("quotes", <<"model", "tests", "u.h">>), Inc("quotes", <<"model", "string", "b.h">>),
     Inc("quotes", <<"string", "a.h">>),
     Inc("brackets", <<"donna", "a.h">>), Inc("brackets", <<"boost", "b.h">>), Inc("brackets", <<"string">>),
     Inc("brackets", <<"u.h">>)}
Included(i) == [Empty EXCEPT !.marks = {"#include", "#"}, !.include = <<i>>, !.toks = <<"#include">>]
IncludeProjects ==
    {<<[File([i \in DOMAIN order |-> Included(order[i])]) EXCEPT !.isHeader = Len(order) = 4]>> :
        order \in {SetToSeq(s) : s \in kSubset(3, MCIncludes) \cup kSubset(4, MCIncludes)}}

\* Reports and what ends a run early: a file without a fault, changed in one respect,
\* together with another one.
License == Marked(<<>>, {"starts /**", "**/", "copyright"})
Clean ==
    [File(<<License, Included(Inc("quotes", <<"v.h">>)), Line(0, <<"namespace", "a", "{">>), Empty,
            Line(1, <<"class", "X", "{", "}", ";">>), Line(0, <<"}">>)>>)
     EXCEPT !.isHeader = FALSE]
With(extra) == [Clean EXCEPT !.lines = @ \o extra]
InAnother(ns) ==
    With(<<Line(0, <<"namespace", ns, "{">>), Line(1, <<"class", "X", "{", "}", ";">>), Line(0, <<"}">>)>>)
Blank_ == Marked(<<>>, {"blank"})
Directive(marks) == Marked(<<"#define">>, {"#"} \cup marks)
Faulty ==
    {With(<<Line(0, <<>>), Empty, Empty, Line(0, <<>>)>>), With(<<Blank_, Line(0, <<>>)>>),
     With(<<[Directive({"ends \\"}) EXCEPT !.indent = 1], Marked(<<>>, {"ends \\"}), Line(1, <<>>)>>),
     With(<<Directive({"unknown directive"})>>), With(<<Directive({"#pragma once"})>>),
     [Clean EXCEPT !.lines = <<Blank_, Blank_>> \o @], [Clean EXCEPT !.lines = <<Blank_, Included(Inc("quotes", <<"v.h">>))>>],
     [Clean EXCEPT !.lines = SubSeq(@, 3, 6)],
     With(<<Marked(<<"#define TEST_CLASS">>, {"#"})>>),
     [With(<<Line(0, <<"namespace", "{", "}">>)>>) EXCEPT !.isHeader = TRUE],
     With(<<Line(0, <<"namespace", "{", "}">>)>>),
     With(<<Line(0, <<"template", "<", "class", "T", ">", ";">>)>>),
     With(<<Line(0, <<"x", ")", "}">>)>>), With(<<Line(0, <<"enum", "E", ";">>)>>),
     With(<<Line(0, <<"int", "x", "{", "1", "}">>)>>), With(<<Line(0, <<"extern", "'C'", "{", "}">>)>>),
     InAnother("ab"),
     InAnother("X"),
     With(<<[Line(0, <<>>) EXCEPT !.faults = {"tooLongLines"}]>>),
     [With(<<[Line(0, <<>>) EXCEPT !.faults = {"tooLongLines"}]>>) EXCEPT !.exempt = {"tooLongLines"}],
     [Clean EXCEPT !.skipped = TRUE], [Clean EXCEPT !.isTest = TRUE, !.crossIncludes = TRUE],
     [Clean EXCEPT !.namespace = <<"b">>], [Clean EXCEPT !.namespace = <<"b">>, !.falsePositive = TRUE],
     [Clean EXCEPT !.lines = SubSeq(@, 1, 2)], [Clean EXCEPT !.badIncludes = 2],
     [Clean EXCEPT !.hits = {}], Clean}
ReportProjects ==
    {<<>>} \cup {<<f>> : f \in Faulty} \cup {<<f, Clean>> : f \in Faulty} \cup {<<Clean, f>> : f \in Faulty}

\* The options matter for the reports only.
Options(text, fix, deps, checks) ==
    [text |-> text, fixIndents |-> fix, deps |-> deps, checkDeps |-> checks]
MCOptions ==
    {Options(TRUE, FALSE, FALSE, FALSE), Options(FALSE, FALSE, FALSE, TRUE),
     Options(TRUE, TRUE, FALSE, FALSE), Options(TRUE, FALSE, TRUE, TRUE)}

MCProjects ==
    RegionProjects \cup MemoryProjects \cup ForwardProjects \cup NamespaceProjects
    \cup IncludeProjects \cup ReportProjects

MCInit ==
    /\ Init
    /\ project \notin ReportProjects => options = Options(TRUE, FALSE, FALSE, FALSE)
MCSpec == MCInit /\ [][Next]_vars
=============================================================================
