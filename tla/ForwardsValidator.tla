-------------------------- MODULE ForwardsValidator --------------------------
(***************************************************************************)
(* The validator of forward declarations (linters/cpp/                     *)
(* forwardsValidation.py).  From the first line that starts with           *)
(* `namespace' it collects declarations until the first token that is no   *)
(* part of one, formats what it collected, and compares the text with the  *)
(* lines it has read.                                                      *)
(*                                                                         *)
(* A validator is a record f, ForwardsStep(f, n, line) the validator after *)
(* line n.  The text of a line is its indent, its tokens and whether it    *)
(* ends in a comment, which the lexer drops.  Names that differ in case    *)
(* only, which the code sorts in the order it met them, are not used.      *)
(***************************************************************************)
EXTENDS Integers, Sequences, SequencesExt, Tables

CONSTANTS
    NameOrder,           \* the names of namespaces and types in alphabetical order
    FilteredNamespaces,  \* the paths that a pattern of FILTER_NAMESPACES matches
    UnknownTokens        \* tokens the tokenizer of this validator does not know

Text(indent, toks) == [indent |-> indent, toks |-> toks, comment |-> FALSE]
TextOf(line) ==
    [indent |-> line.indent, toks |-> line.toks, comment |-> "comment" \in line.marks]
Blank == Text(0, <<>>)

NewForwards ==
    [match |-> 0, done |-> "no", mode |-> "normal", nsType |-> "normal", stack |-> <<>>,
     namespaces |-> <<>>, forwards |-> <<>>, type |-> <<>>, name |-> <<>>, pre |-> <<>>,
     lastForward |-> 0, lastNamespace |-> 0, nextLineFilled |-> FALSE, previousBlock |-> 0,
     collected |-> <<>>, redefined |-> {}, raised |-> FALSE]

-----------------------------------------------------------------------------
\* One handler per mode, in the order of the code.  n is the line at hand.  After the final
\* token the one that follows it on its line is still taken from the lexer.
final(f) == [f EXCEPT !.done = "reads on"]

_keyword_check(f, tok, rest) ==
    CASE tok = "namespace" -> [f EXCEPT !.mode = "ns name", !.nsType = "normal"]
      [] tok = "inline" -> [f EXCEPT !.mode = "namespace keyword"]
      [] tok \in {"class", "struct"} -> [f EXCEPT !.mode = "type name", !.type = <<tok>>]
      [] tok = "enum" -> [f EXCEPT !.mode = "enum", !.type = <<tok>>]
      [] tok = "template" -> [f EXCEPT !.mode = "skip", !.pre = Append(@, rest)]
      [] tok \in {"extern", "#include", "#define", "#define TEST_CLASS"} -> [f EXCEPT !.mode = "skip"]
      [] tok = "}" -> IF f.stack = <<>> THEN [f EXCEPT !.raised = TRUE]
                      ELSE [f EXCEPT !.stack = Front(@)]
      [] OTHER -> final(f)

_collect_namespace_keyword(f, tok) ==
    IF tok = "namespace" THEN [f EXCEPT !.mode = "ns name", !.nsType = "inline"] ELSE final(f)

\* The type of a namespace is the one it has first.
_collect_ns_name(f, n, tok) ==
    LET path == Append(f.stack, tok)
        known == path \in DOMAIN f.namespaces
        q == [f EXCEPT !.previousBlock = IF f.stack = <<>> THEN n ELSE @]
    IN  IF tok = "{" THEN final(q)
        ELSE [q EXCEPT
                !.namespaces = IF known THEN @ ELSE Store(@, path, f.nsType),
                !.stack = path, !.mode = "opening brace",
                !.lastNamespace = IF path \in FilteredNamespaces THEN @ ELSE n]

_collect_opening_brace(f, tok) ==
    LET q == [f EXCEPT !.mode = "normal"] IN IF tok = "{" THEN q ELSE final(q)

\* Mutation: the lines before a declaration are kept for the next one.
_add_forward_KeepsPre(f, n) ==
    LET key == [path |-> f.stack, name |-> f.name]
    IN  [f EXCEPT
           !.redefined = IF key \in DOMAIN f.forwards THEN @ \cup {n} ELSE @,
           !.forwards = Store(@, key, [text |-> f.type \o f.name \o <<";">>, pre |-> f.pre]),
           !.lastForward = n, !.type = <<>>, !.name = <<>>]

_add_forward(f, n) ==
    LET key == [path |-> f.stack, name |-> f.name]
    IN  [f EXCEPT
           !.redefined = IF key \in DOMAIN f.forwards THEN @ \cup {n} ELSE @,
           !.forwards = Store(@, key, [text |-> f.type \o f.name \o <<";">>, pre |-> f.pre]),
           !.lastForward = n, !.type = <<>>, !.name = <<>>, !.pre = <<>>]

_collect_semi_colon(f, n, tok) ==
    LET q == [f EXCEPT !.mode = "normal"] IN IF tok = ";" THEN _add_forward(q, n) ELSE final(q)

_collect_type_name(f, tok) == [f EXCEPT !.name = <<tok>>, !.mode = "semicolon"]

\* The base of an enum belongs to its name.
_collect_enum(f, n, tok) ==
    IF tok = "class" THEN [f EXCEPT !.type = <<"enum", "class">>]
    ELSE IF f.name = <<>> THEN [f EXCEPT !.name = <<tok>>]
    ELSE IF Last(f.name) = ":" \/ tok = ":" THEN [f EXCEPT !.name = Append(@, tok)]
    ELSE IF tok = ";" THEN _collect_semi_colon(f, n, tok)
    ELSE final(f)

\* The text of the line from its i-th token on.
RestOf(line, i) ==
    [TextOf(line) EXCEPT !.indent = 0, !.toks = SubSeq(@, i, Len(@))]

Token(f, n, line, i) ==
    LET tok == line.toks[i]
    IN  IF f.raised \/ f.done = "yes" THEN f
        ELSE IF tok \in UnknownTokens THEN [f EXCEPT !.raised = TRUE]
        ELSE IF f.done = "reads on" THEN [f EXCEPT !.done = "yes"]
        ELSE CASE f.mode = "normal" -> _keyword_check(f, tok, RestOf(line, i))
               [] f.mode = "namespace keyword" -> _collect_namespace_keyword(f, tok)
               [] f.mode = "ns name" -> _collect_ns_name(f, n, tok)
               [] f.mode = "opening brace" -> _collect_opening_brace(f, tok)
               [] f.mode = "type name" -> _collect_type_name(f, tok)
               [] f.mode = "enum" -> _collect_enum(f, n, tok)
               [] f.mode = "semicolon" -> _collect_semi_colon(f, n, tok)
               [] f.mode = "skip" -> f

\* The validator after each of the tokens of a line.
Tokens(f, n, line) ==
    LET after[i \in 0 .. Len(line.toks)] ==
            IF i = 0 THEN f ELSE Token(after[i - 1], n, line, i)
    IN  after

ForwardsStep(f, n, line) ==
    LET started == f.match # 0 \/ (line.toks # <<>> /\ line.toks[1] = "namespace")
        q == [f EXCEPT !.match = IF @ = 0 THEN n ELSE @, !.collected = Append(@, TextOf(line)),
                       !.nextLineFilled =
                           IF f.lastNamespace # 0 /\ f.lastNamespace + 1 = n
                           THEN TextOf(line) # Blank ELSE @]
        r == Tokens(q, n, line)[Len(line.toks)]
    IN  IF ~started \/ f.done # "no" \/ f.raised THEN f
        ELSE [r EXCEPT !.mode = IF @ = "skip" THEN "normal" ELSE @]

-----------------------------------------------------------------------------
\* The canonical text of the declarations.
Position(x) == CHOOSE i \in DOMAIN NameOrder : NameOrder[i] = x
Sorted(names) == SelectSeq(NameOrder, LAMBDA x : x \in names)

_format_fwd(spec) == Append(spec.pre, Text(0, spec.text))

\* Empty lines stay empty.
Indented(lines) ==
    [i \in DOMAIN lines |->
        IF lines[i] = Blank THEN Blank ELSE [lines[i] EXCEPT !.indent = @ + 1]]

\* The names of forward declarations may carry a base, which sorts after the plain name.
ForwardsOf(f, path) ==
    SortSeq(SetToSeq({key \in DOMAIN f.forwards : key.path = path}),
            LAMBDA a, b : \/ Position(a.name[1]) < Position(b.name[1])
                          \/ a.name[1] = b.name[1] /\ Len(a.name) < Len(b.name))

FormatForwards(f, path) ==
    FoldLeft(LAMBDA lines, key :
                 LET fwd == _format_fwd(f.forwards[key])
                 IN  lines \o (IF lines # <<>> /\ Len(fwd) > 1 THEN <<Blank>> ELSE <<>>) \o fwd,
             <<>>, ForwardsOf(f, path))

\* A namespace with one line is written on one line, one without lines not at all.
FormatNamespace(nsType, name, lines) ==
    LET head == (IF nsType = "inline" THEN <<"inline">> ELSE <<>>) \o <<"namespace", name, "{">>
    IN  CASE lines = <<>> -> <<>>
          [] Len(lines) = 1 -> <<[lines[1] EXCEPT !.indent = 0, !.toks = head \o @ \o <<"}">>]>>
          [] OTHER -> <<Text(0, head)>> \o Indented(lines) \o <<Text(0, <<"}">>)>>

\* The text of each namespace, by its path.  Blank lines separate those at the root.
_format(f) ==
    LET written[path \in {<<>>} \cup DOMAIN f.namespaces] ==
            LET children == {name \in ToSet(NameOrder) : Append(path, name) \in DOMAIN f.namespaces}
                block(name) == FormatNamespace(f.namespaces[Append(path, name)], name,
                                               written[Append(path, name)])
            IN  FoldLeft(LAMBDA lines, name :
                             lines \o (IF path = <<>> /\ lines # <<>> /\ block(name) # <<>>
                                       THEN <<Blank>> ELSE <<>>) \o block(name),
                         <<>>, Sorted(children))
                \o FormatForwards(f, path)
    IN  written

Expected(f) == _format(f)[<<>>]

Mismatch(f) ==
    /\ f.forwards # <<>>
    /\ SubSeq(f.collected, 1, Min({Len(f.collected), Len(Expected(f))})) # Expected(f)

\* Reports of the whole file; isSkipped is a file whose order is not checked.
ForwardsReports(f, isSkipped) ==
    {[group |-> "forward", line |-> n] : n \in f.redefined}
    \cup (IF f.nextLineFilled /\ f.lastNamespace > f.lastForward
          THEN {[group |-> "forward", line |-> f.lastNamespace + 1]} ELSE {})
    \cup (IF ~isSkipped /\ Mismatch(f) THEN {[group |-> "forward", line |-> f.match]} ELSE {})
=============================================================================
