--------------------------- MODULE NamespacesParser ---------------------------
(***************************************************************************)
(* The namespace parser of the C++ linter (linters/cpp/Parser.py): a       *)
(* pushdown automaton over the tokens of a file that collects the          *)
(* namespaces of the file and what each of them declares.                  *)
(*                                                                         *)
(* A parser is a record and ParserStep(p, tok) the parser after one more   *)
(* token.  Punctuation, keywords and directives are tokens of their own;   *)
(* every other token is a name.  Of the name stack, the tokens of the      *)
(* declaration read so far, the code looks at the first one and at which   *)
(* kinds occur.  Tokens that a handler takes from the lexer itself are     *)
(* read in modes of their own.                                             *)
(***************************************************************************)
EXTENDS Naturals, Integers, Sequences, SequencesExt

Separators == {":", "*", ",", "&", "[", "]"}
Foreign == {")", ">", "+", "-", "!", "|"}  \* tokens no declaration starts with
ClassKeys == {"class", "struct"}
Directives == {"#include", "#define", "#define TEST_CLASS"}
DefineMacros == {"DEFINE_X"}               \* names that start with DEFINE_

NoNames == [first |-> "", has |-> {}]

NewParser ==
    [mode |-> "normal", part |-> "", stack |-> <<>>, angles |-> 0, hadClass |-> FALSE,
     instantiation |-> FALSE, hadParens |-> FALSE, braces |-> 0, colonBraces |-> 0,
     parens |-> 0, names |-> NoNames, callback |-> "none", keepsNames |-> FALSE,
     operator |-> "", namespaces |-> {}, templateErrors |-> 0, errors |-> {},
     end |-> "running"]

Push(p, tok) ==
    [p EXCEPT !.names = [first |-> IF @.first = "" THEN tok ELSE @.first,
                         has |-> @.has \cup {tok}]]

HasAll(p, kinds) == kinds \subseteq p.names.has

\* quit writes the fatal error and ends the process, an index error ends it as well.
Quit(p) == [p EXCEPT !.end = "quit"]
IndexError(p) == [p EXCEPT !.end = "raised"]

\* Mutation: the names of the declaration stay.
clear_name_stack_Kept(p) == [p EXCEPT !.callback = "none"]

clear_name_stack(p) == [p EXCEPT !.names = NoNames, !.callback = "none"]

switch_to_normal(p) == [p EXCEPT !.mode = "normal", !.hadParens = FALSE]

\* The innermost namespace, if any, had a declaration of this kind.
Had(p, kind) ==
    IF p.stack = <<>> THEN p
    ELSE LET block == [Last(p.stack) EXCEPT !.had = @ \cup {kind}]
         IN  [p EXCEPT !.stack = [@ EXCEPT ![Len(@)] = block]]

Path(p) == [i \in 1 .. Len(p.stack) |-> p.stack[i].current]

\* A closed namespace is recorded, or merged with the one recorded under its name.
add_namespace(p) ==
    IF p.stack = <<>> THEN IndexError(p)
    ELSE LET had == Last(p.stack).had
             same == {ns \in p.namespaces : ns.name = Path(p)}
         IN  [p EXCEPT
                !.errors = IF "<anon>" \in ToSet(Path(p)) THEN @ \cup {"anonNamespace"} ELSE @,
                !.namespaces = (@ \ same) \cup
                    {[name |-> Path(p), had |-> had \cup UNION {ns.had : ns \in same}]},
                !.stack = Front(@)]

-----------------------------------------------------------------------------
\* What a finished declaration was, from its tokens.
_check_func_or_var(p) ==
    IF HasAll(p, {"{", "}"}) \/ HasAll(p, {"[", "]"}) THEN Had(p, "func") ELSE p

check_properties(p) ==
    CASE p.names.first = "using" -> Had(p, "using")
      [] p.names.first = "TEST" -> Had(p, "test")
      [] p.names.first = "extern" -> p
      [] p.names.first = "constexpr" /\ HasAll(p, {"="}) ->
           IF p.stack = <<>> THEN IndexError(p) ELSE Had(_check_func_or_var(p), "constant")
      [] OTHER -> _check_func_or_var(p)

find_close_paren(p, tok) ==
    LET q == Push(p, tok)
    IN  CASE tok = "(" -> [q EXCEPT !.parens = @ + 1]
          [] tok = ")" /\ p.parens > 1 -> [q EXCEPT !.parens = @ - 1]
          [] tok = ")" /\ p.parens = 1 ->
               LET r == IF q.names.first \in DefineMacros THEN Had(q, "macro") ELSE q
               IN  [switch_to_normal(r) EXCEPT !.parens = 0, !.hadParens = TRUE]
          [] OTHER -> q

find_close_brace(p, tok) ==
    CASE tok = "{" ->
           [(IF p.braces = 0 THEN Push(p, tok) ELSE p) EXCEPT !.braces = @ + 1]
      [] tok = "}" /\ p.braces > 1 -> [p EXCEPT !.braces = @ - 1]
      [] tok = "}" /\ p.braces = 1 ->
           LET q == [switch_to_normal(Push(p, tok)) EXCEPT !.braces = 0]
               r == check_properties(q)
           IN  IF p.callback = "clear" THEN clear_name_stack(r)
               ELSE [r EXCEPT !.mode = "expect semicolon"]
      [] OTHER -> p

clear_name_stack_and_find_semicolon(p, tok) ==
    LET q == Push(p, tok)
    IN  IF tok = ";" THEN clear_name_stack(check_properties(switch_to_normal(q)))
        ELSE Quit(q)

find_semi_colon(p, tok) ==
    LET q == IF p.colonBraces # 0 THEN p
             ELSE IF tok = ";"
             THEN clear_name_stack(check_properties(switch_to_normal(Push(p, tok))))
             ELSE Push(p, tok)
    IN  CASE tok = "{" -> [q EXCEPT !.colonBraces = @ + 1]
          [] tok = "}" -> [q EXCEPT !.colonBraces = @ - 1]
          [] OTHER -> q

\* The level of the template brackets is back at zero.
TemplateEnds(p) ==
    LET q == [p EXCEPT !.templateErrors = IF p.hadClass THEN @ + 1 ELSE @,
                       !.hadClass = FALSE]
    IN  IF p.instantiation
        THEN [q EXCEPT !.mode = "find semicolon", !.instantiation = FALSE]
        ELSE switch_to_normal(q)

collect_template(p, tok) ==
    LET q == CASE tok = "<" -> [p EXCEPT !.angles = @ + 1]
               [] tok = ">" -> IF p.angles = 1 THEN TemplateEnds([p EXCEPT !.angles = 0])
                               ELSE [p EXCEPT !.angles = @ - 1]
               [] tok \in ClassKeys ->
                    [p EXCEPT !.hadClass = @ \/ p.angles > 0, !.instantiation = TRUE,
                              !.mode = "template class"]
               [] OTHER -> p
    IN  IF p.keepsNames THEN Push(q, tok) ELSE q

\* The token after class is read by collect_template itself.
TemplateClass(p, tok) ==
    LET q == [p EXCEPT !.mode = "collect template"]
    IN  IF p.keepsNames THEN Push(q, tok) ELSE q

collect_ns(p, tok) ==
    CASE tok = "{" ->
           switch_to_normal([p EXCEPT !.stack = Append(@,
               [current |-> IF p.part = "" THEN "<anon>" ELSE p.part, had |-> {}])])
      [] tok = "=" -> [p EXCEPT !.mode = "find semicolon"]
      [] tok \in Separators \cup Foreign \cup {"}", "(", ";", "<"} -> p
      [] OTHER -> [p EXCEPT !.part = tok]

\* A body opens, or a forward declaration ends.  At the root a forward declaration of a
\* class leaves its names behind, one of an enum raises.
collect_class(p, tok) ==
    CASE tok = "{" -> Had([p EXCEPT !.braces = @ + 1, !.mode = "inside"], "class")
      [] tok = ";" -> IF p.stack = <<>> THEN switch_to_normal(p)
                      ELSE clear_name_stack(Had(switch_to_normal(p), "forward"))
      [] OTHER -> Push(p, tok)

collect_enum(p, tok) ==
    CASE tok = "{" -> Had([p EXCEPT !.braces = @ + 1, !.mode = "inside"], "enum")
      [] tok = ";" -> IF p.stack = <<>> THEN IndexError(p)
                      ELSE clear_name_stack(Had(switch_to_normal(p), "forward"))
      [] OTHER -> Push(p, tok)

find_class_end(p, tok) ==
    IF p.braces = 0 THEN IF tok = ";" THEN clear_name_stack(switch_to_normal(p)) ELSE Quit(p)
    ELSE CASE tok = "{" -> [p EXCEPT !.braces = @ + 1]
           [] tok = "}" -> [p EXCEPT !.braces = @ - 1]
           [] OTHER -> p

-----------------------------------------------------------------------------
\* Between declarations.
_parse_normal_name(p, tok) ==
    CASE tok = "namespace" -> [p EXCEPT !.mode = "collect ns", !.part = ""]
      [] tok = "template" -> [p EXCEPT !.mode = "collect template", !.keepsNames = FALSE]
      [] tok \in ClassKeys -> [Push(p, tok) EXCEPT !.mode = "collect class"]
      [] tok = "enum" -> [Push(p, tok) EXCEPT !.mode = "collect enum"]
      [] tok = "using" -> [Push(p, tok) EXCEPT !.mode = "find semicolon"]
      [] tok = "operator" -> [Push(p, tok) EXCEPT !.mode = "operator"]
      [] OTHER -> Push(p, tok)

_parse_normal_precomp_macro(p, tok) ==
    CASE tok = "#include" -> Had(p, "include")
      [] tok = "#define TEST_CLASS" /\ p.stack = <<>> ->
           [p EXCEPT !.errors = @ \cup {"preprocessorOther"}]
      [] OTHER -> p

_parse_normal_brace(p, tok) ==
    [find_close_brace(p, tok) EXCEPT
        !.mode = "find closing brace",
        !.callback = IF p.hadParens \/ p.names.first = "extern" THEN "clear" ELSE "semicolon"]

_parse_normal_semi_colon(p) ==
    clear_name_stack(IF HasAll(p, {"(", ")"}) THEN Had(p, "func") ELSE p)

parse_normal(p, tok) ==
    IF tok \in {"(", "{", ";", "="} /\ p.names = NoNames THEN Quit(p)
    ELSE CASE tok = "}" -> add_namespace(p)
           [] tok \in Separators -> Push(p, tok)
           [] tok = "<" -> collect_template(
                [p EXCEPT !.mode = "collect template", !.keepsNames = TRUE], tok)
           [] tok \in Directives -> _parse_normal_precomp_macro(p, tok)
           [] tok = "'C'" -> p
           [] tok \in Foreign -> Quit(p)
           [] tok = "(" -> [find_close_paren(p, tok) EXCEPT !.mode = "find closing paren"]
           [] tok = "{" -> _parse_normal_brace(p, tok)
           [] tok = ";" -> _parse_normal_semi_colon(p)
           [] tok = "=" -> [Push(p, tok) EXCEPT !.mode = "find semicolon"]
           [] OTHER -> _parse_normal_name(p, tok)

\* After `operator': the second token belongs to the operator, or to what follows.
Required == [op \in {"(", "[", "!"} |-> CASE op = "(" -> ")" [] op = "[" -> "]" [] OTHER -> "="]
Optional ==
    [op \in {"=", "+", "-", "<", ">", "|", "bool"} |->
        CASE op = "+" -> {"=", "+"} [] op = "-" -> {"=", "-", ">"} [] op = "<" -> {"<", "="}
          [] op \in {"|", "bool"} -> {} [] OTHER -> {"="}]

collect_operator(p, tok) ==
    LET op == p.operator
        picked == [Push(p, tok) EXCEPT !.mode = "normal"]
        followed == parse_normal([p EXCEPT !.mode = "normal"], tok)
    IN  CASE op \in DOMAIN Required -> IF tok = Required[op] THEN picked ELSE Quit(p)
          [] op \in DOMAIN Optional -> IF tok \in Optional[op] THEN picked ELSE followed
          [] op = "*" -> IF tok = "(" THEN followed ELSE Quit(p)
          [] OTHER -> Quit(p)

-----------------------------------------------------------------------------
ParserStep(p, tok) ==
    IF p.end # "running" THEN p
    ELSE CASE p.mode = "normal" -> parse_normal(p, tok)
           [] p.mode = "collect ns" -> collect_ns(p, tok)
           [] p.mode = "collect template" -> collect_template(p, tok)
           [] p.mode = "template class" -> TemplateClass(p, tok)
           [] p.mode = "collect class" -> collect_class(p, tok)
           [] p.mode = "collect enum" -> collect_enum(p, tok)
           [] p.mode = "inside" -> find_class_end(p, tok)
           [] p.mode = "find semicolon" -> find_semi_colon(p, tok)
           [] p.mode = "find closing paren" -> find_close_paren(p, tok)
           [] p.mode = "find closing brace" -> find_close_brace(p, tok)
           [] p.mode = "expect semicolon" -> clear_name_stack_and_find_semicolon(p, tok)
           [] p.mode = "operator" -> [Push(p, tok) EXCEPT !.operator = tok, !.mode = "operator 2"]
           [] p.mode = "operator 2" -> collect_operator(p, tok)

\* The parser after each of the tokens of a line.
ParserAfter(p, toks) ==
    LET after[i \in 0 .. Len(toks)] == IF i = 0 THEN p ELSE ParserStep(after[i - 1], toks[i])
    IN  after

\* The file ends: a handler that took its token from the lexer then raises, unless it
\* looks at none; any other mode goes unnoticed.
ParserEnd(p) ==
    IF p.end # "running" THEN p
    ELSE IF \/ p.mode \in {"expect semicolon", "operator"}
            \/ p.mode = "operator 2" /\ p.operator \notin {"|", "bool"}
    THEN IndexError(p)
    ELSE [p EXCEPT !.end = "read"]
=============================================================================
