---------------------------- MODULE NamespaceProofs ----------------------------
(***************************************************************************)
(* Proofs about the namespace parser of the C++ linter, for texts of every *)
(* length: what the parser keeps to whatever it reads, and that it finds   *)
(* the namespaces of a text that is written as it expects, with the kinds  *)
(* of declarations in each of them.                                        *)
(*                                                                         *)
(* A text is read token by token.  Ready says where the parser stands      *)
(* between two pieces, a lemma for each kind of piece what it does with    *)
(* the tokens of one, and Recorded relates the open and the recorded       *)
(* namespaces to the pieces read so far.  The parser, the joined tokens    *)
(* and the path of the open namespaces are recursive functions of numbers; *)
(* what they come to is proved by induction over a set of numbers.         *)
(***************************************************************************)
EXTENDS NamespaceText, NaturalsInduction, WellFoundedInduction, SequenceTheorems, TLAPS

-----------------------------------------------------------------------------
(* Induction over sets of numbers.                                         *)

\* The numbers, ordered.
Before == {ss \in Nat \X Nat : ss[1] < ss[2]}

\* Every set of numbers has a least one.
LEMMA NumbersAreOrdered == IsWellFoundedOn(Before, Nat)
  BY NatLessThanWellFounded DEF OpToRel, Before

\* Induction over a set of numbers.
LEMMA CountingUp ==
  ASSUME NEW S, 0 \in S, \A n \in Nat : n \in S => n + 1 \in S
  PROVE  Nat \subseteq S
<1> DEFINE T == Nat \ S
<1> SUFFICES ASSUME T # {} PROVE FALSE
  OBVIOUS
<1>1. PICK n \in T : \A m \in T : <<m, n>> \notin Before
  <2> HIDE DEF T
  <2>1. T \subseteq Nat
    BY DEF T
  <2> QED
    BY <2>1, NumbersAreOrdered, WFMin, Zenon
<1>2. n \in Nat /\ n - 1 \in Nat /\ n - 1 < n
  OBVIOUS
<1>3. n - 1 \in S
  BY <1>1, <1>2 DEF Before
<1> QED
  BY <1>2, <1>3

-----------------------------------------------------------------------------
(* What is known of the parser of namespaces.                              *)

ParserModes ==
    {"normal", "collect ns", "collect template", "template class", "collect class",
     "collect enum", "inside", "find semicolon", "find closing paren", "find closing brace",
     "expect semicolon", "operator", "operator 2"}

\* It is in one of its modes, and has met a number of template errors.
IsParser(p) ==
    /\ {"mode", "templateErrors"} \subseteq DOMAIN p
    /\ p.mode \in ParserModes /\ p.templateErrors \in Nat

LEMMA NewIsParser == IsParser(NewParser)
  BY DEF NewParser, IsParser, ParserModes

LEMMA HelpersKeep ==
  ASSUME NEW p, IsParser(p), NEW x
  PROVE  /\ IsParser(Push(p, x)) /\ IsParser(Quit(p)) /\ IsParser(IndexError(p))
         /\ IsParser(clear_name_stack(p)) /\ IsParser(switch_to_normal(p))
         /\ IsParser(Had(p, x)) /\ IsParser(add_namespace(p))
<1>1. IsParser(Push(p, x))
  BY DEF Push, IsParser
<1>2. IsParser(Quit(p)) /\ IsParser(IndexError(p)) /\ IsParser(clear_name_stack(p))
  BY DEF Quit, IndexError, clear_name_stack, IsParser
<1>3. IsParser(switch_to_normal(p))
  BY DEF switch_to_normal, IsParser, ParserModes
<1>4. IsParser(Had(p, x))
  BY DEF Had, IsParser
<1>5. IsParser(add_namespace(p))
  BY <1>2 DEF add_namespace, IsParser
<1> QED
  BY <1>1, <1>2, <1>3, <1>4, <1>5

LEMMA PropertiesKeep ==
  ASSUME NEW p, IsParser(p)
  PROVE  IsParser(_check_func_or_var(p)) /\ IsParser(check_properties(p))
<1>1. IsParser(_check_func_or_var(p))
  BY HelpersKeep DEF _check_func_or_var
<1>2. /\ IsParser(Had(p, "using")) /\ IsParser(Had(p, "test")) /\ IsParser(IndexError(p))
      /\ IsParser(Had(_check_func_or_var(p), "constant"))
  BY <1>1, HelpersKeep
<1>3. IsParser(check_properties(p))
  BY <1>1, <1>2, Zenon DEF check_properties
<1> QED
  BY <1>1, <1>3

LEMMA TemplateEndsKeeps ==
  ASSUME NEW p, IsParser(p)
  PROVE  IsParser(TemplateEnds(p))
<1> DEFINE q == [p EXCEPT !.templateErrors = IF p.hadClass THEN @ + 1 ELSE @, !.hadClass = FALSE]
<1>1. IsParser(q)
  BY DEF IsParser
<1>2. TemplateEnds(p) = IF p.instantiation
                        THEN [q EXCEPT !.mode = "find semicolon", !.instantiation = FALSE]
                        ELSE switch_to_normal(q)
  BY DEF TemplateEnds
<1> HIDE DEF q
<1>3. IsParser([q EXCEPT !.mode = "find semicolon", !.instantiation = FALSE])
  BY <1>1 DEF IsParser, ParserModes
<1> QED
  BY <1>1, <1>2, <1>3, HelpersKeep

LEMMA ParenKeeps ==
  ASSUME NEW p, IsParser(p), NEW tok
  PROVE  IsParser(find_close_paren(p, tok))
<1> DEFINE q == Push(p, tok)
           r == IF q.names.first \in DefineMacros THEN Had(q, "macro") ELSE q
<1>1. IsParser(q) /\ IsParser(r)
  BY HelpersKeep
<1> HIDE DEF q
<1>2. IsParser([q EXCEPT !.parens = @ + 1]) /\ IsParser([q EXCEPT !.parens = @ - 1])
  BY <1>1 DEF IsParser
<1>3. IsParser([switch_to_normal(r) EXCEPT !.parens = 0, !.hadParens = TRUE])
  <2> HIDE DEF r
  <2>1. IsParser(switch_to_normal(r))
    BY <1>1, HelpersKeep
  <2> QED
    BY <2>1 DEF IsParser
<1> QED
  BY <1>1, <1>2, <1>3, Zenon DEF find_close_paren, q

LEMMA BraceKeeps ==
  ASSUME NEW p, IsParser(p), NEW tok
  PROVE  IsParser(find_close_brace(p, tok))
<1> DEFINE opened == [(IF p.braces = 0 THEN Push(p, tok) ELSE p) EXCEPT !.braces = @ + 1]
           q == [switch_to_normal(Push(p, tok)) EXCEPT !.braces = 0]
           r == check_properties(q)
<1>1. IsParser(Push(p, tok)) /\ IsParser(switch_to_normal(Push(p, tok)))
  BY HelpersKeep
<1>2. IsParser(opened)
  BY <1>1 DEF IsParser
<1>3. IsParser([p EXCEPT !.braces = @ - 1])
  BY DEF IsParser
<1>4. IsParser(q)
  BY <1>1 DEF IsParser
<1>5. IsParser(r)
  <2> HIDE DEF q
  <2> QED
    BY <1>4, PropertiesKeep
<1>6. IsParser(clear_name_stack(r)) /\ IsParser([r EXCEPT !.mode = "expect semicolon"])
  <2> HIDE DEF r
  <2>1. IsParser(clear_name_stack(r))
    BY <1>5, HelpersKeep
  <2>2. IsParser([r EXCEPT !.mode = "expect semicolon"])
    BY <1>5 DEF IsParser, ParserModes
  <2> QED
    BY <2>1, <2>2
<1> QED
  BY <1>2, <1>3, <1>6, Zenon DEF find_close_brace

LEMMA SemicolonKeeps ==
  ASSUME NEW p, IsParser(p), NEW tok
  PROVE  /\ IsParser(clear_name_stack_and_find_semicolon(p, tok))
         /\ IsParser(find_semi_colon(p, tok))
<1> DEFINE pushed == Push(p, tok)
           ended == clear_name_stack(check_properties(switch_to_normal(pushed)))
           q == IF p.colonBraces # 0 THEN p ELSE IF tok = ";" THEN ended ELSE pushed
<1>1. IsParser(pushed) /\ IsParser(Quit(pushed))
  BY HelpersKeep
<1>2. IsParser(ended)
  <2> HIDE DEF pushed
  <2>1. IsParser(switch_to_normal(pushed))
    BY <1>1, HelpersKeep
  <2>2. IsParser(check_properties(switch_to_normal(pushed)))
    BY <2>1, PropertiesKeep
  <2> QED
    BY <2>2, HelpersKeep
<1>3. IsParser(clear_name_stack_and_find_semicolon(p, tok))
  BY <1>1, <1>2, Zenon DEF clear_name_stack_and_find_semicolon
<1>4. IsParser(q)
  <2> HIDE DEF ended, pushed
  <2> QED
    BY <1>1, <1>2
<1>5. IsParser([q EXCEPT !.colonBraces = @ + 1]) /\ IsParser([q EXCEPT !.colonBraces = @ - 1])
  <2> HIDE DEF q
  <2> QED
    BY <1>4 DEF IsParser
<1>6. IsParser(find_semi_colon(p, tok))
  BY <1>4, <1>5, Zenon DEF find_semi_colon
<1> QED
  BY <1>3, <1>6

LEMMA TemplateKeeps ==
  ASSUME NEW p, IsParser(p), NEW tok
  PROVE  IsParser(collect_template(p, tok)) /\ IsParser(TemplateClass(p, tok))
<1> DEFINE q == CASE tok = "<" -> [p EXCEPT !.angles = @ + 1]
                  [] tok = ">" -> IF p.angles = 1 THEN TemplateEnds([p EXCEPT !.angles = 0])
                                  ELSE [p EXCEPT !.angles = @ - 1]
                  [] tok \in ClassKeys ->
                       [p EXCEPT !.hadClass = @ \/ p.angles > 0, !.instantiation = TRUE,
                                 !.mode = "template class"]
                  [] OTHER -> p
           t == [p EXCEPT !.mode = "collect template"]
<1>1. /\ IsParser([p EXCEPT !.angles = @ + 1]) /\ IsParser([p EXCEPT !.angles = 0])
      /\ IsParser([p EXCEPT !.angles = @ - 1])
  BY DEF IsParser
<1>2. IsParser(TemplateEnds([p EXCEPT !.angles = 0]))
  BY <1>1, TemplateEndsKeeps
<1>3. IsParser([p EXCEPT !.hadClass = @ \/ p.angles > 0, !.instantiation = TRUE,
                         !.mode = "template class"])
  BY DEF IsParser, ParserModes
<1>4. IsParser(q)
  BY <1>1, <1>2, <1>3, Zenon
<1>5. collect_template(p, tok) = IF p.keepsNames THEN Push(q, tok) ELSE q
  BY Zenon DEF collect_template
<1>6. IsParser(t)
  BY DEF IsParser, ParserModes
<1>7. TemplateClass(p, tok) = IF p.keepsNames THEN Push(t, tok) ELSE t
  BY Zenon DEF TemplateClass
<1> HIDE DEF q, t
<1> QED
  BY <1>4, <1>5, <1>6, <1>7, HelpersKeep

LEMMA CollectKeeps ==
  ASSUME NEW p, IsParser(p), NEW tok
  PROVE  /\ IsParser(collect_ns(p, tok)) /\ IsParser(collect_class(p, tok))
         /\ IsParser(collect_enum(p, tok)) /\ IsParser(find_class_end(p, tok))
<1>1. IsParser(collect_ns(p, tok))
  <2> DEFINE q == [p EXCEPT !.stack = Append(@,
                      [current |-> IF p.part = "" THEN "<anon>" ELSE p.part, had |-> {}])]
  <2>1. IsParser(q)
    BY DEF IsParser
  <2>2. IsParser(switch_to_normal(q))
    <3> HIDE DEF q
    <3> QED
      BY <2>1, HelpersKeep
  <2>3. IsParser([p EXCEPT !.mode = "find semicolon"]) /\ IsParser([p EXCEPT !.part = tok])
    BY DEF IsParser, ParserModes
  <2> QED
    BY <2>2, <2>3, Zenon DEF collect_ns
<1>2. /\ IsParser(switch_to_normal(p)) /\ IsParser(IndexError(p)) /\ IsParser(Push(p, tok))
      /\ IsParser(Quit(p))
  BY HelpersKeep
<1>3. IsParser(clear_name_stack(Had(switch_to_normal(p), "forward")))
  <2>1. IsParser(Had(switch_to_normal(p), "forward"))
    BY <1>2, HelpersKeep
  <2> QED
    BY <2>1, HelpersKeep
<1>4. IsParser(clear_name_stack(switch_to_normal(p)))
  BY <1>2, HelpersKeep
<1>5. IsParser([p EXCEPT !.braces = @ + 1, !.mode = "inside"])
  BY DEF IsParser, ParserModes
<1>6. /\ IsParser(Had([p EXCEPT !.braces = @ + 1, !.mode = "inside"], "class"))
      /\ IsParser(Had([p EXCEPT !.braces = @ + 1, !.mode = "inside"], "enum"))
  BY <1>5, HelpersKeep
<1>7. IsParser(collect_class(p, tok))
  BY <1>2, <1>3, <1>6, Zenon DEF collect_class
<1>8. IsParser(collect_enum(p, tok))
  BY <1>2, <1>3, <1>6, Zenon DEF collect_enum
<1>9. IsParser([p EXCEPT !.braces = @ + 1]) /\ IsParser([p EXCEPT !.braces = @ - 1])
  BY DEF IsParser
<1>10. IsParser(find_class_end(p, tok))
  BY <1>2, <1>4, <1>9, Zenon DEF find_class_end
<1> QED
  BY <1>1, <1>7, <1>8, <1>10

LEMMA NormalKeeps ==
  ASSUME NEW p, IsParser(p), NEW tok
  PROVE  IsParser(parse_normal(p, tok))
<1>1. IsParser(Push(p, tok)) /\ IsParser(Quit(p)) /\ IsParser(add_namespace(p))
  BY HelpersKeep
<1>2. IsParser(_parse_normal_name(p, tok))
  <2>1. /\ IsParser([p EXCEPT !.mode = "collect ns", !.part = ""])
        /\ IsParser([p EXCEPT !.mode = "collect template", !.keepsNames = FALSE])
    BY DEF IsParser, ParserModes
  <2>2. /\ IsParser([Push(p, tok) EXCEPT !.mode = "collect class"])
        /\ IsParser([Push(p, tok) EXCEPT !.mode = "collect enum"])
        /\ IsParser([Push(p, tok) EXCEPT !.mode = "find semicolon"])
        /\ IsParser([Push(p, tok) EXCEPT !.mode = "operator"])
    BY <1>1 DEF IsParser, ParserModes
  <2> QED
    BY <1>1, <2>1, <2>2, Zenon DEF _parse_normal_name
<1>3. IsParser(_parse_normal_precomp_macro(p, tok))
  <2>1. IsParser(Had(p, "include"))
    BY HelpersKeep
  <2>2. IsParser([p EXCEPT !.errors = @ \cup {"preprocessorOther"}])
    BY DEF IsParser
  <2> QED
    BY <2>1, <2>2, Zenon DEF _parse_normal_precomp_macro
<1>4. IsParser(_parse_normal_brace(p, tok))
  <2>1. IsParser(find_close_brace(p, tok))
    BY BraceKeeps
  <2> QED
    BY <2>1 DEF _parse_normal_brace, IsParser, ParserModes
<1>5. IsParser(_parse_normal_semi_colon(p))
  <2>1. IsParser(Had(p, "func"))
    BY HelpersKeep
  <2>2. IsParser(IF HasAll(p, {"(", ")"}) THEN Had(p, "func") ELSE p)
    BY <2>1
  <2> QED
    BY <2>2, HelpersKeep DEF _parse_normal_semi_colon
<1>6. IsParser(collect_template([p EXCEPT !.mode = "collect template", !.keepsNames = TRUE], tok))
  <2>1. IsParser([p EXCEPT !.mode = "collect template", !.keepsNames = TRUE])
    BY DEF IsParser, ParserModes
  <2> QED
    BY <2>1, TemplateKeeps
<1>7. IsParser([find_close_paren(p, tok) EXCEPT !.mode = "find closing paren"])
  <2>1. IsParser(find_close_paren(p, tok))
    BY ParenKeeps
  <2> QED
    BY <2>1 DEF IsParser, ParserModes
<1>8. IsParser([Push(p, tok) EXCEPT !.mode = "find semicolon"])
  BY <1>1 DEF IsParser, ParserModes
<1> QED
  BY <1>1, <1>2, <1>3, <1>4, <1>5, <1>6, <1>7, <1>8, Zenon DEF parse_normal

LEMMA OperatorKeeps ==
  ASSUME NEW p, IsParser(p), NEW tok
  PROVE  IsParser(collect_operator(p, tok))
<1>1. IsParser(Push(p, tok)) /\ IsParser(Quit(p))
  BY HelpersKeep
<1>2. IsParser([Push(p, tok) EXCEPT !.mode = "normal"])
  BY <1>1 DEF IsParser, ParserModes
<1>3. IsParser([p EXCEPT !.mode = "normal"])
  BY DEF IsParser, ParserModes
<1>4. IsParser(parse_normal([p EXCEPT !.mode = "normal"], tok))
  BY <1>3, NormalKeeps
<1> QED
  BY <1>1, <1>2, <1>4, Zenon DEF collect_operator

LEMMA StepIsParser ==
  ASSUME NEW p, IsParser(p), NEW tok
  PROVE  IsParser(ParserStep(p, tok))
<1>1. /\ IsParser(parse_normal(p, tok)) /\ IsParser(collect_template(p, tok))
      /\ IsParser(TemplateClass(p, tok)) /\ IsParser(find_close_paren(p, tok))
      /\ IsParser(find_close_brace(p, tok)) /\ IsParser(collect_operator(p, tok))
  BY NormalKeeps, TemplateKeeps, ParenKeeps, BraceKeeps, OperatorKeeps
<1>2. /\ IsParser(collect_ns(p, tok)) /\ IsParser(collect_class(p, tok))
      /\ IsParser(collect_enum(p, tok)) /\ IsParser(find_class_end(p, tok))
      /\ IsParser(find_semi_colon(p, tok)) /\ IsParser(clear_name_stack_and_find_semicolon(p, tok))
  BY CollectKeeps, SemicolonKeeps
<1>3. IsParser([Push(p, tok) EXCEPT !.operator = tok, !.mode = "operator 2"])
  <2>1. IsParser(Push(p, tok))
    BY HelpersKeep
  <2> QED
    BY <2>1 DEF IsParser, ParserModes
<1>4. p.mode \in ParserModes
  BY DEF IsParser
<1> QED
  BY <1>1, <1>2, <1>3, <1>4, Zenon DEF ParserStep, ParserModes

LEMMA EndIsParser ==
  ASSUME NEW p, IsParser(p)
  PROVE  IsParser(ParserEnd(p))
<1>1. IsParser([p EXCEPT !.end = "read"]) /\ IsParser(IndexError(p))
  BY DEF IsParser, IndexError
<1> QED
  BY <1>1, Zenon DEF ParserEnd

\* The parser takes the tokens of a line one after the other.
LEMMA LineIsParsed ==
  ASSUME NEW p, NEW toks, Len(toks) \in Nat
  PROVE  /\ DOMAIN ParserAfter(p, toks) = 0 .. Len(toks)
         /\ ParserAfter(p, toks)[0] = p
         /\ \A i \in 1 .. Len(toks) : ParserAfter(p, toks)[i] = ParserStep(ParserAfter(p, toks)[i - 1], toks[i])
<1> DEFINE Rec(g, k) == g = [i \in 0 .. k |-> IF i = 0 THEN p ELSE ParserStep(g[i - 1], toks[i])]
           S == {k \in Nat : \E g : Rec(g, k)}
<1>1. 0 \in S
  <2> DEFINE g == [i \in 0 .. 0 |-> p]
  <2>1. Rec(g, 0)
    OBVIOUS
  <2> QED
    BY <2>1
<1>2. ASSUME NEW k \in Nat, k \in S PROVE k + 1 \in S
  <2>1. PICK g : Rec(g, k)
    BY <1>2
  <2> DEFINE h == [i \in 0 .. (k + 1) |-> IF i = k + 1 THEN ParserStep(g[k], toks[k + 1]) ELSE g[i]]
  <2>2. ASSUME NEW i \in 0 .. (k + 1)
        PROVE  h[i] = IF i = 0 THEN p ELSE ParserStep(h[i - 1], toks[i])
    <3>1. CASE i = k + 1
      <4>1. i # 0 /\ i - 1 = k /\ i - 1 # k + 1 /\ i - 1 \in 0 .. (k + 1)
        BY <3>1
      <4>2. h[i] = ParserStep(g[k], toks[k + 1])
        BY <3>1
      <4>3. h[i - 1] = g[k]
        BY <4>1
      <4> HIDE DEF h
      <4> QED
        BY <3>1, <4>1, <4>2, <4>3, Zenon
    <3>2. CASE i # k + 1
      <4>1. h[i] = g[i]
        BY <3>2
      <4>2. i \in 0 .. k
        BY <3>2
      <4>3. g[i] = IF i = 0 THEN p ELSE ParserStep(g[i - 1], toks[i])
        BY <2>1, <4>2
      <4>4. i # 0 => h[i - 1] = g[i - 1]
        BY <4>2
      <4> QED
        BY <4>1, <4>3, <4>4
    <3> QED
      BY <3>1, <3>2
  <2>3. Rec(h, k + 1)
    <3> DEFINE b == [i \in 0 .. (k + 1) |-> IF i = 0 THEN p ELSE ParserStep(h[i - 1], toks[i])]
    <3>1. h = b
      <4> HIDE DEF h
      <4>1. h = [i \in 0 .. (k + 1) |-> h[i]]
        BY DEF h
      <4> QED
        BY <4>1, <2>2
    <3> QED
      BY <3>1
  <2> HIDE DEF h
  <2> QED
    BY <2>3
<1>3. Len(toks) \in S
  <2> HIDE DEF S
  <2> QED
    BY <1>1, <1>2, CountingUp
<1>4. ParserAfter(p, toks) = CHOOSE g : Rec(g, Len(toks))
  BY DEF ParserAfter
<1>5. Rec(ParserAfter(p, toks), Len(toks))
  <2>1. \E g : Rec(g, Len(toks))
    BY <1>3
  <2> HIDE DEF Rec
  <2> QED
    BY <1>4, <2>1
<1>6. DOMAIN ParserAfter(p, toks) = 0 .. Len(toks)
  BY <1>5
<1>7. ASSUME NEW i \in 0 .. Len(toks)
      PROVE  ParserAfter(p, toks)[i] = IF i = 0 THEN p ELSE ParserStep(ParserAfter(p, toks)[i - 1], toks[i])
  BY <1>5
<1>8. 0 \in 0 .. Len(toks) /\ \A i \in 1 .. Len(toks) : i \in 0 .. Len(toks) /\ i # 0
  OBVIOUS
<1> HIDE DEF Rec
<1> QED
  BY <1>6, <1>7, <1>8

LEMMA AfterIsParser ==
  ASSUME NEW p, IsParser(p), NEW toks, Len(toks) \in Nat
  PROVE  IsParser(ParserAfter(p, toks)[Len(toks)])
<1> DEFINE S == {k \in Nat : k <= Len(toks) => IsParser(ParserAfter(p, toks)[k])}
<1>1. /\ ParserAfter(p, toks)[0] = p
      /\ \A i \in 1 .. Len(toks) :
           ParserAfter(p, toks)[i] = ParserStep(ParserAfter(p, toks)[i - 1], toks[i])
  BY LineIsParsed
<1>2. 0 \in S
  BY <1>1
<1>3. ASSUME NEW k \in Nat, k \in S PROVE k + 1 \in S
  <2> SUFFICES ASSUME k + 1 <= Len(toks) PROVE IsParser(ParserAfter(p, toks)[k + 1])
    OBVIOUS
  <2>1. ParserAfter(p, toks)[k + 1] = ParserStep(ParserAfter(p, toks)[k], toks[k + 1])
    <3>1. k + 1 \in 1 .. Len(toks) /\ (k + 1) - 1 = k
      OBVIOUS
    <3> QED
      BY <1>1, <3>1
  <2>2. IsParser(ParserAfter(p, toks)[k])
    BY <1>3
  <2> QED
    BY <2>1, <2>2, StepIsParser
<1>4. Len(toks) \in S
  <2> HIDE DEF S
  <2> QED
    BY <1>2, <1>3, CountingUp
<1> QED
  BY <1>4

-----------------------------------------------------------------------------
(* Texts, and how a parser reads them.                                     *)

\* Every string is a token; the provers cannot tell of these that they are strings.
AnyToken == STRING \cup {"(", ")", "<", ">", "=", "{", "}", ";", "namespace", "template", "using", "operator"}
             \cup ClassKeys \cup {"enum", "<anon>"} \cup Directives

\* The tokens of texts are tokens, and so are the marks that pieces are made of.
LEMMA TokensAre ==
  /\ \A toks \in Seq(STRING) : toks \in Seq(AnyToken)
  /\ {"(", ")", "<", ">", "=", "namespace", "template", "using", "operator", "enum", "<anon>"} \subseteq AnyToken
  /\ STRING \subseteq AnyToken /\ ClassKeys \subseteq AnyToken /\ Directives \subseteq AnyToken
<1>1. STRING \subseteq AnyToken /\ ClassKeys \subseteq AnyToken /\ Directives \subseteq AnyToken
  BY Zenon DEF AnyToken
<1>2. {"(", ")", "<", ">", "=", "namespace", "template", "using", "operator", "enum", "<anon>"} \subseteq AnyToken
  BY Zenon DEF AnyToken
<1>3. ASSUME NEW toks \in Seq(STRING) PROVE toks \in Seq(AnyToken)
  <2>1. Len(toks) \in Nat /\ toks \in [1 .. Len(toks) -> STRING]
    OBVIOUS
  <2>2. toks \in [1 .. Len(toks) -> AnyToken]
    BY <1>1, <2>1
  <2> QED
    BY <2>1, <2>2
<1> QED
  BY <1>1, <1>2, <1>3

\* The parser after a text.
Reads(p, toks) == ParserAfter(p, toks)[Len(toks)]

\* Nothing is read of an empty text, and of one token what the parser does with it.
LEMMA ReadsNothing ==
  ASSUME NEW p
  PROVE  Reads(p, <<>>) = p
  BY LineIsParsed DEF Reads

LEMMA ReadsOne ==
  ASSUME NEW p, NEW tok
  PROVE  Reads(p, <<tok>>) = ParserStep(p, tok)
<1> DEFINE toks == <<tok>>
<1>1. Len(toks) = 1 /\ toks[1] = tok /\ 1 \in 1 .. Len(toks) /\ 1 - 1 = 0 /\ Len(toks) \in Nat
  OBVIOUS
<1> HIDE DEF toks
<1>2. ParserAfter(p, toks)[1] = ParserStep(ParserAfter(p, toks)[0], toks[1]) /\ ParserAfter(p, toks)[0] = p
  <2>1. Len(toks) \in Nat
    BY <1>1
  <2>2. /\ ParserAfter(p, toks)[0] = p
        /\ \A i \in 1 .. Len(toks) : ParserAfter(p, toks)[i] = ParserStep(ParserAfter(p, toks)[i - 1], toks[i])
    BY <2>1, LineIsParsed
  <2> QED
    BY <1>1, <2>2
<1>3. Reads(p, toks) = ParserStep(p, tok)
  BY <1>1, <1>2 DEF Reads
<1> QED
  BY <1>3 DEF toks

\* A text after another one is read by the parser that the first one left.
LEMMA ReadsOn ==
  ASSUME NEW p, NEW a \in Seq(AnyToken), NEW b \in Seq(AnyToken)
  PROVE  Reads(p, a \o b) = Reads(Reads(p, a), b)
<1> DEFINE c == a \o b
           m == Len(a)
           n == Len(b)
           q == Reads(p, a)
<1>1. /\ m \in Nat /\ n \in Nat /\ Len(c) = m + n /\ Len(c) \in Nat
      /\ \A i \in 1 .. m : c[i] = a[i]
      /\ \A i \in 1 .. n : c[m + i] = b[i]
  <2>1. /\ Len(a) \in Nat /\ Len(b) \in Nat /\ Len(a \o b) = Len(a) + Len(b)
        /\ \A i \in 1 .. Len(a) + Len(b) : (a \o b)[i] = IF i <= Len(a) THEN a[i] ELSE b[i - Len(a)]
    BY ConcatProperties, LenProperties
  <2>2. \A i \in 1 .. m : i \in 1 .. Len(a) + Len(b) /\ i <= Len(a)
    BY <2>1
  <2>3. \A i \in 1 .. n : m + i \in 1 .. Len(a) + Len(b) /\ ~(m + i <= Len(a)) /\ (m + i) - Len(a) = i
    BY <2>1
  <2> QED
    BY <2>1, <2>2, <2>3
<1> HIDE DEF c, m, n
<1>2. /\ ParserAfter(p, a)[0] = p /\ ParserAfter(p, c)[0] = p /\ ParserAfter(q, b)[0] = q
      /\ \A i \in 1 .. m : ParserAfter(p, a)[i] = ParserStep(ParserAfter(p, a)[i - 1], a[i])
      /\ \A i \in 1 .. n : ParserAfter(q, b)[i] = ParserStep(ParserAfter(q, b)[i - 1], b[i])
      /\ \A i \in 1 .. m + n : ParserAfter(p, c)[i] = ParserStep(ParserAfter(p, c)[i - 1], c[i])
  <2>1. Len(a) \in Nat /\ Len(b) \in Nat
    BY LenProperties
  <2>2. /\ ParserAfter(p, a)[0] = p
        /\ \A i \in 1 .. Len(a) : ParserAfter(p, a)[i] = ParserStep(ParserAfter(p, a)[i - 1], a[i])
    BY <2>1, LineIsParsed
  <2>3. /\ ParserAfter(q, b)[0] = q
        /\ \A i \in 1 .. Len(b) : ParserAfter(q, b)[i] = ParserStep(ParserAfter(q, b)[i - 1], b[i])
    BY <2>1, LineIsParsed
  <2>4. Len(c) \in Nat
    BY <1>1
  <2>5. /\ ParserAfter(p, c)[0] = p
        /\ \A i \in 1 .. Len(c) : ParserAfter(p, c)[i] = ParserStep(ParserAfter(p, c)[i - 1], c[i])
    BY <2>4, LineIsParsed
  <2> QED
    BY <2>2, <2>3, <2>5, <1>1 DEF m, n
<1> DEFINE S == {k \in Nat : k <= m => ParserAfter(p, c)[k] = ParserAfter(p, a)[k]}
           T == {k \in Nat : k <= n => ParserAfter(p, c)[m + k] = ParserAfter(q, b)[k]}
<1>3. m \in S
  <2>1. 0 \in S
    BY <1>2
  <2>2. ASSUME NEW k \in Nat, k \in S PROVE k + 1 \in S
    <3> SUFFICES ASSUME k + 1 <= m PROVE ParserAfter(p, c)[k + 1] = ParserAfter(p, a)[k + 1]
      OBVIOUS
    <3>1. k + 1 \in 1 .. m /\ k + 1 \in 1 .. m + n /\ (k + 1) - 1 = k
      BY <1>1
    <3>2. ParserAfter(p, c)[k] = ParserAfter(p, a)[k]
      <4>1. k <= m
        BY <1>1
      <4> QED
        BY <2>2, <4>1
    <3> QED
      BY <3>1, <3>2, <1>1, <1>2
  <2> HIDE DEF S
  <2> QED
    BY <2>1, <2>2, <1>1, CountingUp
<1>4. ParserAfter(p, c)[m] = q
  BY <1>1, <1>3 DEF q, Reads, m
<1>5. n \in T
  <2>1. 0 \in T
    <3>1. m + 0 = m
      BY <1>1
    <3> HIDE DEF q
    <3>2. ParserAfter(p, c)[m + 0] = ParserAfter(q, b)[0]
      BY <3>1, <1>4, <1>2
    <3> QED
      BY <3>2
  <2>2. ASSUME NEW k \in Nat, k \in T PROVE k + 1 \in T
    <3> SUFFICES ASSUME k + 1 <= n PROVE ParserAfter(p, c)[m + (k + 1)] = ParserAfter(q, b)[k + 1]
      OBVIOUS
    <3>1. /\ k + 1 \in 1 .. n /\ m + (k + 1) \in 1 .. m + n /\ (k + 1) - 1 = k
          /\ (m + (k + 1)) - 1 = m + k
      BY <1>1
    <3>2. ParserAfter(p, c)[m + k] = ParserAfter(q, b)[k]
      <4>1. k <= n
        BY <1>1
      <4> HIDE DEF q
      <4> QED
        BY <2>2, <4>1
    <3> HIDE DEF q
    <3>3. ParserAfter(p, c)[m + (k + 1)] = ParserStep(ParserAfter(p, c)[m + k], c[m + (k + 1)])
      BY <3>1, <1>2
    <3>4. ParserAfter(q, b)[k + 1] = ParserStep(ParserAfter(q, b)[k], b[k + 1])
      BY <3>1, <1>2
    <3>5. c[m + (k + 1)] = b[k + 1]
      BY <3>1, <1>1
    <3> QED
      BY <3>2, <3>3, <3>4, <3>5
  <2> HIDE DEF T
  <2> QED
    BY <2>1, <2>2, <1>1, CountingUp
<1>6. ParserAfter(p, c)[m + n] = ParserAfter(q, b)[n]
  BY <1>1, <1>5
<1>7. Reads(p, c) = Reads(q, b)
  BY <1>1, <1>6 DEF Reads, n
<1> QED
  BY <1>7 DEF c

\* The sequences of a list are joined one after the other.
LEMMA ListIsJoined ==
  ASSUME NEW list, Len(list) \in Nat
  PROVE  /\ DOMAIN JoinedTo(list) = 0 .. Len(list)
         /\ JoinedTo(list)[0] = <<>>
         /\ \A i \in 1 .. Len(list) : JoinedTo(list)[i] = JoinedTo(list)[i - 1] \o list[i]
<1> DEFINE Rec(g, k) == g = [i \in 0 .. k |-> IF i = 0 THEN <<>> ELSE g[i - 1] \o list[i]]
           S == {k \in Nat : \E g : Rec(g, k)}
<1>1. 0 \in S
  <2> DEFINE g == [i \in 0 .. 0 |-> <<>>]
  <2>1. Rec(g, 0)
    OBVIOUS
  <2> QED
    BY <2>1
<1>2. ASSUME NEW k \in Nat, k \in S PROVE k + 1 \in S
  <2>1. PICK g : Rec(g, k)
    BY <1>2
  <2> DEFINE h == [i \in 0 .. (k + 1) |-> IF i = k + 1 THEN g[k] \o list[k + 1] ELSE g[i]]
  <2>2. ASSUME NEW i \in 0 .. (k + 1)
        PROVE  h[i] = IF i = 0 THEN <<>> ELSE h[i - 1] \o list[i]
    <3>1. CASE i = k + 1
      <4>1. i # 0 /\ i - 1 = k /\ i - 1 # k + 1 /\ i - 1 \in 0 .. (k + 1)
        BY <3>1
      <4>2. h[i] = g[k] \o list[k + 1]
        BY <3>1
      <4>3. h[i - 1] = g[k]
        BY <4>1
      <4> HIDE DEF h
      <4> QED
        BY <3>1, <4>1, <4>2, <4>3, Zenon
    <3>2. CASE i # k + 1
      <4>1. h[i] = g[i]
        BY <3>2
      <4>2. i \in 0 .. k
        BY <3>2
      <4>3. g[i] = IF i = 0 THEN <<>> ELSE g[i - 1] \o list[i]
        BY <2>1, <4>2
      <4>4. i # 0 => h[i - 1] = g[i - 1]
        BY <4>2
      <4> QED
        BY <4>1, <4>3, <4>4
    <3> QED
      BY <3>1, <3>2
  <2>3. Rec(h, k + 1)
    <3> DEFINE b == [i \in 0 .. (k + 1) |-> IF i = 0 THEN <<>> ELSE h[i - 1] \o list[i]]
    <3>1. h = b
      <4> HIDE DEF h
      <4>1. h = [i \in 0 .. (k + 1) |-> h[i]]
        BY DEF h
      <4> QED
        BY <4>1, <2>2
    <3> QED
      BY <3>1
  <2> HIDE DEF h
  <2> QED
    BY <2>3
<1>3. Len(list) \in S
  <2> HIDE DEF S
  <2> QED
    BY <1>1, <1>2, CountingUp
<1>4. JoinedTo(list) = CHOOSE g : Rec(g, Len(list))
  BY DEF JoinedTo
<1>5. Rec(JoinedTo(list), Len(list))
  <2>1. \E g : Rec(g, Len(list))
    BY <1>3
  <2> HIDE DEF Rec
  <2> QED
    BY <1>4, <2>1
<1>6. DOMAIN JoinedTo(list) = 0 .. Len(list)
  BY <1>5
<1>7. ASSUME NEW i \in 0 .. Len(list)
      PROVE  JoinedTo(list)[i] = IF i = 0 THEN <<>> ELSE JoinedTo(list)[i - 1] \o list[i]
  BY <1>5
<1>8. 0 \in 0 .. Len(list) /\ \A i \in 1 .. Len(list) : i \in 0 .. Len(list) /\ i # 0
  OBVIOUS
<1> HIDE DEF Rec
<1> QED
  BY <1>6, <1>7, <1>8

\* Brackets are counted one after the other.
LEMMA NestingCounts ==
  ASSUME NEW toks, NEW open, NEW close, Len(toks) \in Nat
  PROVE  /\ DOMAIN Nesting(toks, open, close) = 0 .. Len(toks)
         /\ Nesting(toks, open, close)[0] = 0
         /\ \A i \in 1 .. Len(toks) : Nesting(toks, open, close)[i] = Nesting(toks, open, close)[i - 1] + Weight(toks[i], open, close)
<1> DEFINE Rec(g, k) == g = [i \in 0 .. k |-> IF i = 0 THEN 0 ELSE g[i - 1] + Weight(toks[i], open, close)]
           S == {k \in Nat : \E g : Rec(g, k)}
<1>1. 0 \in S
  <2> DEFINE g == [i \in 0 .. 0 |-> 0]
  <2>1. Rec(g, 0)
    OBVIOUS
  <2> QED
    BY <2>1
<1>2. ASSUME NEW k \in Nat, k \in S PROVE k + 1 \in S
  <2>1. PICK g : Rec(g, k)
    BY <1>2
  <2> DEFINE h == [i \in 0 .. (k + 1) |-> IF i = k + 1 THEN g[k] + Weight(toks[k + 1], open, close) ELSE g[i]]
  <2>2. ASSUME NEW i \in 0 .. (k + 1)
        PROVE  h[i] = IF i = 0 THEN 0 ELSE h[i - 1] + Weight(toks[i], open, close)
    <3>1. CASE i = k + 1
      <4>1. i # 0 /\ i - 1 = k /\ i - 1 # k + 1 /\ i - 1 \in 0 .. (k + 1)
        BY <3>1
      <4>2. h[i] = g[k] + Weight(toks[k + 1], open, close)
        BY <3>1
      <4>3. h[i - 1] = g[k]
        BY <4>1
      <4> HIDE DEF h
      <4> QED
        BY <3>1, <4>1, <4>2, <4>3, Zenon
    <3>2. CASE i # k + 1
      <4>1. h[i] = g[i]
        BY <3>2
      <4>2. i \in 0 .. k
        BY <3>2
      <4>3. g[i] = IF i = 0 THEN 0 ELSE g[i - 1] + Weight(toks[i], open, close)
        BY <2>1, <4>2
      <4>4. i # 0 => h[i - 1] = g[i - 1]
        BY <4>2
      <4> QED
        BY <4>1, <4>3, <4>4
    <3> QED
      BY <3>1, <3>2
  <2>3. Rec(h, k + 1)
    <3> DEFINE b == [i \in 0 .. (k + 1) |-> IF i = 0 THEN 0 ELSE h[i - 1] + Weight(toks[i], open, close)]
    <3>1. h = b
      <4> HIDE DEF h
      <4>1. h = [i \in 0 .. (k + 1) |-> h[i]]
        BY DEF h
      <4> QED
        BY <4>1, <2>2
    <3> QED
      BY <3>1
  <2> HIDE DEF h
  <2> QED
    BY <2>3
<1>3. Len(toks) \in S
  <2> HIDE DEF S
  <2> QED
    BY <1>1, <1>2, CountingUp
<1>4. Nesting(toks, open, close) = CHOOSE g : Rec(g, Len(toks))
  BY DEF Nesting
<1>5. Rec(Nesting(toks, open, close), Len(toks))
  <2>1. \E g : Rec(g, Len(toks))
    BY <1>3
  <2> HIDE DEF Rec
  <2> QED
    BY <1>4, <2>1
<1>6. DOMAIN Nesting(toks, open, close) = 0 .. Len(toks)
  BY <1>5
<1>7. ASSUME NEW i \in 0 .. Len(toks)
      PROVE  Nesting(toks, open, close)[i] = IF i = 0 THEN 0 ELSE Nesting(toks, open, close)[i - 1] + Weight(toks[i], open, close)
  BY <1>5
<1>8. 0 \in 0 .. Len(toks) /\ \A i \in 1 .. Len(toks) : i \in 0 .. Len(toks) /\ i # 0
  OBVIOUS
<1> HIDE DEF Rec
<1> QED
  BY <1>6, <1>7, <1>8

\* The path follows the pieces.
LEMMA PathsFollow ==
  ASSUME NEW pieces, Len(pieces) \in Nat
  PROVE  /\ DOMAIN PathAt(pieces) = 0 .. Len(pieces)
         /\ PathAt(pieces)[0] = <<>>
         /\ \A i \in 1 .. Len(pieces) : PathAt(pieces)[i] = PathOn(PathAt(pieces)[i - 1], pieces[i])
<1> DEFINE Rec(g, k) == g = [i \in 0 .. k |-> IF i = 0 THEN <<>> ELSE PathOn(g[i - 1], pieces[i])]
           S == {k \in Nat : \E g : Rec(g, k)}
<1>1. 0 \in S
  <2> DEFINE g == [i \in 0 .. 0 |-> <<>>]
  <2>1. Rec(g, 0)
    OBVIOUS
  <2> QED
    BY <2>1
<1>2. ASSUME NEW k \in Nat, k \in S PROVE k + 1 \in S
  <2>1. PICK g : Rec(g, k)
    BY <1>2
  <2> DEFINE h == [i \in 0 .. (k + 1) |-> IF i = k + 1 THEN PathOn(g[k], pieces[k + 1]) ELSE g[i]]
  <2>2. ASSUME NEW i \in 0 .. (k + 1)
        PROVE  h[i] = IF i = 0 THEN <<>> ELSE PathOn(h[i - 1], pieces[i])
    <3>1. CASE i = k + 1
      <4>1. i # 0 /\ i - 1 = k /\ i - 1 # k + 1 /\ i - 1 \in 0 .. (k + 1)
        BY <3>1
      <4>2. h[i] = PathOn(g[k], pieces[k + 1])
        BY <3>1
      <4>3. h[i - 1] = g[k]
        BY <4>1
      <4> HIDE DEF h
      <4> QED
        BY <3>1, <4>1, <4>2, <4>3, Zenon
    <3>2. CASE i # k + 1
      <4>1. h[i] = g[i]
        BY <3>2
      <4>2. i \in 0 .. k
        BY <3>2
      <4>3. g[i] = IF i = 0 THEN <<>> ELSE PathOn(g[i - 1], pieces[i])
        BY <2>1, <4>2
      <4>4. i # 0 => h[i - 1] = g[i - 1]
        BY <4>2
      <4> QED
        BY <4>1, <4>3, <4>4
    <3> QED
      BY <3>1, <3>2
  <2>3. Rec(h, k + 1)
    <3> DEFINE b == [i \in 0 .. (k + 1) |-> IF i = 0 THEN <<>> ELSE PathOn(h[i - 1], pieces[i])]
    <3>1. h = b
      <4> HIDE DEF h
      <4>1. h = [i \in 0 .. (k + 1) |-> h[i]]
        BY DEF h
      <4> QED
        BY <4>1, <2>2
    <3> QED
      BY <3>1
  <2> HIDE DEF h
  <2> QED
    BY <2>3
<1>3. Len(pieces) \in S
  <2> HIDE DEF S
  <2> QED
    BY <1>1, <1>2, CountingUp
<1>4. PathAt(pieces) = CHOOSE g : Rec(g, Len(pieces))
  BY DEF PathAt
<1>5. Rec(PathAt(pieces), Len(pieces))
  <2>1. \E g : Rec(g, Len(pieces))
    BY <1>3
  <2> HIDE DEF Rec
  <2> QED
    BY <1>4, <2>1
<1>6. DOMAIN PathAt(pieces) = 0 .. Len(pieces)
  BY <1>5
<1>7. ASSUME NEW i \in 0 .. Len(pieces)
      PROVE  PathAt(pieces)[i] = IF i = 0 THEN <<>> ELSE PathOn(PathAt(pieces)[i - 1], pieces[i])
  BY <1>5
<1>8. 0 \in 0 .. Len(pieces) /\ \A i \in 1 .. Len(pieces) : i \in 0 .. Len(pieces) /\ i # 0
  OBVIOUS
<1> HIDE DEF Rec
<1> QED
  BY <1>6, <1>7, <1>8


-----------------------------------------------------------------------------
(* What a parser does with a token.                                        *)

ParserFields ==
    {"mode", "part", "stack", "angles", "hadClass", "instantiation", "hadParens", "braces",
     "colonBraces", "parens", "names", "callback", "keepsNames", "operator", "namespaces",
     "templateErrors", "errors", "end"}

Names(first, has) == [first |-> first, has |-> has]

\* A parser in a mode that has read these names, inside of these namespaces, with so many
\* brackets open.
Parses(p, mode, names, stack, spaces, angles, braces, colons, parens) ==
    /\ DOMAIN p = ParserFields /\ p.end = "running"
    /\ p.mode = mode /\ p.names = names /\ p.stack = stack /\ p.namespaces = spaces
    /\ p.hadClass = FALSE /\ p.instantiation = FALSE
    /\ p.angles = angles /\ p.braces = braces /\ p.colonBraces = colons /\ p.parens = parens

Ready(p, mode, names, stack, spaces) == Parses(p, mode, names, stack, spaces, 0, 0, 0, 0)

\* Names of the modes and of some tokens, for a prover that reads no strings with braces,
\* semicolons or blanks in them and no empty ones.
NoWord == ""
OpenBrace == "{"
CloseBrace == "}"
Semicolon == ";"
InNs == "collect ns"
InTemplate == "collect template"
InClass == "collect class"
InEnum == "collect enum"
ToSemicolon == "find semicolon"
ToParen == "find closing paren"
ToBrace == "find closing brace"
InOperator == "operator 2"

\* The mode decides which handler takes a token.
LEMMA Handlers ==
  ASSUME NEW p, p.end = "running", NEW tok
  PROVE  /\ p.mode = "normal" => ParserStep(p, tok) = parse_normal(p, tok)
         /\ p.mode = InNs => ParserStep(p, tok) = collect_ns(p, tok)
         /\ p.mode = InTemplate => ParserStep(p, tok) = collect_template(p, tok)
         /\ p.mode = InClass => ParserStep(p, tok) = collect_class(p, tok)
         /\ p.mode = InEnum => ParserStep(p, tok) = collect_enum(p, tok)
         /\ p.mode = "inside" => ParserStep(p, tok) = find_class_end(p, tok)
         /\ p.mode = ToSemicolon => ParserStep(p, tok) = find_semi_colon(p, tok)
         /\ p.mode = ToParen => ParserStep(p, tok) = find_close_paren(p, tok)
         /\ p.mode = ToBrace => ParserStep(p, tok) = find_close_brace(p, tok)
         /\ p.mode = "operator" =>
              ParserStep(p, tok) = [Push(p, tok) EXCEPT !.operator = tok, !.mode = InOperator]
         /\ p.mode = InOperator => ParserStep(p, tok) = collect_operator(p, tok)
  BY Zenon DEF ParserStep, InNs, InTemplate, InClass, InEnum, ToSemicolon, ToParen, ToBrace, InOperator

\* What the parser does between declarations, by token.
LEMMA NormalTokens ==
  ASSUME NEW p, NEW tok
  PROVE  /\ tok = CloseBrace => parse_normal(p, tok) = add_namespace(p)
         /\ tok = "<" => parse_normal(p, tok) =
              collect_template([p EXCEPT !.mode = InTemplate, !.keepsNames = TRUE], tok)
         /\ tok \in Directives => parse_normal(p, tok) = _parse_normal_precomp_macro(p, tok)
         /\ tok \notin NotPlain => parse_normal(p, tok) = Push(p, tok)
         /\ tok = "namespace" => parse_normal(p, tok) = [p EXCEPT !.mode = InNs, !.part = NoWord]
         /\ tok = "template" =>
              parse_normal(p, tok) = [p EXCEPT !.mode = InTemplate, !.keepsNames = FALSE]
         /\ tok \in ClassKeys => parse_normal(p, tok) = [Push(p, tok) EXCEPT !.mode = InClass]
         /\ tok = "enum" => parse_normal(p, tok) = [Push(p, tok) EXCEPT !.mode = InEnum]
         /\ tok = "using" => parse_normal(p, tok) = [Push(p, tok) EXCEPT !.mode = ToSemicolon]
         /\ tok = "operator" => parse_normal(p, tok) = [Push(p, tok) EXCEPT !.mode = "operator"]
  BY Zenon DEF parse_normal, _parse_normal_name, NotPlain, Separators, Directives, Foreign, ClassKeys,
               NoWord, CloseBrace, InNs, InTemplate, InClass, InEnum, ToSemicolon

\* Tokens that end the process unless a declaration has begun.
LEMMA NormalTokensAfterNames ==
  ASSUME NEW p, NEW tok, p.names # NoNames
  PROVE  /\ tok = "(" => parse_normal(p, tok) = [find_close_paren(p, tok) EXCEPT !.mode = ToParen]
         /\ tok = OpenBrace => parse_normal(p, tok) = _parse_normal_brace(p, tok)
         /\ tok = Semicolon => parse_normal(p, tok) = _parse_normal_semi_colon(p)
         /\ tok = "=" => parse_normal(p, tok) = [Push(p, tok) EXCEPT !.mode = ToSemicolon]
  BY Zenon DEF parse_normal, Separators, Directives, Foreign, ClassKeys, OpenBrace, Semicolon,
               ToParen, ToSemicolon

\* The marks differ.
LEMMA TokensDiffer ==
  /\ OpenBrace # CloseBrace /\ OpenBrace # Semicolon /\ CloseBrace # Semicolon
  /\ NoWord # OpenBrace /\ NoWord # CloseBrace /\ NoWord # Semicolon
  BY Zenon DEF OpenBrace, CloseBrace, Semicolon, NoWord

\* A name is pushed.
LEMMA PushMeans ==
  ASSUME NEW p, NEW tok
  PROVE  Push(p, tok) = [p EXCEPT !.names = Names(IF p.names.first = NoWord THEN tok ELSE p.names.first,
                                                   p.names.has \cup {tok})]
  BY Zenon DEF Push, Names, NoWord

\* Between declarations no name was read.
LEMMA NoNamesMeans == NoNames = Names(NoWord, {})
  BY Zenon DEF NoNames, Names, NoWord

\* The tokens up to a place.
Seen(toks, k) == {toks[j] : j \in 1 .. k}

\* The tokens up to a place, one more at a time.
LEMMA SeenGrows ==
  ASSUME NEW toks
  PROVE  /\ Seen(toks, 0) = {}
         /\ \A k \in Nat : Seen(toks, k + 1) = Seen(toks, k) \cup {toks[k + 1]}
         /\ toks \in Seq(STRING) => Seen(toks, Len(toks)) = ToSet(toks)
<1>1. Seen(toks, 0) = {}
  BY DEF Seen
<1>2. ASSUME NEW k \in Nat PROVE Seen(toks, k + 1) = Seen(toks, k) \cup {toks[k + 1]}
  <2>1. 1 .. (k + 1) = (1 .. k) \cup {k + 1}
    OBVIOUS
  <2> QED
    BY <2>1 DEF Seen
<1>3. toks \in Seq(STRING) => Seen(toks, Len(toks)) = ToSet(toks)
  BY DEF Seen, ToSet
<1> QED
  BY <1>1, <1>2, <1>3

\* A text is read token by token.
LEMMA TokenByToken ==
  ASSUME NEW p, NEW toks \in Seq(STRING)
  PROVE  /\ ParserAfter(p, toks)[0] = p
         /\ \A k \in Nat : k + 1 <= Len(toks) =>
              ParserAfter(p, toks)[k + 1] = ParserStep(ParserAfter(p, toks)[k], toks[k + 1])
<1>1. Len(toks) \in Nat
  OBVIOUS
<1>2. /\ ParserAfter(p, toks)[0] = p
      /\ \A i \in 1 .. Len(toks) : ParserAfter(p, toks)[i] = ParserStep(ParserAfter(p, toks)[i - 1], toks[i])
  BY <1>1, LineIsParsed
<1>3. ASSUME NEW k \in Nat, k + 1 <= Len(toks)
      PROVE  ParserAfter(p, toks)[k + 1] = ParserStep(ParserAfter(p, toks)[k], toks[k + 1])
  <2>1. k + 1 \in 1 .. Len(toks) /\ (k + 1) - 1 = k
    BY <1>1, <1>3
  <2> QED
    BY <2>1, <1>2
<1> QED
  BY <1>2, <1>3

\* The number of open brackets, token by token.
LEMMA BracketByBracket ==
  ASSUME NEW toks \in Seq(STRING), NEW open, NEW close
  PROVE  /\ Nesting(toks, open, close)[0] = 0
         /\ \A k \in Nat : k + 1 <= Len(toks) =>
              Nesting(toks, open, close)[k + 1] =
                Nesting(toks, open, close)[k] + Weight(toks[k + 1], open, close)
<1>1. Len(toks) \in Nat
  OBVIOUS
<1>2. /\ Nesting(toks, open, close)[0] = 0
      /\ \A i \in 1 .. Len(toks) :
           Nesting(toks, open, close)[i] = Nesting(toks, open, close)[i - 1] + Weight(toks[i], open, close)
  BY <1>1, NestingCounts
<1>3. ASSUME NEW k \in Nat, k + 1 <= Len(toks)
      PROVE  Nesting(toks, open, close)[k + 1] =
               Nesting(toks, open, close)[k] + Weight(toks[k + 1], open, close)
  <2>1. k + 1 \in 1 .. Len(toks) /\ (k + 1) - 1 = k
    BY <1>1, <1>3
  <2> QED
    BY <2>1, <1>2
<1> QED
  BY <1>2, <1>3

\* In balanced brackets the number of open ones is a natural number, and zero at the end.
LEMMA BracketsAreCounted ==
  ASSUME NEW toks, NEW open, NEW close, Balanced(toks, open, close)
  PROVE  /\ toks \in Seq(STRING) /\ Len(toks) \in Nat
         /\ Nesting(toks, open, close)[0] = 0
         /\ Nesting(toks, open, close)[Len(toks)] = 0
         /\ \A k \in Nat : k <= Len(toks) => Nesting(toks, open, close)[k] \in Nat
<1> DEFINE S == {k \in Nat : k <= Len(toks) => Nesting(toks, open, close)[k] \in Int}
<1>1. toks \in Seq(STRING) /\ Len(toks) \in Nat
  BY DEF Balanced
<1>2. 0 \in S
  BY <1>1, BracketByBracket
<1>3. ASSUME NEW k \in Nat, k \in S PROVE k + 1 \in S
  <2> SUFFICES ASSUME k + 1 <= Len(toks) PROVE Nesting(toks, open, close)[k + 1] \in Int
    OBVIOUS
  <2>1. Nesting(toks, open, close)[k] \in Int
    <3>1. k <= Len(toks)
      BY <1>1
    <3> QED
      BY <3>1, <1>3
  <2>2. Nesting(toks, open, close)[k + 1] =
          Nesting(toks, open, close)[k] + Weight(toks[k + 1], open, close)
    BY <1>1, BracketByBracket
  <2>3. Weight(toks[k + 1], open, close) \in Int
    BY DEF Weight
  <2> QED
    BY <2>1, <2>2, <2>3
<1>4. Nat \subseteq S
  <2> HIDE DEF S
  <2> QED
    BY <1>2, <1>3, CountingUp
<1>5. ASSUME NEW k \in Nat, k <= Len(toks) PROVE Nesting(toks, open, close)[k] \in Nat
  <2>1. Nesting(toks, open, close)[k] \in Int
    BY <1>4, <1>5
  <2>2. Nesting(toks, open, close)[k] >= 0
    <3>1. k \in 0 .. Len(toks)
      BY <1>1, <1>5
    <3> QED
      BY <3>1 DEF Balanced
  <2> QED
    BY <2>1, <2>2
<1>6. Nesting(toks, open, close)[Len(toks)] = 0
  BY DEF Balanced
<1> QED
  BY <1>1, <1>5, <1>6, BracketByBracket

\* A name is pushed.
LEMMA PushKeeps ==
  ASSUME NEW p, DOMAIN p = ParserFields, NEW tok
  PROVE  \A x \in ParserFields \ {"names"} : Push(p, tok)[x] = p[x]
  BY PushMeans DEF ParserFields

\* A name is pushed, and the parser stays where it is.
LEMMA PushParses ==
  ASSUME NEW p, NEW mode, NEW f, NEW h, NEW s, NEW ns, NEW a, NEW b, NEW c, NEW d,
         Parses(p, mode, Names(f, h), s, ns, a, b, c, d), NEW tok
  PROVE  /\ Parses(Push(p, tok), mode, Names(IF f = NoWord THEN tok ELSE f, h \cup {tok}), s, ns, a, b, c, d)
         /\ \A x \in ParserFields \ {"names"} : Push(p, tok)[x] = p[x]
<1>1. p.names.first = f /\ p.names.has = h
  BY DEF Parses, Names
<1>2. Push(p, tok) = [p EXCEPT !.names = Names(IF f = NoWord THEN tok ELSE f, h \cup {tok})]
  BY <1>1, PushMeans
<1>3. \A x \in ParserFields \ {"names"} : Push(p, tok)[x] = p[x]
  BY PushKeeps DEF Parses
<1> QED
  BY <1>2, <1>3 DEF Parses, ParserFields

\* Words are pushed one after the other.
LEMMA WordsAreRead ==
  ASSUME NEW p, NEW f, NEW h, NEW s, NEW ns, Ready(p, "normal", Names(f, h), s, ns),
         NEW toks, NoneOf(toks, NotPlain)
  PROVE  /\ Ready(Reads(p, toks), "normal",
                  Names(IF f = NoWord /\ toks # <<>> THEN toks[1] ELSE f, h \cup ToSet(toks)), s, ns)
         /\ Reads(p, toks).hadParens = p.hadParens
<1> DEFINE q(k) == ParserAfter(p, toks)[k]
           first(k) == IF f = NoWord /\ k > 0 THEN toks[1] ELSE f
           Good(k) == /\ Ready(q(k), "normal", Names(first(k), h \cup Seen(toks, k)), s, ns)
                      /\ q(k).hadParens = p.hadParens
           S == {k \in Nat : k <= Len(toks) => Good(k)}
<1>1. toks \in Seq(STRING) /\ Len(toks) \in Nat
  BY DEF NoneOf
<1>2. ASSUME NEW k \in Nat, k + 1 <= Len(toks) PROVE toks[k + 1] \notin NotPlain /\ toks[k + 1] # NoWord
  <2>1. NoWord \in NotPlain
    BY Zenon DEF NotPlain, NoWord
  <2>2. toks[k + 1] \in ToSet(toks)
    BY <1>1, <1>2 DEF ToSet
  <2> QED
    BY <2>1, <2>2 DEF NoneOf
<1>3. 0 \in S
  <2>1. q(0) = p /\ first(0) = f /\ Seen(toks, 0) = {} /\ h \cup {} = h
    BY <1>1, TokenByToken, SeenGrows
  <2> HIDE DEF q, first
  <2>2. Good(0)
    BY <2>1
  <2> QED
    BY <2>2
<1>4. ASSUME NEW k \in Nat, k \in S PROVE k + 1 \in S
  <2> HIDE DEF Good
  <2> SUFFICES ASSUME k + 1 <= Len(toks) PROVE Good(k + 1)
    OBVIOUS
  <2> DEFINE t == toks[k + 1]
  <2>1. Good(k)
    <3>1. k <= Len(toks)
      BY <1>1
    <3> QED
      BY <3>1, <1>4
  <2>2. q(k + 1) = ParserStep(q(k), t)
    BY <1>1, TokenByToken
  <2>3. t \notin NotPlain /\ t # NoWord
    BY <1>2
  <2>4. q(k + 1) = Push(q(k), t)
    <3>1. q(k).end = "running" /\ q(k).mode = "normal"
      BY <2>1 DEF Good, Ready, Parses
    <3> HIDE DEF q, t
    <3>2. ParserStep(q(k), t) = parse_normal(q(k), t)
      BY <3>1, Handlers
    <3>3. parse_normal(q(k), t) = Push(q(k), t)
      BY <2>3, NormalTokens
    <3> QED
      BY <2>2, <3>2, <3>3
  <2>5. first(k + 1) = (IF first(k) = NoWord THEN t ELSE first(k))
    <3>1. CASE k = 0
      BY <3>1, <2>3
    <3>2. CASE k > 0
      <4>1. toks[1] # NoWord
        <5>1. 0 + 1 <= Len(toks)
          BY <1>1, <3>2
        <5> QED
          BY <1>2, <5>1
      <4> QED
        BY <3>2, <4>1
    <3> QED
      BY <3>1, <3>2
  <2>6. Seen(toks, k + 1) = Seen(toks, k) \cup {t}
    BY SeenGrows
  <2> HIDE DEF q, t, first
  <2>7. /\ Ready(q(k + 1), "normal", Names(first(k + 1), (h \cup Seen(toks, k)) \cup {t}), s, ns)
        /\ \A x \in ParserFields \ {"names"} : q(k + 1)[x] = q(k)[x]
    <3> DEFINE r == q(k)
               g == first(k)
               seen == h \cup Seen(toks, k)
    <3>1. Parses(r, "normal", Names(g, seen), s, ns, 0, 0, 0, 0)
      BY <2>1 DEF Good, Ready
    <3> HIDE DEF r, g, seen
    <3>2. /\ Parses(Push(r, t), "normal", Names(IF g = NoWord THEN t ELSE g, seen \cup {t}), s, ns, 0, 0, 0, 0)
          /\ \A x \in ParserFields \ {"names"} : Push(r, t)[x] = r[x]
      BY <3>1, PushParses
    <3> QED
      BY <3>2, <2>4, <2>5 DEF Ready, r, g, seen
  <2>8. q(k + 1).hadParens = q(k).hadParens
    BY <2>7 DEF ParserFields
  <2>9. (h \cup Seen(toks, k)) \cup {t} = h \cup Seen(toks, k + 1)
    BY <2>6
  <2> QED
    BY <2>1, <2>7, <2>8, <2>9 DEF Good
<1>5. Good(Len(toks))
  <2>1. Len(toks) \in S
    <3> HIDE DEF S
    <3> QED
      BY <1>1, <1>3, <1>4, CountingUp
  <2> HIDE DEF Good
  <2> QED
    BY <2>1, <1>1
<1>6. Seen(toks, Len(toks)) = ToSet(toks) /\ (Len(toks) > 0 <=> toks # <<>>)
  BY <1>1, SeenGrows
<1>7. q(Len(toks)) = Reads(p, toks)
  BY DEF Reads
<1>8. first(Len(toks)) = IF f = NoWord /\ toks # <<>> THEN toks[1] ELSE f
  BY <1>6
<1> HIDE DEF q, first
<1> QED
  BY <1>5, <1>6, <1>7, <1>8

\* Induction up to a number.
LEMMA CountingUpTo ==
  ASSUME NEW n \in Nat, NEW S, 0 \in S, \A k \in Nat : k + 1 <= n /\ k \in S => k + 1 \in S
  PROVE  n \in S
<1> DEFINE T == {k \in Nat : k <= n => k \in S}
<1>1. 0 \in T
  OBVIOUS
<1>2. ASSUME NEW k \in Nat, k \in T PROVE k + 1 \in T
  <2>1. k + 1 <= n => k <= n
    OBVIOUS
  <2> QED
    BY <1>2, <2>1
<1>3. n \in T
  <2> HIDE DEF T
  <2> QED
    BY <1>1, <1>2, CountingUp
<1> QED
  BY <1>3

\* One token inside of parentheses.
LEMMA ParenIsRead ==
  ASSUME NEW q, NEW f, f # NoWord, NEW h, NEW s, NEW ns, NEW n \in Nat,
         Parses(q, ToParen, Names(f, h), s, ns, 0, 0, 0, n + 1),
         NEW tok, n + Weight(tok, "(", ")") \in Nat
  PROVE  Parses(ParserStep(q, tok), ToParen, Names(f, h \cup {tok}), s, ns, 0, 0, 0,
                (n + Weight(tok, "(", ")")) + 1)
<1> DEFINE r == Push(q, tok)
<1>1. Parses(r, ToParen, Names(f, h \cup {tok}), s, ns, 0, 0, 0, n + 1)
  BY PushParses
<1>2. ParserStep(q, tok) = find_close_paren(q, tok)
  BY Handlers DEF Parses
<1>3. q.parens = n + 1
  BY DEF Parses
<1> HIDE DEF r
<1>4. CASE tok = "("
  <2>1. find_close_paren(q, tok) = [r EXCEPT !.parens = @ + 1]
    BY <1>4 DEF find_close_paren, r
  <2> QED
    BY <1>1, <1>2, <1>4, <2>1 DEF Parses, ParserFields, Weight
<1>5. CASE tok = ")"
  <2>1. n > 0
    BY <1>5 DEF Weight
  <2>2. find_close_paren(q, tok) = [r EXCEPT !.parens = @ - 1]
    BY <1>3, <1>5, <2>1 DEF find_close_paren, r
  <2> QED
    BY <1>1, <1>2, <1>5, <2>2 DEF Parses, ParserFields, Weight
<1>6. CASE tok \notin {"(", ")"}
  <2>1. find_close_paren(q, tok) = r
    BY <1>6 DEF find_close_paren, r
  <2> QED
    BY <1>1, <1>2, <1>6, <2>1 DEF Weight
<1> QED
  BY <1>4, <1>5, <1>6

\* Inside of parentheses.
LEMMA ParensAreRead ==
  ASSUME NEW p, NEW toks, NEW f, NEW h, NEW s, NEW ns, Balanced(toks, "(", ")"),
         Parses(p, ToParen, Names(f, h), s, ns, 0, 0, 0, 0 + 1),
         f # NoWord
  PROVE  Parses(Reads(p, toks), ToParen, Names(f, h \cup ToSet(toks)), s, ns, 0, 0, 0, 0 + 1)
<1> DEFINE Good(k) == Parses(ParserAfter(p, toks)[k], ToParen, Names(f, h \cup Seen(toks, k)), s, ns, 0, 0, 0, Nesting(toks, "(", ")")[k] + 1)
           S == {k \in Nat : Good(k)}
<1>1. /\ toks \in Seq(STRING) /\ Len(toks) \in Nat /\ Nesting(toks, "(", ")")[0] = 0 /\ Nesting(toks, "(", ")")[Len(toks)] = 0
      /\ \A k \in Nat : k <= Len(toks) => Nesting(toks, "(", ")")[k] \in Nat
  BY BracketsAreCounted
<1>2. 0 \in S
  <2>1. ParserAfter(p, toks)[0] = p
    BY <1>1, TokenByToken
  <2>2. Seen(toks, 0) = {}
    BY SeenGrows
  <2> QED
    BY <1>1, <2>1, <2>2
<1>4. ASSUME NEW k \in Nat, k + 1 <= Len(toks), k \in S PROVE k + 1 \in S
  <2> HIDE DEF Good
  <2>0. k + 1 <= Len(toks) /\ Good(k)
    BY <1>4
  <2> DEFINE r == ParserAfter(p, toks)[k]
             t == toks[k + 1]
             n == Nesting(toks, "(", ")")[k]
             seen == h \cup Seen(toks, k)
  <2>1. Good(k + 1)
    <3>1. ParserAfter(p, toks)[k + 1] = ParserStep(r, t)
      BY <1>1, <2>0, TokenByToken
    <3>2. Nesting(toks, "(", ")")[k + 1] = n + Weight(t, "(", ")")
      BY <1>1, <2>0, BracketByBracket
    <3>3. n \in Nat /\ n + Weight(t, "(", ")") \in Nat
      <4>1. n \in Nat /\ Nesting(toks, "(", ")")[k + 1] \in Nat
        BY <1>1, <2>0
      <4> QED
        BY <3>2, <4>1
    <3>4. h \cup Seen(toks, k + 1) = seen \cup {t}
      BY SeenGrows
    <3>5. Parses(r, ToParen, Names(f, seen), s, ns, 0, 0, 0, n + 1)
      BY <2>0 DEF Good
    <3> HIDE DEF r, t, n, seen
    <3>7. Parses(ParserStep(r, t), ToParen, Names(f, seen \cup {t}), s, ns, 0, 0, 0, (n + Weight(t, "(", ")")) + 1)
      BY <3>3, <3>5, ParenIsRead
    <3> QED
      BY <3>1, <3>2, <3>4, <3>7 DEF Good
  <2> QED
    BY <2>1
<1>5. Good(Len(toks))
  <2>1. Len(toks) \in S
    <3> HIDE DEF S
    <3> QED
      BY <1>1, <1>2, <1>4, CountingUpTo
  <2> HIDE DEF Good
  <2> QED
    BY <2>1
<1>6. Seen(toks, Len(toks)) = ToSet(toks)
  BY <1>1, SeenGrows
<1> QED
  BY <1>1, <1>5, <1>6 DEF Reads


\* What the brackets of a template do.
LEMMA TemplateTokens ==
  ASSUME NEW p, NEW tok, tok \notin ClassKeys
  PROVE  \E r : /\ tok = "<" => r = [p EXCEPT !.angles = @ + 1]
                /\ tok = ">" /\ p.angles # 1 => r = [p EXCEPT !.angles = @ - 1]
                /\ tok = ">" /\ p.angles = 1 => r = TemplateEnds([p EXCEPT !.angles = 0])
                /\ tok \notin {"<", ">"} => r = p
                /\ collect_template(p, tok) = IF p.keepsNames THEN Push(r, tok) ELSE r
<1>1. "<" # ">"
  OBVIOUS
<1> QED
  BY <1>1, Zenon DEF collect_template

\* One token inside of the angle brackets of a declaration.
LEMMA AngleIsRead ==
  ASSUME NEW q, NEW f, f # NoWord, NEW h, NEW s, NEW ns, NEW n \in Nat,
         Parses(q, InTemplate, Names(f, h), s, ns, n + 1, 0, 0, 0) /\ q.keepsNames = TRUE,
         NEW tok, tok \notin ClassKeys, n + Weight(tok, "<", ">") \in Nat
  PROVE  /\ Parses(ParserStep(q, tok), InTemplate, Names(f, h \cup {tok}), s, ns,
                   (n + Weight(tok, "<", ">")) + 1, 0, 0, 0)
         /\ ParserStep(q, tok).keepsNames = TRUE
<1>1. PICK r : /\ tok = "<" => r = [q EXCEPT !.angles = @ + 1]
               /\ tok = ">" /\ q.angles # 1 => r = [q EXCEPT !.angles = @ - 1]
               /\ tok \notin {"<", ">"} => r = q
               /\ collect_template(q, tok) = Push(r, tok)
  BY TemplateTokens
<1>2. ParserStep(q, tok) = Push(r, tok)
  <2>1. q.end = "running" /\ q.mode = InTemplate
    BY DEF Parses
  <2> QED
    BY <1>1, <2>1, Handlers
<1>3. q.angles = n + 1 /\ (tok = ">" => n + 1 # 1)
  BY DEF Parses, Weight
<1>4. /\ Parses(r, InTemplate, Names(f, h), s, ns, (n + Weight(tok, "<", ">")) + 1, 0, 0, 0)
      /\ r.keepsNames = TRUE
  BY <1>1, <1>3 DEF Parses, ParserFields, Weight
<1>5. /\ Parses(Push(r, tok), InTemplate, Names(f, h \cup {tok}), s, ns,
                (n + Weight(tok, "<", ">")) + 1, 0, 0, 0)
      /\ Push(r, tok).keepsNames = TRUE
  <2>1. Parses(Push(r, tok), InTemplate, Names(f, h \cup {tok}), s, ns,
               (n + Weight(tok, "<", ">")) + 1, 0, 0, 0)
    BY <1>4, PushParses
  <2>2. \A x \in ParserFields \ {"names"} : Push(r, tok)[x] = r[x]
    BY <1>4, PushKeeps DEF Parses
  <2> QED
    BY <1>4, <2>1, <2>2 DEF ParserFields
<1> QED
  BY <1>2, <1>5

\* One token inside of the arguments of template, which are not kept.
LEMMA TemplateIsRead ==
  ASSUME NEW q, NEW nm, NEW s, NEW ns, NEW n \in Nat,
         Parses(q, InTemplate, nm, s, ns, n + 1, 0, 0, 0) /\ q.keepsNames = FALSE,
         NEW tok, tok \notin ClassKeys, n + Weight(tok, "<", ">") \in Nat
  PROVE  /\ Parses(ParserStep(q, tok), InTemplate, nm, s, ns, (n + Weight(tok, "<", ">")) + 1, 0, 0, 0)
         /\ ParserStep(q, tok).keepsNames = FALSE
<1>1. PICK r : /\ tok = "<" => r = [q EXCEPT !.angles = @ + 1]
               /\ tok = ">" /\ q.angles # 1 => r = [q EXCEPT !.angles = @ - 1]
               /\ tok \notin {"<", ">"} => r = q
               /\ collect_template(q, tok) = r
  BY TemplateTokens
<1>2. ParserStep(q, tok) = r
  BY <1>1, Handlers DEF Parses
<1>3. q.angles = n + 1 /\ (tok = ">" => n + 1 # 1)
  BY DEF Parses, Weight
<1>4. /\ Parses(r, InTemplate, nm, s, ns, (n + Weight(tok, "<", ">")) + 1, 0, 0, 0)
      /\ r.keepsNames = FALSE
  BY <1>1, <1>3 DEF Parses, ParserFields, Weight
<1> QED
  BY <1>2, <1>4

\* One token inside of the body of a function.
LEMMA BraceIsRead ==
  ASSUME NEW q, NEW nm, NEW s, NEW ns, NEW n \in Nat,
         Parses(q, ToBrace, nm, s, ns, 0, n + 1, 0, 0) /\ q.callback = "clear",
         NEW tok, n + Weight(tok, OpenBrace, CloseBrace) \in Nat
  PROVE  /\ Parses(ParserStep(q, tok), ToBrace, nm, s, ns, 0, (n + Weight(tok, OpenBrace, CloseBrace)) + 1, 0, 0)
         /\ ParserStep(q, tok).callback = "clear"
<1>1. ParserStep(q, tok) = find_close_brace(q, tok)
  BY Handlers DEF Parses
<1>2. q.braces # 0 /\ (tok = CloseBrace => q.braces > 1 /\ q.braces # 1)
  BY TokensDiffer DEF Parses, Weight
<1>3. /\ tok = OpenBrace => find_close_brace(q, tok) = [q EXCEPT !.braces = @ + 1]
      /\ tok = CloseBrace => find_close_brace(q, tok) = [q EXCEPT !.braces = @ - 1]
      /\ tok \notin {OpenBrace, CloseBrace} => find_close_brace(q, tok) = q
  <2> DEFINE u == IF q.braces = 0 THEN Push(q, tok) ELSE q
  <2>1. u = q
    BY <1>2
  <2>2. tok = OpenBrace => find_close_brace(q, tok) = [u EXCEPT !.braces = @ + 1]
    BY Zenon DEF find_close_brace, OpenBrace
  <2>3. tok = CloseBrace => find_close_brace(q, tok) = [q EXCEPT !.braces = @ - 1]
    BY <1>2, TokensDiffer, Zenon DEF find_close_brace, OpenBrace, CloseBrace
  <2>4. tok \notin {OpenBrace, CloseBrace} => find_close_brace(q, tok) = q
    BY Zenon DEF find_close_brace, OpenBrace, CloseBrace
  <2> QED
    BY <2>1, <2>2, <2>3, <2>4
<1> QED
  BY <1>1, <1>3, TokensDiffer DEF Parses, ParserFields, Weight

\* One token inside of the body of a class.
LEMMA InsideIsRead ==
  ASSUME NEW q, NEW nm, NEW s, NEW ns, NEW n \in Nat,
         Parses(q, "inside", nm, s, ns, 0, n + 1, 0, 0),
         NEW tok, n + Weight(tok, OpenBrace, CloseBrace) \in Nat
  PROVE  Parses(ParserStep(q, tok), "inside", nm, s, ns, 0, (n + Weight(tok, OpenBrace, CloseBrace)) + 1, 0, 0)
<1>1. ParserStep(q, tok) = find_class_end(q, tok)
  BY Handlers DEF Parses
<1>2. q.braces = n + 1 /\ n + 1 # 0
  BY DEF Parses
<1>3. /\ tok = OpenBrace => find_class_end(q, tok) = [q EXCEPT !.braces = @ + 1]
      /\ tok = CloseBrace => find_class_end(q, tok) = [q EXCEPT !.braces = @ - 1]
      /\ tok \notin {OpenBrace, CloseBrace} => find_class_end(q, tok) = q
  BY <1>2, TokensDiffer, Zenon DEF find_class_end, OpenBrace, CloseBrace
<1> QED
  BY <1>1, <1>2, <1>3, TokensDiffer DEF Parses, ParserFields, Weight

\* On the way to a semicolon, having read names that are in seen.
Seeks(p, f, h, seen, s, ns, n) ==
    /\ Parses(p, ToSemicolon, Names(f, p.names.has), s, ns, 0, 0, n, 0)
    /\ h \subseteq p.names.has /\ p.names.has \subseteq seen
    /\ CloseBrace \in p.names.has => CloseBrace \in h

\* One token on the way to a semicolon, which is not the one that is sought.
LEMMA SemicolonIsSought ==
  ASSUME NEW q, NEW f, f # NoWord, NEW h, NEW seen, NEW s, NEW ns, NEW n \in Nat,
         Seeks(q, f, h, seen, s, ns, n),
         NEW tok, n + Weight(tok, OpenBrace, CloseBrace) \in Nat, tok = Semicolon => n > 0
  PROVE  Seeks(ParserStep(q, tok), f, h, seen \cup {tok}, s, ns, n + Weight(tok, OpenBrace, CloseBrace))
<1> DEFINE u == Push(q, tok)
           v == IF n # 0 THEN q ELSE u
<1>1. /\ Parses(u, ToSemicolon, Names(f, q.names.has \cup {tok}), s, ns, 0, 0, n, 0)
      /\ u.names.has = q.names.has \cup {tok}
  <2>1. Parses(u, ToSemicolon, Names(f, q.names.has \cup {tok}), s, ns, 0, 0, n, 0)
    BY PushParses DEF Seeks
  <2> QED
    BY <2>1 DEF Parses, Names
<1>2. ParserStep(q, tok) = find_semi_colon(q, tok) /\ q.colonBraces = n
  BY Handlers DEF Seeks, Parses
<1>3. /\ tok = OpenBrace => find_semi_colon(q, tok) = [v EXCEPT !.colonBraces = @ + 1]
      /\ tok = CloseBrace => find_semi_colon(q, tok) = [v EXCEPT !.colonBraces = @ - 1]
      /\ tok \notin {OpenBrace, CloseBrace} => find_semi_colon(q, tok) = v
  <2>1. tok = Semicolon => n # 0
    OBVIOUS
  <2> QED
    BY <1>2, <2>1, TokensDiffer, Zenon DEF find_semi_colon, u, v, OpenBrace, CloseBrace, Semicolon
<1> HIDE DEF u
<1>4. Seeks(v, f, h, seen \cup {tok}, s, ns, n)
  <2>1. CASE n # 0
    BY <2>1 DEF Seeks
  <2>2. CASE n = 0
    <3>1. tok # CloseBrace
      BY <2>2, TokensDiffer DEF Weight
    <3> QED
      BY <1>1, <2>2, <3>1 DEF Seeks
  <2> QED
    BY <2>1, <2>2
<1> HIDE DEF v
<1> QED
  BY <1>2, <1>3, <1>4, TokensDiffer DEF Seeks, Parses, ParserFields, Weight

\* Inside of angle brackets.
LEMMA AnglesAreRead ==
  ASSUME NEW p, NEW toks, NEW f, NEW h, NEW s, NEW ns, Balanced(toks, "<", ">"),
         (Parses(p, InTemplate, Names(f, h), s, ns, 0 + 1, 0, 0, 0) /\ p.keepsNames = TRUE),
         f # NoWord, NoneOf(toks, ClassKeys)
  PROVE  (Parses(Reads(p, toks), InTemplate, Names(f, h \cup ToSet(toks)), s, ns, 0 + 1, 0, 0, 0) /\ Reads(p, toks).keepsNames = TRUE)
<1> DEFINE Good(k) == (Parses(ParserAfter(p, toks)[k], InTemplate, Names(f, h \cup Seen(toks, k)), s, ns, Nesting(toks, "<", ">")[k] + 1, 0, 0, 0) /\ ParserAfter(p, toks)[k].keepsNames = TRUE)
           S == {k \in Nat : Good(k)}
<1>1. /\ toks \in Seq(STRING) /\ Len(toks) \in Nat /\ Nesting(toks, "<", ">")[0] = 0 /\ Nesting(toks, "<", ">")[Len(toks)] = 0
      /\ \A k \in Nat : k <= Len(toks) => Nesting(toks, "<", ">")[k] \in Nat
  BY BracketsAreCounted
<1>2. 0 \in S
  <2>1. ParserAfter(p, toks)[0] = p
    BY <1>1, TokenByToken
  <2>2. Seen(toks, 0) = {}
    BY SeenGrows
  <2> QED
    BY <1>1, <2>1, <2>2
<1>3. ASSUME NEW k \in Nat, k + 1 <= Len(toks) PROVE toks[k + 1] \notin ClassKeys
  <2>1. toks[k + 1] \in ToSet(toks)
    BY <1>1, <1>3 DEF ToSet
  <2> QED
    BY <2>1 DEF NoneOf
<1>4. ASSUME NEW k \in Nat, k + 1 <= Len(toks), k \in S PROVE k + 1 \in S
  <2> HIDE DEF Good
  <2>0. k + 1 <= Len(toks) /\ Good(k)
    BY <1>4
  <2> DEFINE r == ParserAfter(p, toks)[k]
             t == toks[k + 1]
             n == Nesting(toks, "<", ">")[k]
             seen == h \cup Seen(toks, k)
  <2>1. Good(k + 1)
    <3>1. ParserAfter(p, toks)[k + 1] = ParserStep(r, t)
      BY <1>1, <2>0, TokenByToken
    <3>2. Nesting(toks, "<", ">")[k + 1] = n + Weight(t, "<", ">")
      BY <1>1, <2>0, BracketByBracket
    <3>3. n \in Nat /\ n + Weight(t, "<", ">") \in Nat
      <4>1. n \in Nat /\ Nesting(toks, "<", ">")[k + 1] \in Nat
        BY <1>1, <2>0
      <4> QED
        BY <3>2, <4>1
    <3>4. h \cup Seen(toks, k + 1) = seen \cup {t}
      BY SeenGrows
    <3>5. (Parses(r, InTemplate, Names(f, seen), s, ns, n + 1, 0, 0, 0) /\ r.keepsNames = TRUE)
      BY <2>0 DEF Good
    <3>6. t \notin ClassKeys
      BY <1>3, <2>0
    <3> HIDE DEF r, t, n, seen
    <3>7. (Parses(ParserStep(r, t), InTemplate, Names(f, seen \cup {t}), s, ns, (n + Weight(t, "<", ">")) + 1, 0, 0, 0) /\ ParserStep(r, t).keepsNames = TRUE)
      BY <3>3, <3>5, <3>6, AngleIsRead
    <3> QED
      BY <3>1, <3>2, <3>4, <3>7 DEF Good
  <2> QED
    BY <2>1
<1>5. Good(Len(toks))
  <2>1. Len(toks) \in S
    <3> HIDE DEF S
    <3> QED
      BY <1>1, <1>2, <1>4, CountingUpTo
  <2> HIDE DEF Good
  <2> QED
    BY <2>1
<1>6. Seen(toks, Len(toks)) = ToSet(toks)
  BY <1>1, SeenGrows
<1> QED
  BY <1>1, <1>5, <1>6 DEF Reads

\* Inside of the arguments of template.
LEMMA TemplatesAreRead ==
  ASSUME NEW p, NEW toks, NEW nm, NEW s, NEW ns, Balanced(toks, "<", ">"),
         (Parses(p, InTemplate, nm, s, ns, 0 + 1, 0, 0, 0) /\ p.keepsNames = FALSE),
         NoneOf(toks, ClassKeys)
  PROVE  (Parses(Reads(p, toks), InTemplate, nm, s, ns, 0 + 1, 0, 0, 0) /\ Reads(p, toks).keepsNames = FALSE)
<1> DEFINE Good(k) == (Parses(ParserAfter(p, toks)[k], InTemplate, nm, s, ns, Nesting(toks, "<", ">")[k] + 1, 0, 0, 0) /\ ParserAfter(p, toks)[k].keepsNames = FALSE)
           S == {k \in Nat : Good(k)}
<1>1. /\ toks \in Seq(STRING) /\ Len(toks) \in Nat /\ Nesting(toks, "<", ">")[0] = 0 /\ Nesting(toks, "<", ">")[Len(toks)] = 0
      /\ \A k \in Nat : k <= Len(toks) => Nesting(toks, "<", ">")[k] \in Nat
  BY BracketsAreCounted
<1>2. 0 \in S
  <2>1. ParserAfter(p, toks)[0] = p
    BY <1>1, TokenByToken
  <2>2. Seen(toks, 0) = {}
    BY SeenGrows
  <2> QED
    BY <1>1, <2>1, <2>2
<1>3. ASSUME NEW k \in Nat, k + 1 <= Len(toks) PROVE toks[k + 1] \notin ClassKeys
  <2>1. toks[k + 1] \in ToSet(toks)
    BY <1>1, <1>3 DEF ToSet
  <2> QED
    BY <2>1 DEF NoneOf
<1>4. ASSUME NEW k \in Nat, k + 1 <= Len(toks), k \in S PROVE k + 1 \in S
  <2> HIDE DEF Good
  <2>0. k + 1 <= Len(toks) /\ Good(k)
    BY <1>4
  <2> DEFINE r == ParserAfter(p, toks)[k]
             t == toks[k + 1]
             n == Nesting(toks, "<", ">")[k]
  <2>1. Good(k + 1)
    <3>1. ParserAfter(p, toks)[k + 1] = ParserStep(r, t)
      BY <1>1, <2>0, TokenByToken
    <3>2. Nesting(toks, "<", ">")[k + 1] = n + Weight(t, "<", ">")
      BY <1>1, <2>0, BracketByBracket
    <3>3. n \in Nat /\ n + Weight(t, "<", ">") \in Nat
      <4>1. n \in Nat /\ Nesting(toks, "<", ">")[k + 1] \in Nat
        BY <1>1, <2>0
      <4> QED
        BY <3>2, <4>1
    <3>5. (Parses(r, InTemplate, nm, s, ns, n + 1, 0, 0, 0) /\ r.keepsNames = FALSE)
      BY <2>0 DEF Good
    <3>6. t \notin ClassKeys
      BY <1>3, <2>0
    <3> HIDE DEF r, t, n
    <3>7. (Parses(ParserStep(r, t), InTemplate, nm, s, ns, (n + Weight(t, "<", ">")) + 1, 0, 0, 0) /\ ParserStep(r, t).keepsNames = FALSE)
      BY <3>3, <3>5, <3>6, TemplateIsRead
    <3> QED
      BY <3>1, <3>2, <3>7 DEF Good
  <2> QED
    BY <2>1
<1>5. Good(Len(toks))
  <2>1. Len(toks) \in S
    <3> HIDE DEF S
    <3> QED
      BY <1>1, <1>2, <1>4, CountingUpTo
  <2> HIDE DEF Good
  <2> QED
    BY <2>1
<1>6. Seen(toks, Len(toks)) = ToSet(toks)
  BY <1>1, SeenGrows
<1> QED
  BY <1>1, <1>5, <1>6 DEF Reads

\* Inside of the body of a function.
LEMMA BodiesAreRead ==
  ASSUME NEW p, NEW toks, NEW nm, NEW s, NEW ns, Balanced(toks, OpenBrace, CloseBrace),
         (Parses(p, ToBrace, nm, s, ns, 0, 0 + 1, 0, 0) /\ p.callback = "clear")
  PROVE  (Parses(Reads(p, toks), ToBrace, nm, s, ns, 0, 0 + 1, 0, 0) /\ Reads(p, toks).callback = "clear")
<1> DEFINE Good(k) == (Parses(ParserAfter(p, toks)[k], ToBrace, nm, s, ns, 0, Nesting(toks, OpenBrace, CloseBrace)[k] + 1, 0, 0) /\ ParserAfter(p, toks)[k].callback = "clear")
           S == {k \in Nat : Good(k)}
<1>1. /\ toks \in Seq(STRING) /\ Len(toks) \in Nat /\ Nesting(toks, OpenBrace, CloseBrace)[0] = 0 /\ Nesting(toks, OpenBrace, CloseBrace)[Len(toks)] = 0
      /\ \A k \in Nat : k <= Len(toks) => Nesting(toks, OpenBrace, CloseBrace)[k] \in Nat
  BY BracketsAreCounted
<1>2. 0 \in S
  <2>1. ParserAfter(p, toks)[0] = p
    BY <1>1, TokenByToken
  <2>2. Seen(toks, 0) = {}
    BY SeenGrows
  <2> QED
    BY <1>1, <2>1, <2>2
<1>4. ASSUME NEW k \in Nat, k + 1 <= Len(toks), k \in S PROVE k + 1 \in S
  <2> HIDE DEF Good
  <2>0. k + 1 <= Len(toks) /\ Good(k)
    BY <1>4
  <2> DEFINE r == ParserAfter(p, toks)[k]
             t == toks[k + 1]
             n == Nesting(toks, OpenBrace, CloseBrace)[k]
  <2>1. Good(k + 1)
    <3>1. ParserAfter(p, toks)[k + 1] = ParserStep(r, t)
      BY <1>1, <2>0, TokenByToken
    <3>2. Nesting(toks, OpenBrace, CloseBrace)[k + 1] = n + Weight(t, OpenBrace, CloseBrace)
      BY <1>1, <2>0, BracketByBracket
    <3>3. n \in Nat /\ n + Weight(t, OpenBrace, CloseBrace) \in Nat
      <4>1. n \in Nat /\ Nesting(toks, OpenBrace, CloseBrace)[k + 1] \in Nat
        BY <1>1, <2>0
      <4> QED
        BY <3>2, <4>1
    <3>5. (Parses(r, ToBrace, nm, s, ns, 0, n + 1, 0, 0) /\ r.callback = "clear")
      BY <2>0 DEF Good
    <3> HIDE DEF r, t, n
    <3>7. (Parses(ParserStep(r, t), ToBrace, nm, s, ns, 0, (n + Weight(t, OpenBrace, CloseBrace)) + 1, 0, 0) /\ ParserStep(r, t).callback = "clear")
      BY <3>3, <3>5, BraceIsRead
    <3> QED
      BY <3>1, <3>2, <3>7 DEF Good
  <2> QED
    BY <2>1
<1>5. Good(Len(toks))
  <2>1. Len(toks) \in S
    <3> HIDE DEF S
    <3> QED
      BY <1>1, <1>2, <1>4, CountingUpTo
  <2> HIDE DEF Good
  <2> QED
    BY <2>1
<1>6. Seen(toks, Len(toks)) = ToSet(toks)
  BY <1>1, SeenGrows
<1> QED
  BY <1>1, <1>5, <1>6 DEF Reads

\* Inside of the body of a class.
LEMMA ClassesAreRead ==
  ASSUME NEW p, NEW toks, NEW nm, NEW s, NEW ns, Balanced(toks, OpenBrace, CloseBrace),
         Parses(p, "inside", nm, s, ns, 0, 0 + 1, 0, 0)
  PROVE  Parses(Reads(p, toks), "inside", nm, s, ns, 0, 0 + 1, 0, 0)
<1> DEFINE Good(k) == Parses(ParserAfter(p, toks)[k], "inside", nm, s, ns, 0, Nesting(toks, OpenBrace, CloseBrace)[k] + 1, 0, 0)
           S == {k \in Nat : Good(k)}
<1>1. /\ toks \in Seq(STRING) /\ Len(toks) \in Nat /\ Nesting(toks, OpenBrace, CloseBrace)[0] = 0 /\ Nesting(toks, OpenBrace, CloseBrace)[Len(toks)] = 0
      /\ \A k \in Nat : k <= Len(toks) => Nesting(toks, OpenBrace, CloseBrace)[k] \in Nat
  BY BracketsAreCounted
<1>2. 0 \in S
  <2>1. ParserAfter(p, toks)[0] = p
    BY <1>1, TokenByToken
  <2>2. Seen(toks, 0) = {}
    BY SeenGrows
  <2> QED
    BY <1>1, <2>1, <2>2
<1>4. ASSUME NEW k \in Nat, k + 1 <= Len(toks), k \in S PROVE k + 1 \in S
  <2> HIDE DEF Good
  <2>0. k + 1 <= Len(toks) /\ Good(k)
    BY <1>4
  <2> DEFINE r == ParserAfter(p, toks)[k]
             t == toks[k + 1]
             n == Nesting(toks, OpenBrace, CloseBrace)[k]
  <2>1. Good(k + 1)
    <3>1. ParserAfter(p, toks)[k + 1] = ParserStep(r, t)
      BY <1>1, <2>0, TokenByToken
    <3>2. Nesting(toks, OpenBrace, CloseBrace)[k + 1] = n + Weight(t, OpenBrace, CloseBrace)
      BY <1>1, <2>0, BracketByBracket
    <3>3. n \in Nat /\ n + Weight(t, OpenBrace, CloseBrace) \in Nat
      <4>1. n \in Nat /\ Nesting(toks, OpenBrace, CloseBrace)[k + 1] \in Nat
        BY <1>1, <2>0
      <4> QED
        BY <3>2, <4>1
    <3>5. Parses(r, "inside", nm, s, ns, 0, n + 1, 0, 0)
      BY <2>0 DEF Good
    <3> HIDE DEF r, t, n
    <3>7. Parses(ParserStep(r, t), "inside", nm, s, ns, 0, (n + Weight(t, OpenBrace, CloseBrace)) + 1, 0, 0)
      BY <3>3, <3>5, InsideIsRead
    <3> QED
      BY <3>1, <3>2, <3>7 DEF Good
  <2> QED
    BY <2>1
<1>5. Good(Len(toks))
  <2>1. Len(toks) \in S
    <3> HIDE DEF S
    <3> QED
      BY <1>1, <1>2, <1>4, CountingUpTo
  <2> HIDE DEF Good
  <2> QED
    BY <2>1
<1>6. Seen(toks, Len(toks)) = ToSet(toks)
  BY <1>1, SeenGrows
<1> QED
  BY <1>1, <1>5, <1>6 DEF Reads

\* Up to a semicolon: what is in braces is not kept.
LEMMA ValuesAreRead ==
  ASSUME NEW p, NEW toks, NEW f, NEW h, NEW s, NEW ns, Balanced(toks, OpenBrace, CloseBrace),
         Seeks(p, f, h, h, s, ns, 0),
         f # NoWord, \A i \in DOMAIN toks : toks[i] = Semicolon => Nesting(toks, OpenBrace, CloseBrace)[i] > 0
  PROVE  Seeks(Reads(p, toks), f, h, h \cup ToSet(toks), s, ns, 0)
<1> DEFINE Good(k) == Seeks(ParserAfter(p, toks)[k], f, h, h \cup Seen(toks, k), s, ns, Nesting(toks, OpenBrace, CloseBrace)[k])
           S == {k \in Nat : Good(k)}
<1>1. /\ toks \in Seq(STRING) /\ Len(toks) \in Nat /\ Nesting(toks, OpenBrace, CloseBrace)[0] = 0 /\ Nesting(toks, OpenBrace, CloseBrace)[Len(toks)] = 0
      /\ \A k \in Nat : k <= Len(toks) => Nesting(toks, OpenBrace, CloseBrace)[k] \in Nat
  BY BracketsAreCounted
<1>2. 0 \in S
  <2>1. ParserAfter(p, toks)[0] = p
    BY <1>1, TokenByToken
  <2>2. Seen(toks, 0) = {}
    BY SeenGrows
  <2> QED
    BY <1>1, <2>1, <2>2
<1>3. ASSUME NEW k \in Nat, k + 1 <= Len(toks) PROVE toks[k + 1] = Semicolon => Nesting(toks, OpenBrace, CloseBrace)[k] > 0
  <2> SUFFICES ASSUME toks[k + 1] = Semicolon PROVE Nesting(toks, OpenBrace, CloseBrace)[k] > 0
    OBVIOUS
  <2>1. Nesting(toks, OpenBrace, CloseBrace)[k + 1] > 0
    <3>1. k + 1 \in DOMAIN toks
      BY <1>1, <1>3
    <3> QED
      BY <3>1
  <2>2. Nesting(toks, OpenBrace, CloseBrace)[k + 1] = Nesting(toks, OpenBrace, CloseBrace)[k] + 0
    BY <1>1, <1>3, BracketByBracket, TokensDiffer DEF Weight
  <2>3. Nesting(toks, OpenBrace, CloseBrace)[k] \in Nat
    BY <1>1, <1>3
  <2> QED
    BY <2>1, <2>2, <2>3
<1>4. ASSUME NEW k \in Nat, k + 1 <= Len(toks), k \in S PROVE k + 1 \in S
  <2> HIDE DEF Good
  <2>0. k + 1 <= Len(toks) /\ Good(k)
    BY <1>4
  <2> DEFINE r == ParserAfter(p, toks)[k]
             t == toks[k + 1]
             n == Nesting(toks, OpenBrace, CloseBrace)[k]
             seen == h \cup Seen(toks, k)
  <2>1. Good(k + 1)
    <3>1. ParserAfter(p, toks)[k + 1] = ParserStep(r, t)
      BY <1>1, <2>0, TokenByToken
    <3>2. Nesting(toks, OpenBrace, CloseBrace)[k + 1] = n + Weight(t, OpenBrace, CloseBrace)
      BY <1>1, <2>0, BracketByBracket
    <3>3. n \in Nat /\ n + Weight(t, OpenBrace, CloseBrace) \in Nat
      <4>1. n \in Nat /\ Nesting(toks, OpenBrace, CloseBrace)[k + 1] \in Nat
        BY <1>1, <2>0
      <4> QED
        BY <3>2, <4>1
    <3>4. h \cup Seen(toks, k + 1) = seen \cup {t}
      BY SeenGrows
    <3>5. Seeks(r, f, h, seen, s, ns, n)
      BY <2>0 DEF Good
    <3>6. t = Semicolon => n > 0
      BY <1>3, <2>0
    <3> HIDE DEF r, t, n, seen
    <3>7. Seeks(ParserStep(r, t), f, h, seen \cup {t}, s, ns, (n + Weight(t, OpenBrace, CloseBrace)))
      BY <3>3, <3>5, <3>6, SemicolonIsSought
    <3> QED
      BY <3>1, <3>2, <3>4, <3>7 DEF Good
  <2> QED
    BY <2>1
<1>5. Good(Len(toks))
  <2>1. Len(toks) \in S
    <3> HIDE DEF S
    <3> QED
      BY <1>1, <1>2, <1>4, CountingUpTo
  <2> HIDE DEF Good
  <2> QED
    BY <2>1
<1>6. Seen(toks, Len(toks)) = ToSet(toks)
  BY <1>1, SeenGrows
<1> QED
  BY <1>1, <1>5, <1>6 DEF Reads


\* The heading of a class or an enumeration.
LEMMA HeadsAreRead ==
  ASSUME NEW p, NEW mode \in {InClass, InEnum}, NEW toks, NoneOf(toks, {OpenBrace, Semicolon}),
         NEW f, f # NoWord, NEW h, NEW s, NEW ns, Ready(p, mode, Names(f, h), s, ns)
  PROVE  Ready(Reads(p, toks), mode, Names(f, h \cup ToSet(toks)), s, ns)
<1> DEFINE Good(k) == Ready(ParserAfter(p, toks)[k], mode, Names(f, h \cup Seen(toks, k)), s, ns)
           S == {k \in Nat : Good(k)}
<1>1. toks \in Seq(STRING) /\ Len(toks) \in Nat
  BY DEF NoneOf
<1>2. 0 \in S
  <2>1. ParserAfter(p, toks)[0] = p /\ Seen(toks, 0) = {}
    BY <1>1, TokenByToken, SeenGrows
  <2> QED
    BY <2>1
<1>3. ASSUME NEW k \in Nat, k + 1 <= Len(toks), k \in S PROVE k + 1 \in S
  <2> HIDE DEF Good
  <2>1. k + 1 <= Len(toks) /\ Good(k)
    BY <1>3
  <2> DEFINE r == ParserAfter(p, toks)[k]
             t == toks[k + 1]
             seen == h \cup Seen(toks, k)
  <2>2. Good(k + 1)
    <3>1. ParserAfter(p, toks)[k + 1] = ParserStep(r, t)
      BY <1>1, <2>1, TokenByToken
    <3>2. h \cup Seen(toks, k + 1) = seen \cup {t}
      BY SeenGrows
    <3>3. t \notin {OpenBrace, Semicolon}
      <4>1. t \in ToSet(toks)
        BY <1>1, <2>1 DEF ToSet
      <4> QED
        BY <4>1 DEF NoneOf
    <3>4. Parses(r, mode, Names(f, seen), s, ns, 0, 0, 0, 0)
      BY <2>1 DEF Good, Ready
    <3> HIDE DEF r, t, seen
    <3>5. ParserStep(r, t) = Push(r, t)
      <4>1. ParserStep(r, t) \in {collect_class(r, t), collect_enum(r, t)}
        <5>1. r.end = "running" /\ r.mode \in {InClass, InEnum}
          BY <3>4 DEF Parses
        <5> QED
          BY <5>1, Handlers
      <4>2. collect_class(r, t) = Push(r, t) /\ collect_enum(r, t) = Push(r, t)
        BY <3>3, Zenon DEF collect_class, collect_enum, OpenBrace, Semicolon
      <4> QED
        BY <4>1, <4>2
    <3>6. Parses(Push(r, t), mode, Names(f, seen \cup {t}), s, ns, 0, 0, 0, 0)
      BY <3>4, PushParses
    <3> QED
      BY <3>1, <3>2, <3>5, <3>6 DEF Good, Ready
  <2> QED
    BY <2>2
<1>4. Good(Len(toks))
  <2>1. Len(toks) \in S
    <3> HIDE DEF S
    <3> QED
      BY <1>1, <1>2, <1>3, CountingUpTo
  <2> HIDE DEF Good
  <2> QED
    BY <2>1
<1>5. Seen(toks, Len(toks)) = ToSet(toks)
  BY <1>1, SeenGrows
<1> QED
  BY <1>4, <1>5 DEF Reads

-----------------------------------------------------------------------------
(* The namespaces a parser is in.                                          *)

DeclaredKinds ==
    {"include", "macro", "func", "test", "using", "constant", "class", "enum", "forward"}
Block == [current : AnyToken, had : SUBSET DeclaredKinds]
Blocks == Seq(Block) \ {<<>>}

\* The innermost one had declarations of these kinds.
Hads(s, kinds) ==
    LET block == [s[Len(s)] EXCEPT !.had = @ \cup kinds]
    IN  [s EXCEPT ![Len(s)] = block]

\* Only the kinds of the innermost namespace change.
LEMMA HadsMeans ==
  ASSUME NEW s \in Blocks, NEW kinds \in SUBSET DeclaredKinds
  PROVE  /\ Len(s) \in Nat \ {0} /\ Hads(s, kinds) \in Blocks /\ Len(Hads(s, kinds)) = Len(s)
         /\ \A i \in 1 .. Len(s) :
              /\ s[i] \in Block
              /\ Hads(s, kinds)[i] = IF i = Len(s) THEN [current |-> s[i].current, had |-> s[i].had \cup kinds]
                                     ELSE s[i]
<1>1. s \in Seq(Block) /\ Len(s) \in Nat \ {0}
  BY EmptySeq DEF Blocks
<1>2. ASSUME NEW b \in Block PROVE [b EXCEPT !.had = @ \cup kinds] = [current |-> b.current, had |-> b.had \cup kinds]
  BY DEF Block
<1>3. ASSUME NEW i \in 1 .. Len(s)
      PROVE  Hads(s, kinds)[i] = IF i = Len(s) THEN [current |-> s[i].current, had |-> s[i].had \cup kinds] ELSE s[i]
  <2>1. s[i] \in Block
    BY <1>1
  <2> QED
    BY <1>1, <1>2, <2>1 DEF Hads
<1>4. Hads(s, kinds) \in Seq(Block) /\ Len(Hads(s, kinds)) = Len(s)
  <2>1. [s[Len(s)] EXCEPT !.had = @ \cup kinds] \in Block
    <3>1. s[Len(s)] \in Block
      BY <1>1
    <3> QED
      BY <3>1 DEF Block
  <2>2. Hads(s, kinds) = [s EXCEPT ![Len(s)] = [s[Len(s)] EXCEPT !.had = @ \cup kinds]]
    BY DEF Hads
  <2> QED
    BY <1>1, <2>1, <2>2
<1>5. Hads(s, kinds) # <<>>
  BY <1>1, <1>4
<1> QED
  BY <1>1, <1>3, <1>4, <1>5 DEF Blocks

\* Kinds are added up.
LEMMA HadsAdd ==
  ASSUME NEW s \in Blocks, NEW a \in SUBSET DeclaredKinds, NEW b \in SUBSET DeclaredKinds
  PROVE  Hads(s, {}) = s /\ Hads(Hads(s, a), b) = Hads(s, a \cup b)
<1> DEFINE t == Hads(s, a)
           n == Len(s)
<1>1. n \in Nat \ {0} /\ t \in Blocks /\ Len(t) = n
  BY HadsMeans
<1>2. \A i \in 1 .. n :
        /\ s[i] \in Block
        /\ t[i] = IF i = n THEN [current |-> s[i].current, had |-> s[i].had \cup a] ELSE s[i]
  BY HadsMeans
<1> HIDE DEF t
<1>3. \A i \in 1 .. n : Hads(t, b)[i] = IF i = n THEN [current |-> t[i].current, had |-> t[i].had \cup b] ELSE t[i]
  BY <1>1, HadsMeans
<1>4. \A i \in 1 .. n : Hads(s, a \cup b)[i] =
        IF i = n THEN [current |-> s[i].current, had |-> s[i].had \cup (a \cup b)] ELSE s[i]
  BY HadsMeans
<1>5. /\ Hads(t, b) \in Seq(Block) /\ Len(Hads(t, b)) = n
      /\ Hads(s, a \cup b) \in Seq(Block) /\ Len(Hads(s, a \cup b)) = n
      /\ Hads(s, {}) \in Seq(Block) /\ Len(Hads(s, {})) = n /\ s \in Seq(Block)
  BY <1>1, HadsMeans DEF Blocks
<1>6. \A i \in 1 .. n : Hads(t, b)[i] = Hads(s, a \cup b)[i]
  <2> TAKE i \in 1 .. n
  <2>1. CASE i = n
    <3>1. t[i] = [current |-> s[i].current, had |-> s[i].had \cup a]
      BY <1>2, <2>1
    <3>2. Hads(t, b)[i] = [current |-> t[i].current, had |-> t[i].had \cup b]
      BY <1>3, <2>1
    <3>3. (s[i].had \cup a) \cup b = s[i].had \cup (a \cup b)
      OBVIOUS
    <3>4. t[i].current = s[i].current /\ t[i].had = s[i].had \cup a
      BY <3>1
    <3>5. Hads(s, a \cup b)[i] = [current |-> s[i].current, had |-> s[i].had \cup (a \cup b)]
      BY <1>4, <2>1
    <3> QED
      BY <3>2, <3>3, <3>4, <3>5
  <2>2. CASE i # n
    BY <1>2, <1>3, <1>4, <2>2
  <2> QED
    BY <2>1, <2>2
<1>7. \A i \in 1 .. n : Hads(s, {})[i] = s[i]
  <2> TAKE i \in 1 .. n
  <2>1. s[i] \in Block
    BY <1>2
  <2>2. Hads(s, {})[i] = IF i = n THEN [current |-> s[i].current, had |-> s[i].had \cup {}] ELSE s[i]
    BY HadsMeans
  <2>3. [current |-> s[i].current, had |-> s[i].had \cup {}] = s[i]
    BY <2>1 DEF Block
  <2> QED
    BY <2>2, <2>3
<1> HIDE DEF n
<1>8. Hads(t, b) = Hads(s, a \cup b)
  BY <1>5, <1>6, SeqEqual
<1>9. Hads(s, {}) = s
  <2>1. Len(s) = n
    BY DEF n
  <2> QED
    BY <1>5, <1>7, <2>1, SeqEqual
<1> QED
  BY <1>8, <1>9 DEF t

\* The parser adds a kind and stays where it is.
LEMMA HadParses ==
  ASSUME NEW p, NEW mode, NEW nm, NEW s \in Blocks, NEW ns, NEW a, NEW b, NEW c, NEW d,
         Parses(p, mode, nm, s, ns, a, b, c, d), NEW kind
  PROVE  /\ Parses(Had(p, kind), mode, nm, Hads(s, {kind}), ns, a, b, c, d)
         /\ \A x \in ParserFields \ {"stack"} : Had(p, kind)[x] = p[x]
<1>1. p.stack = s /\ s # <<>>
  BY DEF Parses, Blocks
<1>2. Had(p, kind) = [p EXCEPT !.stack = Hads(s, {kind})]
  <2> DEFINE block == [s[Len(s)] EXCEPT !.had = @ \cup {kind}]
  <2>1. Had(p, kind) = [p EXCEPT !.stack = [@ EXCEPT ![Len(@)] = block]]
    BY <1>1 DEF Had, Last
  <2>2. Hads(s, {kind}) = [s EXCEPT ![Len(s)] = block]
    BY DEF Hads
  <2> HIDE DEF block
  <2> QED
    BY <1>1, <2>1, <2>2
<1> QED
  BY <1>2 DEF Parses, ParserFields

\* The names of a declaration are cleared at its end.
LEMMA ClearParses ==
  ASSUME NEW p, NEW mode, NEW nm, NEW s, NEW ns, Ready(p, mode, nm, s, ns)
  PROVE  Ready(clear_name_stack(switch_to_normal(p)), "normal", NoNames, s, ns) /\
         Ready(clear_name_stack(p), mode, NoNames, s, ns) /\ Ready(switch_to_normal(p), "normal", nm, s, ns)
  BY DEF Ready, Parses, ParserFields, clear_name_stack, switch_to_normal

-----------------------------------------------------------------------------
(* The parts of a declaration.                                             *)

\* The tokens of two texts.
LEMMA TokensOfBoth ==
  ASSUME NEW a \in Seq(AnyToken), NEW b \in Seq(AnyToken)
  PROVE  a \o b \in Seq(AnyToken) /\ ToSet(a \o b) = ToSet(a) \cup ToSet(b)
<1>1. /\ Len(a) \in Nat /\ Len(b) \in Nat /\ Len(a \o b) = Len(a) + Len(b) /\ a \o b \in Seq(AnyToken)
      /\ \A i \in 1 .. Len(a) + Len(b) : (a \o b)[i] = IF i <= Len(a) THEN a[i] ELSE b[i - Len(a)]
  BY ConcatProperties, LenProperties
<1>2. ASSUME NEW x \in ToSet(a) PROVE x \in ToSet(a \o b)
  <2>1. PICK i \in 1 .. Len(a) : x = a[i]
    BY DEF ToSet
  <2>2. i \in 1 .. Len(a) + Len(b) /\ i <= Len(a)
    BY <1>1
  <2>3. (a \o b)[i] = x
    BY <1>1, <2>1, <2>2
  <2> HIDE <2>1
  <2> QED
    BY <1>1, <2>2, <2>3 DEF ToSet
<1>3. ASSUME NEW x \in ToSet(b) PROVE x \in ToSet(a \o b)
  <2>1. PICK i \in 1 .. Len(b) : x = b[i]
    BY DEF ToSet
  <2> DEFINE j == Len(a) + i
  <2>2. j \in 1 .. Len(a) + Len(b) /\ ~(j <= Len(a)) /\ j - Len(a) = i
    BY <1>1
  <2> HIDE DEF j
  <2>3. (a \o b)[j] = x
    BY <1>1, <2>1, <2>2
  <2> QED
    BY <1>1, <2>2, <2>3 DEF ToSet
<1>4. ASSUME NEW x \in ToSet(a \o b) PROVE x \in ToSet(a) \cup ToSet(b)
  <2>1. PICK i \in 1 .. Len(a) + Len(b) : x = (a \o b)[i]
    BY <1>1 DEF ToSet
  <2>2. CASE i <= Len(a)
    <3>1. i \in 1 .. Len(a) /\ x = a[i]
      BY <1>1, <2>1, <2>2
    <3> QED
      BY <1>1, <3>1 DEF ToSet
  <2>3. CASE ~(i <= Len(a))
    <3>1. i - Len(a) \in 1 .. Len(b) /\ x = b[i - Len(a)]
      BY <1>1, <2>1, <2>3
    <3> QED
      BY <1>1, <3>1 DEF ToSet
  <2> QED
    BY <2>2, <2>3
<1> QED
  BY <1>1, <1>2, <1>3, <1>4

\* A text of one token.
LEMMA TokenAlone ==
  ASSUME NEW tok \in AnyToken
  PROVE  <<tok>> \in Seq(AnyToken) /\ ToSet(<<tok>>) = {tok} /\ <<tok>>[1] = tok /\ <<tok>> # <<>>
<1>1. <<tok>> \in Seq(AnyToken) /\ Len(<<tok>>) = 1 /\ <<tok>>[1] = tok
  OBVIOUS
<1>2. ToSet(<<tok>>) = {tok}
  <2> DEFINE t == <<tok>>
  <2>1. 1 .. Len(t) = {1} /\ t[1] = tok
    BY <1>1
  <2>2. DOMAIN t = 1 .. Len(t)
    BY <1>1
  <2> HIDE DEF t
  <2>3. ToSet(t) = {tok}
    BY <2>1, <2>2 DEF ToSet
  <2> QED
    BY <2>3 DEF t
<1>3. <<tok>> # <<>>
  BY <1>1
<1> QED
  BY <1>1, <1>2, <1>3

\* The first token of two texts.
LEMMA FirstOfBoth ==
  ASSUME NEW a \in Seq(AnyToken), NEW b \in Seq(AnyToken), a # <<>>
  PROVE  (a \o b)[1] = a[1] /\ a \o b # <<>>
<1>1. /\ Len(a) \in Nat /\ Len(b) \in Nat /\ Len(a \o b) = Len(a) + Len(b)
      /\ \A i \in 1 .. Len(a) + Len(b) : (a \o b)[i] = IF i <= Len(a) THEN a[i] ELSE b[i - Len(a)]
  BY ConcatProperties, LenProperties
<1>2. Len(a) > 0
  BY EmptySeq
<1>3. 1 \in 1 .. Len(a) + Len(b) /\ 1 <= Len(a)
  BY <1>1, <1>2
<1>4. (a \o b)[1] = a[1]
  BY <1>1, <1>3
<1>5. Len(a \o b) > 0
  BY <1>1, <1>2
<1> QED
  BY <1>4, <1>5

\* A text between two others.
LEMMA TokensOfThree ==
  ASSUME NEW a \in Seq(AnyToken), NEW b \in Seq(AnyToken), NEW c \in Seq(AnyToken)
  PROVE  a \o b \o c \in Seq(AnyToken) /\ ToSet(a \o b \o c) = ToSet(a) \cup ToSet(b) \cup ToSet(c)
<1> DEFINE d == a \o b
<1>1. d \in Seq(AnyToken) /\ ToSet(d) = ToSet(a) \cup ToSet(b)
  BY TokensOfBoth
<1> HIDE DEF d
<1>2. d \o c \in Seq(AnyToken) /\ ToSet(d \o c) = ToSet(d) \cup ToSet(c)
  BY <1>1, TokensOfBoth
<1> QED
  BY <1>1, <1>2 DEF d

\* Three texts are read one after the other.
LEMMA ThreeAreRead ==
  ASSUME NEW p, NEW a \in Seq(AnyToken), NEW b \in Seq(AnyToken), NEW c \in Seq(AnyToken)
  PROVE  Reads(p, a \o b \o c) = Reads(Reads(Reads(p, a), b), c)
<1> DEFINE d == a \o b
<1>1. d \in Seq(AnyToken) /\ Reads(p, d) = Reads(Reads(p, a), b)
  BY TokensOfBoth, ReadsOn
<1> HIDE DEF d
<1>2. Reads(p, d \o c) = Reads(Reads(p, d), c)
  BY <1>1, ReadsOn
<1> QED
  BY <1>1, <1>2 DEF d

\* The first token of three texts.
LEMMA ThreeBegin ==
  ASSUME NEW a \in Seq(AnyToken), NEW b \in Seq(AnyToken), NEW c \in Seq(AnyToken), a # <<>>
  PROVE  a \o b \o c # <<>> /\ (a \o b \o c)[1] = a[1]
<1> DEFINE d == a \o b
<1>1. d \in Seq(AnyToken) /\ d # <<>> /\ d[1] = a[1]
  BY FirstOfBoth, TokensOfBoth
<1> HIDE DEF d
<1>2. d \o c # <<>> /\ (d \o c)[1] = d[1]
  BY <1>1, FirstOfBoth
<1> QED
  BY <1>1, <1>2 DEF d

\* A first name is a name.
LEMMA NamedMeans ==
  ASSUME NEW f, f # NoWord, NEW h
  PROVE  Names(f, h) # NoNames
  BY NoNamesMeans DEF Names

\* The kinds of a macro.
Macro(f) == IF f \in DefineMacros THEN {"macro"} ELSE {}

\* Parentheses open after a name.
LEMMA ParenOpens ==
  ASSUME NEW p, NEW f, f # NoWord, NEW h, NEW s, NEW ns, Ready(p, "normal", Names(f, h), s, ns)
  PROVE  Parses(ParserStep(p, "("), ToParen, Names(f, h \cup {"("}), s, ns, 0, 0, 0, 0 + 1)
<1> DEFINE r == Push(p, "(")
<1>1. Parses(p, "normal", Names(f, h), s, ns, 0, 0, 0, 0) /\ p.names # NoNames
  BY NamedMeans DEF Ready, Parses
<1>2. Parses(r, "normal", Names(f, h \cup {"("}), s, ns, 0, 0, 0, 0)
  BY <1>1, PushParses
<1>3. find_close_paren(p, "(") = [r EXCEPT !.parens = @ + 1]
  BY DEF find_close_paren
<1>4. ParserStep(p, "(") = [find_close_paren(p, "(") EXCEPT !.mode = ToParen]
  <2>1. ParserStep(p, "(") = parse_normal(p, "(")
    BY <1>1, Handlers DEF Parses
  <2> QED
    BY <1>1, <2>1, NormalTokensAfterNames
<1> HIDE DEF r
<1> QED
  BY <1>2, <1>3, <1>4 DEF Parses, ParserFields

\* They close, and the declaration may be one of a macro.
LEMMA ParenCloses ==
  ASSUME NEW p, NEW f, f # NoWord, NEW h, NEW s \in Blocks, NEW ns,
         Parses(p, ToParen, Names(f, h), s, ns, 0, 0, 0, 0 + 1)
  PROVE  /\ Ready(ParserStep(p, ")"), "normal", Names(f, h \cup {")"}), Hads(s, Macro(f)), ns)
         /\ ParserStep(p, ")").hadParens = TRUE
<1> DEFINE q == Push(p, ")")
           r == IF f \in DefineMacros THEN Had(q, "macro") ELSE q
<1>1. Parses(q, ToParen, Names(f, h \cup {")"}), s, ns, 0, 0, 0, 0 + 1) /\ p.parens = 1
  <2>1. Parses(q, ToParen, Names(f, h \cup {")"}), s, ns, 0, 0, 0, 0 + 1)
    BY PushParses
  <2> QED
    BY <2>1 DEF Parses
<1>2. ParserStep(p, ")") = [switch_to_normal(r) EXCEPT !.parens = 0, !.hadParens = TRUE]
  <2>1. ParserStep(p, ")") = find_close_paren(p, ")")
    BY Handlers DEF Parses
  <2>2. q.names.first = f
    BY <1>1 DEF Parses, Names
  <2> HIDE DEF q
  <2>3. find_close_paren(p, ")") = [switch_to_normal(r) EXCEPT !.parens = 0, !.hadParens = TRUE]
    <3>1. ")" # "(" /\ ~(p.parens > 1)
      BY <1>1
    <3> QED
      BY <1>1, <2>2, <3>1, Zenon DEF find_close_paren, q
  <2> QED
    BY <2>1, <2>3
<1> HIDE DEF q
<1>3. Parses(r, ToParen, Names(f, h \cup {")"}), Hads(s, Macro(f)), ns, 0, 0, 0, 0 + 1)
  <2>1. CASE f \in DefineMacros
    <3>1. Parses(Had(q, "macro"), ToParen, Names(f, h \cup {")"}), Hads(s, {"macro"}), ns, 0, 0, 0, 0 + 1)
      BY <1>1, HadParses
    <3> QED
      BY <2>1, <3>1 DEF Macro
  <2>2. CASE f \notin DefineMacros
    BY <1>1, <2>2, HadsAdd DEF Macro
  <2> QED
    BY <2>1, <2>2
<1> HIDE DEF r
<1> QED
  BY <1>2, <1>3 DEF Ready, Parses, ParserFields, switch_to_normal

\* Arguments in parentheses.
LEMMA CallIsRead ==
  ASSUME NEW p, NEW f, f # NoWord, NEW h, NEW s \in Blocks, NEW ns, Ready(p, "normal", Names(f, h), s, ns),
         NEW toks, Balanced(toks, "(", ")")
  PROVE  LET text == <<"(">> \o toks \o <<")">>
         IN  /\ text \in Seq(AnyToken)
             /\ Ready(Reads(p, text), "normal", Names(f, h \cup ToSet(text)), Hads(s, Macro(f)), ns)
             /\ Reads(p, text).hadParens = TRUE
<1> DEFINE a == <<"(">>
           c == <<")">>
           q == Reads(p, a)
           r == Reads(q, toks)
<1>1. /\ a \in Seq(AnyToken) /\ toks \in Seq(AnyToken) /\ c \in Seq(AnyToken)
      /\ ToSet(a) = {"("} /\ ToSet(c) = {")"}
  <2>1. "(" \in AnyToken /\ ")" \in AnyToken
    BY TokensAre
  <2>2. toks \in Seq(AnyToken)
    BY TokensAre DEF Balanced
  <2> QED
    BY <2>1, <2>2, TokenAlone, Zenon
<1>3. q = ParserStep(p, "(") /\ Reads(r, c) = ParserStep(r, ")")
  BY ReadsOne
<1> HIDE DEF a, c
<1>2. /\ a \o toks \o c \in Seq(AnyToken)
      /\ ToSet(a \o toks \o c) = {"("} \cup ToSet(toks) \cup {")"}
      /\ Reads(p, a \o toks \o c) = Reads(r, c)
  <2>1. a \o toks \o c \in Seq(AnyToken) /\ ToSet(a \o toks \o c) = ToSet(a) \cup ToSet(toks) \cup ToSet(c)
    BY <1>1, TokensOfThree
  <2>2. Reads(p, a \o toks \o c) = Reads(Reads(Reads(p, a), toks), c)
    BY <1>1, ThreeAreRead
  <2> QED
    BY <1>1, <2>1, <2>2
<1> HIDE DEF q, r
<1>5. Parses(q, ToParen, Names(f, h \cup {"("}), s, ns, 0, 0, 0, 0 + 1)
  BY <1>3, ParenOpens
<1> DEFINE g == h \cup {"("}
<1> HIDE DEF g
<1>6. Parses(r, ToParen, Names(f, g \cup ToSet(toks)), s, ns, 0, 0, 0, 0 + 1)
  BY <1>5, ParensAreRead DEF r, g
<1> DEFINE k == g \cup ToSet(toks)
<1> HIDE DEF k
<1>7. /\ Ready(ParserStep(r, ")"), "normal", Names(f, k \cup {")"}), Hads(s, Macro(f)), ns)
      /\ ParserStep(r, ")").hadParens = TRUE
  BY <1>6, ParenCloses DEF k
<1>8. k \cup {")"} = h \cup ToSet(a \o toks \o c)
  BY <1>2 DEF k, g
<1>9. /\ a \o toks \o c \in Seq(AnyToken)
      /\ Ready(Reads(p, a \o toks \o c), "normal", Names(f, h \cup ToSet(a \o toks \o c)), Hads(s, Macro(f)), ns)
      /\ Reads(p, a \o toks \o c).hadParens = TRUE
  BY <1>2, <1>3, <1>7, <1>8
<1> QED
  BY <1>9 DEF a, c

\* The last bracket of a template closes.
LEMMA TemplateCloses ==
  ASSUME NEW p, NEW nm, NEW s, NEW ns, Parses(p, InTemplate, nm, s, ns, 0 + 1, 0, 0, 0)
  PROVE  LET r == TemplateEnds([p EXCEPT !.angles = 0])
         IN  /\ Ready(r, "normal", nm, s, ns)
             /\ ParserStep(p, ">") = IF p.keepsNames THEN Push(r, ">") ELSE r
<1> DEFINE r == TemplateEnds([p EXCEPT !.angles = 0])
<1>1. p.angles = 1 /\ p.instantiation = FALSE /\ p.hadClass = FALSE
  BY DEF Parses
<1>2. ParserStep(p, ">") = IF p.keepsNames THEN Push(r, ">") ELSE r
  <2>1. ">" \notin ClassKeys
    BY DEF ClassKeys
  <2>2. ParserStep(p, ">") = collect_template(p, ">")
    BY Handlers DEF Parses
  <2> HIDE DEF r
  <2>3. \E t : t = r /\ collect_template(p, ">") = IF p.keepsNames THEN Push(t, ">") ELSE t
    BY <1>1, <2>1, TemplateTokens DEF r
  <2> QED
    BY <2>2, <2>3
<1>3. Ready(r, "normal", nm, s, ns)
  <2> DEFINE u == [p EXCEPT !.angles = 0]
             v == [u EXCEPT !.templateErrors = IF u.hadClass THEN @ + 1 ELSE @, !.hadClass = FALSE]
  <2>1. Parses(u, InTemplate, nm, s, ns, 0, 0, 0, 0)
    BY DEF Parses, ParserFields
  <2> HIDE DEF u
  <2>2. Parses(v, InTemplate, nm, s, ns, 0, 0, 0, 0)
    BY <2>1 DEF Parses, ParserFields
  <2>3. r = switch_to_normal(v)
    <3>1. u.instantiation = FALSE
      BY <2>1 DEF Parses
    <3>2. r = IF u.instantiation THEN [v EXCEPT !.mode = "find semicolon", !.instantiation = FALSE]
              ELSE switch_to_normal(v)
      BY Zenon DEF TemplateEnds, r, u, v
    <3> QED
      BY <3>1, <3>2, Zenon
  <2> HIDE DEF v
  <2>4. Ready(switch_to_normal(v), "normal", nm, s, ns)
    BY <2>2 DEF Ready, Parses, ParserFields, switch_to_normal
  <2> QED
    BY <2>3, <2>4
<1> QED
  BY <1>2, <1>3

\* Angle brackets open after a name.
LEMMA AngleOpens ==
  ASSUME NEW p, NEW f, f # NoWord, NEW h, NEW s, NEW ns, Ready(p, "normal", Names(f, h), s, ns)
  PROVE  /\ Parses(ParserStep(p, "<"), InTemplate, Names(f, h \cup {"<"}), s, ns, 0 + 1, 0, 0, 0)
         /\ ParserStep(p, "<").keepsNames = TRUE
<1> DEFINE u == [p EXCEPT !.mode = InTemplate, !.keepsNames = TRUE]
           r == [u EXCEPT !.angles = @ + 1]
<1>1. ParserStep(p, "<") = collect_template(u, "<")
  <2>1. ParserStep(p, "<") = parse_normal(p, "<")
    BY Handlers DEF Ready, Parses
  <2>2. parse_normal(p, "<") = collect_template(u, "<")
    BY NormalTokens, Zenon
  <2> QED
    BY <2>1, <2>2
<1>2. Parses(u, InTemplate, Names(f, h), s, ns, 0, 0, 0, 0) /\ u.keepsNames = TRUE
  BY DEF Ready, Parses, ParserFields
<1> HIDE DEF u
<1>3. collect_template(u, "<") = Push(r, "<")
  <2>1. "<" \notin ClassKeys
    BY DEF ClassKeys
  <2> HIDE DEF r
  <2>2. \E t : t = r /\ collect_template(u, "<") = IF u.keepsNames THEN Push(t, "<") ELSE t
    BY <2>1, TemplateTokens DEF r
  <2> QED
    BY <1>2, <2>2
<1>4. Parses(r, InTemplate, Names(f, h), s, ns, 0 + 1, 0, 0, 0) /\ r.keepsNames = TRUE
  BY <1>2 DEF Parses, ParserFields
<1> HIDE DEF r
<1>5. /\ Parses(Push(r, "<"), InTemplate, Names(f, h \cup {"<"}), s, ns, 0 + 1, 0, 0, 0)
      /\ \A x \in ParserFields \ {"names"} : Push(r, "<")[x] = r[x]
  <2>1. Parses(Push(r, "<"), InTemplate, Names(f, h \cup {"<"}), s, ns, 0 + 1, 0, 0, 0)
    BY <1>4, PushParses
  <2>2. DOMAIN r = ParserFields
    BY <1>4 DEF Parses
  <2> QED
    BY <2>1, <2>2, PushKeeps
<1> QED
  BY <1>1, <1>3, <1>4, <1>5 DEF ParserFields

\* Arguments of a template in a declaration.
LEMMA AnglePartIsRead ==
  ASSUME NEW p, NEW f, f # NoWord, NEW h, NEW s, NEW ns, Ready(p, "normal", Names(f, h), s, ns),
         NEW toks, Balanced(toks, "<", ">"), NoneOf(toks, ClassKeys)
  PROVE  LET text == <<"<">> \o toks \o <<">">>
         IN  /\ text \in Seq(AnyToken)
             /\ Ready(Reads(p, text), "normal", Names(f, h \cup ToSet(text)), s, ns)
<1> DEFINE a == <<"<">>
           c == <<">">>
           q == Reads(p, a)
           r == Reads(q, toks)
<1>1. /\ a \in Seq(AnyToken) /\ toks \in Seq(AnyToken) /\ c \in Seq(AnyToken)
      /\ ToSet(a) = {"<"} /\ ToSet(c) = {">"}
  <2>1. "<" \in AnyToken /\ ">" \in AnyToken
    BY TokensAre
  <2>2. toks \in Seq(AnyToken)
    BY TokensAre DEF Balanced
  <2> QED
    BY <2>1, <2>2, TokenAlone, Zenon
<1>2. q = ParserStep(p, "<") /\ Reads(r, c) = ParserStep(r, ">")
  BY ReadsOne
<1> HIDE DEF a, c
<1>3. /\ a \o toks \o c \in Seq(AnyToken)
      /\ ToSet(a \o toks \o c) = {"<"} \cup ToSet(toks) \cup {">"}
      /\ Reads(p, a \o toks \o c) = Reads(r, c)
  <2>1. a \o toks \o c \in Seq(AnyToken) /\ ToSet(a \o toks \o c) = ToSet(a) \cup ToSet(toks) \cup ToSet(c)
    BY <1>1, TokensOfThree
  <2>2. Reads(p, a \o toks \o c) = Reads(Reads(Reads(p, a), toks), c)
    BY <1>1, ThreeAreRead
  <2> QED
    BY <1>1, <2>1, <2>2
<1> HIDE DEF q
<1> DEFINE g == h \cup {"<"}
<1> HIDE DEF g
<1>5. Parses(q, InTemplate, Names(f, g), s, ns, 0 + 1, 0, 0, 0) /\ q.keepsNames = TRUE
  BY <1>2, AngleOpens DEF g
<1>6. Parses(r, InTemplate, Names(f, g \cup ToSet(toks)), s, ns, 0 + 1, 0, 0, 0) /\ r.keepsNames = TRUE
  BY <1>5, AnglesAreRead
<1> HIDE DEF r
<1> DEFINE k == g \cup ToSet(toks)
           e == TemplateEnds([r EXCEPT !.angles = 0])
<1> HIDE DEF k, e
<1>7. Ready(e, "normal", Names(f, k), s, ns) /\ ParserStep(r, ">") = Push(e, ">")
  <2>1. Parses(r, InTemplate, Names(f, k), s, ns, 0 + 1, 0, 0, 0) /\ r.keepsNames = TRUE
    BY <1>6 DEF k
  <2> QED
    BY <2>1, TemplateCloses DEF e
<1>8. Ready(Push(e, ">"), "normal", Names(f, k \cup {">"}), s, ns)
  <2>1. Parses(e, "normal", Names(f, k), s, ns, 0, 0, 0, 0)
    BY <1>7 DEF Ready
  <2>2. Parses(Push(e, ">"), "normal", Names(f, k \cup {">"}), s, ns, 0, 0, 0, 0)
    BY <2>1, PushParses
  <2> QED
    BY <2>2 DEF Ready
<1>9. k \cup {">"} = h \cup ToSet(a \o toks \o c)
  BY <1>3 DEF k, g
<1>10. /\ a \o toks \o c \in Seq(AnyToken)
       /\ Ready(Reads(p, a \o toks \o c), "normal", Names(f, h \cup ToSet(a \o toks \o c)), s, ns)
  BY <1>2, <1>3, <1>7, <1>8, <1>9
<1> QED
  BY <1>10 DEF a, c

\* Two tokens, one after the other.
LEMMA PairIsJoined ==
  ASSUME NEW x \in AnyToken, NEW y \in AnyToken
  PROVE  <<x, y>> = <<x>> \o <<y>>
<1> DEFINE a == <<x>>
           b == <<y>>
           c == <<x, y>>
<1>1. /\ a \in Seq(AnyToken) /\ b \in Seq(AnyToken) /\ c \in Seq(AnyToken)
      /\ Len(a) = 1 /\ Len(b) = 1 /\ Len(c) = 2 /\ a[1] = x /\ b[1] = y /\ c[1] = x /\ c[2] = y
  OBVIOUS
<1> HIDE DEF a, b, c
<1>2. /\ a \o b \in Seq(AnyToken) /\ Len(a \o b) = Len(a) + Len(b)
      /\ \A i \in 1 .. Len(a) + Len(b) : (a \o b)[i] = IF i <= Len(a) THEN a[i] ELSE b[i - Len(a)]
  BY <1>1, ConcatProperties
<1>3. Len(a \o b) = 2 /\ (a \o b)[1] = x /\ (a \o b)[2] = y
  BY <1>1, <1>2
<1>4. \A i \in 1 .. Len(c) : (a \o b)[i] = c[i]
  BY <1>1, <1>3
<1>5. a \o b = c
  BY <1>1, <1>2, <1>3, <1>4, SeqEqual
<1> QED
  BY <1>5 DEF a, b, c

\* The token after an operator belongs to it, or to its arguments.
LEMMA OperatorsAre ==
  ASSUME NEW p, NEW tok
  PROVE  LET o == p.operator
         IN  /\ o \in DOMAIN Optional \cup {"*"} =>
                  collect_operator(p, "(") = parse_normal([p EXCEPT !.mode = "normal"], "(")
             /\ \/ o \in DOMAIN Required /\ tok = Required[o]
                \/ o \in DOMAIN Optional /\ tok \in Optional[o]
                => collect_operator(p, tok) = [Push(p, tok) EXCEPT !.mode = "normal"]
<1> DEFINE o == p.operator
<1>1. /\ o \in DOMAIN Optional \cup {"*"} => o \notin DOMAIN Required
      /\ o \in DOMAIN Required => o \notin DOMAIN Optional /\ o # "*"
      /\ o \in DOMAIN Optional => o # "*"
  BY DEF Optional, Required
<1>2. "*" \notin DOMAIN Optional
  BY DEF Optional
<1>3. o \in DOMAIN Optional => "(" \notin Optional[o]
  BY DEF Optional
<1>4. o \in DOMAIN Optional \cup {"*"} =>
        collect_operator(p, "(") = parse_normal([p EXCEPT !.mode = "normal"], "(")
  BY <1>1, <1>2, <1>3, Zenon DEF collect_operator
<1>5. \/ o \in DOMAIN Required /\ tok = Required[o]
      \/ o \in DOMAIN Optional /\ tok \in Optional[o]
      => collect_operator(p, tok) = [Push(p, tok) EXCEPT !.mode = "normal"]
  <2>1. o \in DOMAIN Required =>
          collect_operator(p, tok) =
            IF tok = Required[o] THEN [Push(p, tok) EXCEPT !.mode = "normal"] ELSE Quit(p)
    BY <1>1, Zenon DEF collect_operator
  <2>2. o \in DOMAIN Optional /\ o \notin DOMAIN Required =>
          collect_operator(p, tok) =
            IF tok \in Optional[o] THEN [Push(p, tok) EXCEPT !.mode = "normal"]
            ELSE parse_normal([p EXCEPT !.mode = "normal"], tok)
    BY <1>1, Zenon DEF collect_operator
  <2> HIDE DEF o
  <2> QED
    BY <1>1, <2>1, <2>2
<1> QED
  BY <1>4, <1>5

\* An operator of one token or two, and its arguments.
LEMMA OperatorIsRead ==
  ASSUME NEW p, NEW f, NEW h, NEW s, NEW ns, Ready(p, "normal", Names(f, h), s, ns),
         NEW op \in Seq(AnyToken), IsOperator(op),
         NEW g, f = NoWord => g = "operator", f # NoWord => g = f
  PROVE  LET q == Reads(Reads(p, <<"operator">>), op)
         IN  \E r : /\ Ready(r, "normal", Names(g, h \cup {"operator"} \cup ToSet(op)), s, ns)
                    /\ ParserStep(q, "(") = ParserStep(r, "(")
<1> DEFINE k == h \cup {"operator"}
           a == ParserStep(p, "operator")
           b == ParserStep(a, op[1])
           q == Reads(Reads(p, <<"operator">>), op)
<1>0. g # NoWord
  BY Zenon DEF NoWord
<1>1. Parses(a, "operator", Names(g, k), s, ns, 0, 0, 0, 0)
  <2> DEFINE u == Push(p, "operator")
  <2>1. Parses(u, "normal", Names(g, k), s, ns, 0, 0, 0, 0)
    BY PushParses DEF Ready
  <2>2. a = [u EXCEPT !.mode = "operator"]
    <3>0. p.end = "running" /\ p.mode = "normal"
      BY DEF Ready, Parses
    <3>1. a = parse_normal(p, "operator")
      BY <3>0, Handlers
    <3> QED
      BY <3>1, NormalTokens, Zenon
  <2> HIDE DEF u, a
  <2> QED
    BY <2>1, <2>2 DEF Parses, ParserFields
<1> HIDE DEF a, k
<1>2. Parses(b, InOperator, Names(g, k \cup {op[1]}), s, ns, 0, 0, 0, 0) /\ b.operator = op[1]
  <2> DEFINE o == op[1]
             u == Push(a, o)
  <2> HIDE DEF o
  <2>1. Parses(u, "operator", Names(g, k \cup {o}), s, ns, 0, 0, 0, 0)
    BY <1>0, <1>1, PushParses
  <2>2. b = [u EXCEPT !.operator = o, !.mode = InOperator]
    BY <1>1, Handlers DEF Parses, o
  <2> HIDE DEF u, b
  <2>3. Parses(b, InOperator, Names(g, k \cup {o}), s, ns, 0, 0, 0, 0) /\ b.operator = o
    BY <2>1, <2>2 DEF Parses, ParserFields
  <2> QED
    BY <2>3 DEF o
<1>3. Reads(p, <<"operator">>) = a
  BY ReadsOne DEF a
<1>4. CASE Len(op) = 1
  <2>1. op = <<op[1]>> /\ op[1] \in DOMAIN Optional \cup {"*"}
    BY <1>4 DEF IsOperator
  <2>2. q = b /\ ToSet(op) = {op[1]}
    <3>1. op[1] \in AnyToken
      BY <1>4
    <3> DEFINE o == op[1]
    <3> HIDE DEF o
    <3>2. Reads(a, <<o>>) = ParserStep(a, o) /\ ToSet(<<o>>) = {o}
      BY <3>1, ReadsOne, TokenAlone DEF o
    <3> QED
      BY <1>3, <2>1, <3>2 DEF o
  <2> DEFINE r == [b EXCEPT !.mode = "normal"]
  <2> HIDE DEF b
  <2>3. Ready(r, "normal", Names(g, k \cup {op[1]}), s, ns)
    BY <1>2 DEF Ready, Parses, ParserFields
  <2>4. ParserStep(b, "(") = parse_normal(r, "(")
    <3>1. collect_operator(b, "(") = parse_normal(r, "(")
      BY <1>2, <2>1, OperatorsAre
    <3>2. ParserStep(b, "(") = collect_operator(b, "(")
      BY <1>2, Handlers DEF Parses
    <3> QED
      BY <3>1, <3>2
  <2> HIDE DEF r
  <2>5. ParserStep(r, "(") = parse_normal(r, "(")
    <3>1. r.end = "running" /\ r.mode = "normal"
      BY <2>3 DEF Ready, Parses
    <3> QED
      BY <3>1, Handlers
  <2> HIDE DEF q
  <2> QED
    BY <2>2, <2>3, <2>4, <2>5 DEF q, k
<1>5. CASE Len(op) = 2
  <2> DEFINE o == op[1]
             t == op[2]
             r == ParserStep(b, t)
  <2>1. /\ op = <<o, t>> /\ o \in AnyToken /\ t \in AnyToken
        /\ \/ o \in DOMAIN Required /\ t = Required[o]
           \/ o \in DOMAIN Optional /\ t \in Optional[o]
    <3>1. op = <<o, t>> /\ o \in AnyToken /\ t \in AnyToken
      BY <1>3, <1>5
    <3> QED
      BY <1>5, <3>1 DEF IsOperator
  <2> HIDE DEF o, t
  <2>2. q = r /\ ToSet(op) = {o, t}
    <3>1. <<o, t>> = <<o>> \o <<t>>
      BY <2>1, PairIsJoined
    <3>2. <<o>> \in Seq(AnyToken) /\ <<t>> \in Seq(AnyToken) /\ ToSet(<<o>>) = {o} /\ ToSet(<<t>>) = {t}
      BY <2>1, TokenAlone
    <3>3. Reads(a, <<o>> \o <<t>>) = Reads(Reads(a, <<o>>), <<t>>)
      BY <3>2, ReadsOn
    <3>5. ToSet(<<o>> \o <<t>>) = {o, t}
      <4>1. ToSet(<<o>> \o <<t>>) = ToSet(<<o>>) \cup ToSet(<<t>>)
        BY <3>2, TokensOfBoth
      <4> QED
        BY <3>2, <4>1
    <3>4. Reads(Reads(a, <<o>>), <<t>>) = ParserStep(ParserStep(a, o), t)
      BY ReadsOne
    <3> QED
      BY <1>3, <2>1, <3>1, <3>3, <3>4, <3>5 DEF o
  <2> DEFINE u == Push(b, t)
  <2> HIDE DEF b
  <2>3. Parses(u, InOperator, Names(g, k \cup {o} \cup {t}), s, ns, 0, 0, 0, 0)
    <3> DEFINE l == k \cup {o}
    <3>1. Parses(b, InOperator, Names(g, l), s, ns, 0, 0, 0, 0)
      BY <1>2 DEF o
    <3> HIDE DEF l
    <3>2. Parses(u, InOperator, Names(g, l \cup {t}), s, ns, 0, 0, 0, 0)
      BY <1>0, <3>1, PushParses
    <3> QED
      BY <3>2 DEF l
  <2>4. r = [u EXCEPT !.mode = "normal"]
    <3>1. collect_operator(b, t) = [u EXCEPT !.mode = "normal"]
      BY <1>2, <2>1, OperatorsAre DEF o
    <3>2. r = collect_operator(b, t)
      BY <1>2, Handlers DEF Parses
    <3> QED
      BY <3>1, <3>2
  <2> HIDE DEF u, r
  <2>5. Ready(r, "normal", Names(g, k \cup {o} \cup {t}), s, ns)
    BY <2>3, <2>4 DEF Ready, Parses, ParserFields
  <2>6. k \cup {o} \cup {t} = h \cup {"operator"} \cup ToSet(op)
    BY <2>2 DEF k
  <2> HIDE DEF q
  <2> QED
    BY <2>2, <2>5, <2>6 DEF q
<1> QED
  BY <1>4, <1>5 DEF IsOperator

\* An operator and its arguments, token by token.
LEMMA OperatorPartIsRead ==
  ASSUME NEW p, NEW f, NEW h, NEW s \in Blocks, NEW ns, Ready(p, "normal", Names(f, h), s, ns),
         NEW op \in Seq(AnyToken), IsOperator(op), NEW toks, Balanced(toks, "(", ")")
  PROVE  LET text == <<"operator">> \o op \o <<"(">> \o toks \o <<")">>
             g == IF f = NoWord THEN "operator" ELSE f
         IN  /\ text \in Seq(AnyToken) /\ text # <<>> /\ text[1] = "operator"
             /\ Ready(Reads(p, text), "normal", Names(g, h \cup ToSet(text)), Hads(s, Macro(g)), ns)
             /\ Reads(p, text).hadParens = TRUE
<1> DEFINE o == <<"operator">>
           a == <<"(">>
           c == <<")">>
           d == o \o op \o a
           text == d \o toks \o c
           call == a \o toks \o c
           g == IF f = NoWord THEN "operator" ELSE f
           q == Reads(Reads(p, o), op)
<1>1. /\ o \in Seq(AnyToken) /\ op \in Seq(AnyToken) /\ a \in Seq(AnyToken)
      /\ toks \in Seq(AnyToken) /\ c \in Seq(AnyToken)
      /\ ToSet(o) = {"operator"} /\ o # <<>> /\ o[1] = "operator"
  <2>1. "(" \in AnyToken /\ ")" \in AnyToken /\ "operator" \in AnyToken
    BY TokensAre
  <2>2. toks \in Seq(AnyToken)
    BY TokensAre DEF Balanced
  <2>3. /\ o \in Seq(AnyToken) /\ a \in Seq(AnyToken) /\ c \in Seq(AnyToken)
        /\ ToSet(o) = {"operator"} /\ o # <<>> /\ o[1] = "operator"
    BY <2>1, TokenAlone, Zenon
  <2> QED
    BY <2>2, <2>3
<1>2. PICK r : /\ Ready(r, "normal", Names(g, h \cup {"operator"} \cup ToSet(op)), s, ns)
               /\ ParserStep(q, "(") = ParserStep(r, "(")
  <2>1. (f = NoWord => g = "operator") /\ (f # NoWord => g = f)
    OBVIOUS
  <2> HIDE DEF g
  <2>2. LET u == Reads(Reads(p, <<"operator">>), op)
        IN  \E r : /\ Ready(r, "normal", Names(g, h \cup {"operator"} \cup ToSet(op)), s, ns)
                   /\ ParserStep(u, "(") = ParserStep(r, "(")
    BY <2>1, OperatorIsRead
  <2> QED
    BY <2>2, Zenon
<1>3. Reads(q, a) = Reads(r, a) /\ g # NoWord
  <2>1. g # NoWord
    BY Zenon DEF NoWord
  <2> QED
    BY <1>2, <2>1, ReadsOne
<1> HIDE DEF o, a, c, g
<1>4. /\ d \in Seq(AnyToken) /\ ToSet(d) = ToSet(o) \cup ToSet(op) \cup ToSet(a)
      /\ Reads(p, d) = Reads(q, a) /\ d # <<>> /\ d[1] = "operator"
  <2>1. d \in Seq(AnyToken) /\ ToSet(d) = ToSet(o) \cup ToSet(op) \cup ToSet(a)
    BY <1>1, TokensOfThree
  <2>2. Reads(p, d) = Reads(q, a)
    BY <1>1, ThreeAreRead
  <2>3. d # <<>> /\ d[1] = "operator"
    BY <1>1, ThreeBegin
  <2> QED
    BY <2>1, <2>2, <2>3
<1> HIDE DEF d, q
<1>5. /\ text \in Seq(AnyToken) /\ ToSet(text) = ToSet(d) \cup ToSet(toks) \cup ToSet(c)
      /\ Reads(p, text) = Reads(Reads(Reads(p, d), toks), c) /\ text # <<>> /\ text[1] = "operator"
  <2>1. text \in Seq(AnyToken) /\ ToSet(text) = ToSet(d) \cup ToSet(toks) \cup ToSet(c)
    BY <1>1, <1>4, TokensOfThree
  <2>2. Reads(p, text) = Reads(Reads(Reads(p, d), toks), c)
    BY <1>1, <1>4, ThreeAreRead
  <2>3. text # <<>> /\ text[1] = "operator"
    BY <1>1, <1>4, ThreeBegin
  <2> QED
    BY <2>1, <2>2, <2>3
<1>6. /\ ToSet(call) = ToSet(a) \cup ToSet(toks) \cup ToSet(c)
      /\ Reads(r, call) = Reads(Reads(Reads(r, a), toks), c)
  <2>1. ToSet(call) = ToSet(a) \cup ToSet(toks) \cup ToSet(c)
    BY <1>1, TokensOfThree
  <2>2. Reads(r, call) = Reads(Reads(Reads(r, a), toks), c)
    BY <1>1, ThreeAreRead
  <2> QED
    BY <2>1, <2>2
<1>7. Reads(p, text) = Reads(r, call)
  BY <1>3, <1>4, <1>5, <1>6
<1> DEFINE k == h \cup {"operator"} \cup ToSet(op)
<1>8. /\ Ready(Reads(r, call), "normal", Names(g, k \cup ToSet(call)), Hads(s, Macro(g)), ns)
      /\ Reads(r, call).hadParens = TRUE
  <2> HIDE DEF k
  <2>1. Ready(r, "normal", Names(g, k), s, ns)
    BY <1>2 DEF k
  <2>2. LET x == <<"(">> \o toks \o <<")">>
        IN /\ Ready(Reads(r, x), "normal", Names(g, k \cup ToSet(x)), Hads(s, Macro(g)), ns)
           /\ Reads(r, x).hadParens = TRUE
    BY <1>3, <2>1, CallIsRead
  <2> QED
    BY <2>2 DEF a, c
<1>9. k \cup ToSet(call) = h \cup ToSet(text)
  BY <1>1, <1>4, <1>5, <1>6
<1> HIDE DEF text, call, k
<1>10. /\ text \in Seq(AnyToken) /\ text # <<>> /\ text[1] = "operator"
       /\ Ready(Reads(p, text), "normal", Names(g, h \cup ToSet(text)), Hads(s, Macro(g)), ns)
       /\ Reads(p, text).hadParens = TRUE
  BY <1>5, <1>7, <1>8, <1>9
<1> QED
  BY <1>10 DEF text, d, o, a, c, g

\* Any part.
IsCall(part) == part.is \in {"parens", "operator"}

\* A part is read, and the first name of a declaration is its first token.
LEMMA PartIsRead ==
  ASSUME NEW p, NEW f, NEW h, NEW s \in Blocks, NEW ns, Ready(p, "normal", Names(f, h), s, ns),
         NEW part, IsPart(part),
         f # NoWord \/ part.is = "operator" \/ (part.is = "words" /\ part.toks # <<>>),
         NEW g, f # NoWord => g = f, f = NoWord => g = TextOfPart(part)[1]
  PROVE  LET text == TextOfPart(part)
             q == Reads(p, text)
         IN  /\ text \in Seq(AnyToken) /\ g # NoWord /\ (f = NoWord => text # <<>>)
             /\ Ready(q, "normal", Names(g, h \cup ToSet(text)),
                      Hads(s, IF IsCall(part) THEN Macro(g) ELSE {}), ns)
             /\ IsCall(part) => q.hadParens = TRUE
             /\ part.is = "words" => q.hadParens = p.hadParens
<1> DEFINE text == TextOfPart(part)
           q == Reads(p, text)
           Goal == /\ text \in Seq(AnyToken) /\ g # NoWord /\ (f = NoWord => text # <<>>)
                   /\ Ready(q, "normal", Names(g, h \cup ToSet(text)),
                            Hads(s, IF IsCall(part) THEN Macro(g) ELSE {}), ns)
                   /\ IsCall(part) => q.hadParens = TRUE
                   /\ part.is = "words" => q.hadParens = p.hadParens
<1> SUFFICES Goal
  OBVIOUS
<1> HIDE DEF text, q, Goal
<1>1. CASE part.is = "words"
  <2>1. NoneOf(part.toks, NotPlain) /\ text = part.toks
    BY <1>1 DEF IsPart, TextOfPart, text
  <2>2. text \in Seq(AnyToken)
    BY <2>1, TokensAre DEF NoneOf
  <2>3. f = NoWord => text # <<>>
    BY <1>1, <2>1
  <2>4. g # NoWord
    <3> SUFFICES ASSUME f = NoWord PROVE g # NoWord
      OBVIOUS
    <3>1. g = text[1] /\ text # <<>>
      BY <2>3 DEF text
    <3>2. text[1] \in ToSet(text)
      BY <2>2, <3>1, EmptySeq DEF ToSet
    <3>3. NoWord \in NotPlain
      BY Zenon DEF NotPlain, NoWord
    <3> QED
      BY <2>1, <3>1, <3>2, <3>3 DEF NoneOf
  <2>5. g = IF f = NoWord /\ text # <<>> THEN text[1] ELSE f
    BY <2>3 DEF text
  <2>6. /\ Ready(q, "normal", Names(IF f = NoWord /\ text # <<>> THEN text[1] ELSE f, h \cup ToSet(text)), s, ns)
        /\ q.hadParens = p.hadParens
    BY <2>1, WordsAreRead DEF q
  <2>7. ~IsCall(part) /\ Hads(s, {}) = s
    BY <1>1, HadsAdd DEF IsCall
  <2> QED
    BY <2>2, <2>3, <2>4, <2>5, <2>6, <2>7 DEF Goal
<1>2. CASE part.is = "parens"
  <2>1. Balanced(part.toks, "(", ")") /\ text = <<"(">> \o part.toks \o <<")">> /\ f # NoWord /\ g = f
    BY <1>2 DEF IsPart, TextOfPart, text
  <2>2. IsCall(part) /\ part.is # "words"
    BY <1>2 DEF IsCall
  <2> DEFINE x == <<"(">> \o part.toks \o <<")">>
  <2>3. /\ x \in Seq(AnyToken)
        /\ Ready(Reads(p, x), "normal", Names(f, h \cup ToSet(x)), Hads(s, Macro(f)), ns)
        /\ Reads(p, x).hadParens = TRUE
    BY <2>1, CallIsRead
  <2>4. text = x
    BY <2>1
  <2> HIDE DEF x
  <2> QED
    BY <2>1, <2>2, <2>3, <2>4 DEF Goal, q
<1>3. CASE part.is = "angles"
  <2>1. Balanced(part.toks, "<", ">") /\ text = <<"<">> \o part.toks \o <<">">> /\ f # NoWord /\ g = f
    BY <1>3 DEF IsPart, TextOfPart, text
  <2>2. ~IsCall(part) /\ part.is # "words" /\ Hads(s, {}) = s
    BY <1>3, HadsAdd DEF IsCall
  <2>3. NoneOf(part.toks, ClassKeys)
    BY <1>3 DEF IsPart, NoneOf
  <2> DEFINE x == <<"<">> \o part.toks \o <<">">>
  <2>4. x \in Seq(AnyToken) /\ Ready(Reads(p, x), "normal", Names(f, h \cup ToSet(x)), s, ns)
    BY <2>1, <2>3, AnglePartIsRead
  <2>5. text = x
    BY <2>1
  <2> HIDE DEF x
  <2> QED
    BY <2>1, <2>2, <2>4, <2>5 DEF Goal, q
<1>4. CASE part.is = "operator"
  <2> DEFINE op == part.op
             toks == part.toks
             x == <<"operator">> \o op \o <<"(">> \o toks \o <<")">>
             v == IF f = NoWord THEN "operator" ELSE f
  <2>1. Balanced(toks, "(", ")") /\ op \in Seq(STRING) /\ IsOperator(op) /\ text = x
    BY <1>4 DEF IsPart, TextOfPart, text
  <2>2. op \in Seq(AnyToken)
    BY <2>1, TokensAre
  <2>3. IsCall(part) /\ part.is # "words"
    BY <1>4 DEF IsCall
  <2> HIDE DEF op, toks
  <2>4. /\ x \in Seq(AnyToken) /\ x # <<>> /\ x[1] = "operator"
        /\ Ready(Reads(p, x), "normal", Names(v, h \cup ToSet(x)), Hads(s, Macro(v)), ns)
        /\ Reads(p, x).hadParens = TRUE
    <3>1. IsOperator(op) /\ Balanced(toks, "(", ")")
      BY <2>1
    <3> QED
      BY <2>2, <3>1, OperatorPartIsRead
  <2>5. text = x
    BY <2>1
  <2> HIDE DEF x
  <2>6. g = v /\ g # NoWord
    <3>1. "operator" # NoWord
      BY Zenon DEF NoWord
    <3>2. f = NoWord => g = text[1]
      BY DEF text
    <3> QED
      BY <2>4, <2>5, <3>1, <3>2
  <2> HIDE DEF v
  <2> QED
    BY <2>3, <2>4, <2>5, <2>6 DEF Goal, q
<1>5. part.is \in {"words", "parens", "angles", "operator"}
  BY DEF IsPart
<1> QED
  BY <1>1, <1>2, <1>3, <1>4, <1>5

\* A list is joined sequence by sequence.
LEMMA JoinedMeans ==
  ASSUME NEW list, Len(list) \in Nat
  PROVE  /\ Joined(list) = JoinedTo(list)[Len(list)] /\ JoinedTo(list)[0] = <<>>
         /\ \A k \in Nat : k + 1 <= Len(list) => JoinedTo(list)[k + 1] = JoinedTo(list)[k] \o list[k + 1]
<1>1. ASSUME NEW k \in Nat, k + 1 <= Len(list) PROVE JoinedTo(list)[k + 1] = JoinedTo(list)[k] \o list[k + 1]
  <2>1. k + 1 \in 1 .. Len(list) /\ (k + 1) - 1 = k
    BY <1>1
  <2> QED
    BY <2>1, ListIsJoined
<1> QED
  BY <1>1, ListIsJoined DEF Joined

\* Nothing before a text.
LEMMA NothingBefore ==
  ASSUME NEW a \in Seq(AnyToken)
  PROVE  <<>> \o a = a
<1>1. <<>> \in Seq(AnyToken) /\ Len(<<>>) = 0
  OBVIOUS
<1> DEFINE e == <<>>
<1> HIDE DEF e
<1>2. e \in Seq(AnyToken) /\ Len(e) = 0
  BY <1>1 DEF e
<1>3. /\ e \o a \in Seq(AnyToken) /\ Len(e \o a) = Len(e) + Len(a) /\ Len(a) \in Nat
      /\ \A i \in 1 .. Len(e) + Len(a) : (e \o a)[i] = IF i <= Len(e) THEN e[i] ELSE a[i - Len(e)]
  BY <1>2, ConcatProperties, LenProperties
<1>4. Len(e \o a) = Len(a) /\ \A i \in 1 .. Len(a) : (e \o a)[i] = a[i]
  BY <1>2, <1>3
<1>5. e \o a = a
  BY <1>3, <1>4, SeqEqual
<1> QED
  BY <1>5 DEF e

\* Only parts that call have parentheses.
LEMMA PartTokens ==
  ASSUME NEW part, IsPart(part)
  PROVE  /\ TextOfPart(part) \in Seq(AnyToken)
         /\ IsCall(part) => "(" \in ToSet(TextOfPart(part)) /\ ")" \in ToSet(TextOfPart(part))
         /\ ~IsCall(part) => "(" \notin ToSet(TextOfPart(part))
<1> DEFINE toks == part.toks
           op == part.op
           text == TextOfPart(part)
<1>1. part.is \in {"words", "parens", "angles", "operator"} /\ toks \in Seq(AnyToken)
  BY TokensAre DEF IsPart, NoneOf, Balanced
<1>2. /\ <<"(">> \in Seq(AnyToken) /\ <<")">> \in Seq(AnyToken)
      /\ <<"<">> \in Seq(AnyToken) /\ <<">">> \in Seq(AnyToken) /\ <<"operator">> \in Seq(AnyToken)
      /\ ToSet(<<"(">>) = {"("} /\ ToSet(<<")">>) = {")"}
      /\ ToSet(<<"<">>) = {"<"} /\ ToSet(<<">">>) = {">"} /\ ToSet(<<"operator">>) = {"operator"}
  <2>1. {"(", ")", "<", ">", "operator"} \subseteq AnyToken
    BY TokensAre
  <2>2. "(" \in AnyToken /\ ")" \in AnyToken /\ "<" \in AnyToken /\ ">" \in AnyToken /\ "operator" \in AnyToken
    BY <2>1
  <2> QED
    BY <2>2, TokenAlone, Zenon
<1>3. CASE part.is = "words"
  <2>1. text = toks /\ NoneOf(toks, NotPlain)
    BY <1>3 DEF TextOfPart, IsPart
  <2>2. "(" \in NotPlain
    BY Zenon DEF NotPlain
  <2>3. "(" \notin ToSet(toks)
    BY <2>1, <2>2 DEF NoneOf
  <2> QED
    BY <1>1, <1>3, <2>1, <2>3 DEF IsCall
<1>4. CASE part.is = "parens"
  <2> DEFINE a == <<"(">>
             c == <<")">>
  <2>1. text = a \o toks \o c
    BY <1>4 DEF TextOfPart
  <2>2. a \in Seq(AnyToken) /\ c \in Seq(AnyToken) /\ ToSet(a) = {"("} /\ ToSet(c) = {")"}
    BY <1>2
  <2> HIDE DEF a, c, toks
  <2>3. a \o toks \o c \in Seq(AnyToken) /\ ToSet(a \o toks \o c) = ToSet(a) \cup ToSet(toks) \cup ToSet(c)
    BY <1>1, <2>2, TokensOfThree
  <2> QED
    BY <1>4, <2>1, <2>2, <2>3 DEF IsCall
<1>5. CASE part.is = "angles"
  <2> DEFINE a == <<"<">>
             c == <<">">>
  <2>1. text = a \o toks \o c
    BY <1>5 DEF TextOfPart
  <2>2. a \in Seq(AnyToken) /\ c \in Seq(AnyToken) /\ ToSet(a) = {"<"} /\ ToSet(c) = {">"}
    BY <1>2
  <2>3. "(" \notin ToSet(toks)
    BY <1>5 DEF IsPart, NoneOf
  <2> HIDE DEF a, c, toks
  <2>4. a \o toks \o c \in Seq(AnyToken) /\ ToSet(a \o toks \o c) = ToSet(a) \cup ToSet(toks) \cup ToSet(c)
    BY <1>1, <2>2, TokensOfThree
  <2> QED
    BY <1>5, <2>1, <2>2, <2>3, <2>4 DEF IsCall
<1>6. CASE part.is = "operator"
  <2> DEFINE o == <<"operator">>
             a == <<"(">>
             c == <<")">>
             d == o \o op \o a
  <2>1. text = d \o toks \o c
    BY <1>6 DEF TextOfPart
  <2>2. /\ a \in Seq(AnyToken) /\ c \in Seq(AnyToken) /\ ToSet(a) = {"("} /\ ToSet(c) = {")"}
        /\ o \in Seq(AnyToken)
    BY <1>2
  <2>3. op \in Seq(AnyToken)
    BY <1>6, TokensAre DEF IsPart
  <2> HIDE DEF o, a, c, toks, op
  <2>4. d \in Seq(AnyToken) /\ ToSet(d) = ToSet(o) \cup ToSet(op) \cup ToSet(a)
    BY <2>2, <2>3, TokensOfThree
  <2> HIDE DEF d
  <2>5. d \o toks \o c \in Seq(AnyToken) /\ ToSet(d \o toks \o c) = ToSet(d) \cup ToSet(toks) \cup ToSet(c)
    BY <1>1, <2>2, <2>4, TokensOfThree
  <2> QED
    BY <1>6, <2>1, <2>2, <2>4, <2>5 DEF IsCall
<1> QED
  BY <1>1, <1>3, <1>4, <1>5, <1>6

\* One more part is read, of a declaration that has begun.
LEMMA OnePartMore ==
  ASSUME NEW q, NEW f, f # NoWord, NEW h, NEW s \in Blocks, NEW ns, NEW called \in BOOLEAN,
         Ready(q, "normal", Names(f, h), Hads(s, IF called THEN Macro(f) ELSE {}), ns),
         NEW part, IsPart(part)
  PROVE  LET r == Reads(q, TextOfPart(part))
         IN  /\ Ready(r, "normal", Names(f, h \cup ToSet(TextOfPart(part))),
                      Hads(s, IF called \/ IsCall(part) THEN Macro(f) ELSE {}), ns)
             /\ IsCall(part) => r.hadParens = TRUE
             /\ part.is = "words" => r.hadParens = q.hadParens
<1> DEFINE a == IF called THEN Macro(f) ELSE {}
           b == IF IsCall(part) THEN Macro(f) ELSE {}
           t == Hads(s, a)
           text == TextOfPart(part)
           r == Reads(q, text)
<1>1. a \in SUBSET DeclaredKinds /\ b \in SUBSET DeclaredKinds
  <2>1. Macro(f) \in SUBSET DeclaredKinds
    BY DEF Macro, DeclaredKinds
  <2> QED
    BY <2>1
<1>2. a \cup b = IF called \/ IsCall(part) THEN Macro(f) ELSE {}
  OBVIOUS
<1>3. Ready(q, "normal", Names(f, h), t, ns)
  OBVIOUS
<1> HIDE DEF a, b
<1>4. t \in Blocks /\ Hads(t, b) = Hads(s, a \cup b)
  BY <1>1, HadsMeans, HadsAdd
<1> HIDE DEF t
<1>5. /\ Ready(r, "normal", Names(f, h \cup ToSet(text)), Hads(t, IF IsCall(part) THEN Macro(f) ELSE {}), ns)
      /\ IsCall(part) => r.hadParens = TRUE
      /\ part.is = "words" => r.hadParens = q.hadParens
  BY <1>3, <1>4, PartIsRead
<1>6. Hads(t, IF IsCall(part) THEN Macro(f) ELSE {}) = Hads(s, IF called \/ IsCall(part) THEN Macro(f) ELSE {})
  BY <1>2, <1>4 DEF b
<1> QED
  BY <1>5, <1>6

\* All parts of a declaration.
CallUpTo(parts, k) == \E i \in 1 .. k : IsCall(parts[i])
CallLast(parts, k) == \E i \in 1 .. k : IsCall(parts[i]) /\ \A j \in (i + 1) .. k : parts[j].is = "words"

\* The calls among the first parts, one part more at a time.
LEMMA CallsUpTo ==
  ASSUME NEW parts, NEW k \in Nat
  PROVE  /\ CallUpTo(parts, k + 1) <=> CallUpTo(parts, k) \/ IsCall(parts[k + 1])
         /\ CallLast(parts, k + 1) => IsCall(parts[k + 1]) \/ (CallLast(parts, k) /\ parts[k + 1].is = "words")
         /\ ~CallUpTo(parts, 0) /\ ~CallLast(parts, 0)
<1>1. 1 .. (k + 1) = (1 .. k) \cup {k + 1}
  OBVIOUS
<1>2. CallUpTo(parts, k + 1) <=> CallUpTo(parts, k) \/ IsCall(parts[k + 1])
  BY <1>1 DEF CallUpTo
<1>3. ASSUME CallLast(parts, k + 1), ~IsCall(parts[k + 1])
      PROVE  CallLast(parts, k) /\ parts[k + 1].is = "words"
  <2>1. PICK i \in 1 .. (k + 1) : IsCall(parts[i]) /\ \A j \in (i + 1) .. (k + 1) : parts[j].is = "words"
    BY <1>3 DEF CallLast
  <2>2. i \in 1 .. k
    BY <1>1, <1>3, <2>1
  <2>3. k + 1 \in (i + 1) .. (k + 1) /\ \A j \in (i + 1) .. k : j \in (i + 1) .. (k + 1)
    BY <2>2
  <2> QED
    BY <2>1, <2>2, <2>3 DEF CallLast
<1>4. ~CallUpTo(parts, 0) /\ ~CallLast(parts, 0)
  BY DEF CallUpTo, CallLast
<1> QED
  BY <1>2, <1>3, <1>4

\* A parser that has read some parts.
ReadParts(q, f, text, s, ns, called, last) ==
    /\ text \in Seq(AnyToken) /\ text # <<>> /\ text[1] = f
    /\ Ready(q, "normal", Names(f, ToSet(text)), Hads(s, IF called THEN Macro(f) ELSE {}), ns)
    /\ last => q.hadParens = TRUE
    /\ called => "(" \in ToSet(text) /\ ")" \in ToSet(text)
    /\ ~called => "(" \notin ToSet(text)

\* The first part begins the declaration.
LEMMA FirstPartIsRead ==
  ASSUME NEW p, NEW s \in Blocks, NEW ns, Ready(p, "normal", NoNames, s, ns),
         NEW part, IsPart(part), part.is = "operator" \/ (part.is = "words" /\ part.toks # <<>>)
  PROVE  LET text == TextOfPart(part)
         IN  text[1] # NoWord /\
             ReadParts(Reads(p, text), text[1], text, s, ns, IsCall(part), IsCall(part))
<1> DEFINE text == TextOfPart(part)
           g == text[1]
           q == Reads(p, text)
<1>1. Ready(p, "normal", Names(NoWord, {}), s, ns)
  BY NoNamesMeans
<1>2. /\ text \in Seq(AnyToken) /\ g # NoWord /\ text # <<>>
      /\ Ready(q, "normal", Names(g, {} \cup ToSet(text)), Hads(s, IF IsCall(part) THEN Macro(g) ELSE {}), ns)
      /\ IsCall(part) => q.hadParens = TRUE
  <2> DEFINE h == {}
             f == NoWord
  <2>1. Ready(p, "normal", Names(f, h), s, ns) /\ f = NoWord /\ g = TextOfPart(part)[1]
    BY <1>1
  <2> HIDE DEF h, f, g
  <2>2. /\ text \in Seq(AnyToken) /\ g # NoWord /\ (f = NoWord => text # <<>>)
        /\ Ready(q, "normal", Names(g, h \cup ToSet(text)), Hads(s, IF IsCall(part) THEN Macro(g) ELSE {}), ns)
        /\ IsCall(part) => q.hadParens = TRUE
    BY <2>1, PartIsRead
  <2> QED
    BY <2>1, <2>2 DEF h
<1>3. /\ IsCall(part) => "(" \in ToSet(text) /\ ")" \in ToSet(text)
      /\ ~IsCall(part) => "(" \notin ToSet(text)
  BY PartTokens
<1> HIDE DEF q, text
<1>4. {} \cup ToSet(text) = ToSet(text)
  OBVIOUS
<1>5. g # NoWord /\ ReadParts(q, g, text, s, ns, IsCall(part), IsCall(part))
  BY <1>2, <1>3, <1>4 DEF ReadParts
<1> QED
  BY <1>5 DEF q, text

\* Another part continues it.
LEMMA NextPartIsRead ==
  ASSUME NEW p, NEW f, f # NoWord, NEW before, NEW s \in Blocks, NEW ns,
         NEW called \in BOOLEAN, NEW last \in BOOLEAN,
         ReadParts(Reads(p, before), f, before, s, ns, called, last),
         NEW part, IsPart(part)
  PROVE  LET text == before \o TextOfPart(part)
         IN  ReadParts(Reads(p, text), f, text, s, ns, called \/ IsCall(part),
                       IsCall(part) \/ (last /\ part.is = "words"))
<1> DEFINE more == TextOfPart(part)
           text == before \o more
           q == Reads(p, before)
           r == Reads(q, more)
           h == ToSet(before)
<1>1. /\ before \in Seq(AnyToken) /\ before # <<>> /\ before[1] = f
      /\ Ready(q, "normal", Names(f, h), Hads(s, IF called THEN Macro(f) ELSE {}), ns)
      /\ last => q.hadParens = TRUE
      /\ called => "(" \in h /\ ")" \in h
      /\ ~called => "(" \notin h
  BY DEF ReadParts
<1>2. /\ more \in Seq(AnyToken)
      /\ IsCall(part) => "(" \in ToSet(more) /\ ")" \in ToSet(more)
      /\ ~IsCall(part) => "(" \notin ToSet(more)
  BY PartTokens
<1>3. /\ Ready(r, "normal", Names(f, h \cup ToSet(more)), Hads(s, IF called \/ IsCall(part) THEN Macro(f) ELSE {}), ns)
      /\ IsCall(part) => r.hadParens = TRUE
      /\ part.is = "words" => r.hadParens = q.hadParens
  <2> HIDE DEF q, h
  <2>1. Ready(q, "normal", Names(f, h), Hads(s, IF called THEN Macro(f) ELSE {}), ns)
    BY <1>1
  <2> QED
    BY <2>1, OnePartMore
<1> HIDE DEF more, q, h
<1>4. /\ text \in Seq(AnyToken) /\ ToSet(text) = h \cup ToSet(more) /\ text # <<>> /\ text[1] = f
  <2>1. text \in Seq(AnyToken) /\ ToSet(text) = ToSet(before) \cup ToSet(more)
    BY <1>1, <1>2, TokensOfBoth
  <2>2. text # <<>> /\ text[1] = before[1]
    BY <1>1, <1>2, FirstOfBoth
  <2> QED
    BY <1>1, <2>1, <2>2 DEF h
<1>5. Reads(p, text) = r
  BY <1>1, <1>2, ReadsOn DEF q
<1> HIDE DEF text, r
<1>6. ReadParts(Reads(p, text), f, text, s, ns, called \/ IsCall(part),
                IsCall(part) \/ (last /\ part.is = "words"))
  BY <1>1, <1>2, <1>3, <1>4, <1>5 DEF ReadParts
<1> QED
  BY <1>6 DEF text, more

\* All parts of a declaration are read.
LEMMA PartsAreRead ==
  ASSUME NEW p, NEW s \in Blocks, NEW ns, Ready(p, "normal", NoNames, s, ns), NEW parts, AreParts(parts)
  PROVE  /\ FirstWord(parts) # NoWord /\ FirstWord(parts) = TextOfPart(parts[1])[1]
         /\ ReadParts(Reads(p, TextOfParts(parts)), FirstWord(parts), TextOfParts(parts), s, ns,
                      Calls(parts) # {},
                      \E i \in Calls(parts) : \A j \in DOMAIN parts : j > i => parts[j].is = "words")
<1> DEFINE list == [i \in DOMAIN parts |-> TextOfPart(parts[i])]
           n == Len(parts)
           J(k) == JoinedTo(list)[k]
           f == TextOfPart(parts[1])[1]
           Good(k) == ReadParts(Reads(p, J(k)), f, J(k), s, ns, CallUpTo(parts, k), CallLast(parts, k))
           S == {k \in Nat : k > 0 => Good(k)}
<1>1. /\ n \in Nat /\ n > 0 /\ DOMAIN parts = 1 .. n
      /\ \A i \in 1 .. n : IsPart(parts[i])
      /\ parts[1].is = "operator" \/ (parts[1].is = "words" /\ parts[1].toks # <<>>)
  BY DEF AreParts
<1>2. Len(list) = n /\ \A i \in 1 .. n : list[i] = TextOfPart(parts[i])
  BY <1>1
<1>3. /\ TextOfParts(parts) = J(n) /\ J(0) = <<>>
      /\ \A k \in Nat : k + 1 <= n => J(k + 1) = J(k) \o TextOfPart(parts[k + 1])
  <2> HIDE DEF list
  <2>1. /\ Joined(list) = J(n) /\ J(0) = <<>>
        /\ \A k \in Nat : k + 1 <= n => J(k + 1) = J(k) \o list[k + 1]
    BY <1>1, <1>2, JoinedMeans
  <2>2. \A k \in Nat : k + 1 <= n => k + 1 \in 1 .. n
    BY <1>1
  <2>3. \A k \in Nat : k + 1 <= n => J(k + 1) = J(k) \o TextOfPart(parts[k + 1])
    BY <1>2, <2>1, <2>2
  <2>4. TextOfParts(parts) = Joined(list)
    BY DEF TextOfParts, list
  <2> QED
    BY <2>1, <2>3, <2>4
<1> HIDE DEF J
<1>4. f # NoWord /\ Good(1)
  <2> DEFINE part == parts[1]
             text == TextOfPart(part)
  <2>1. text[1] # NoWord /\ ReadParts(Reads(p, text), text[1], text, s, ns, IsCall(part), IsCall(part))
    BY <1>1, FirstPartIsRead
  <2>2. J(1) = text
    <3>1. J(1) = <<>> \o text
      <4> DEFINE k == 0
      <4>1. k = 0 /\ k \in Nat /\ k + 1 <= n
        BY <1>1
      <4> HIDE DEF k
      <4>2. J(k + 1) = J(k) \o TextOfPart(parts[k + 1])
        BY <1>3, <4>1
      <4>3. k + 1 = 1
        BY <4>1
      <4> QED
        BY <1>3, <4>1, <4>2, <4>3
    <3>2. text \in Seq(AnyToken)
      BY <1>1, PartTokens
    <3> HIDE DEF text
    <3> QED
      BY <3>1, <3>2, NothingBefore
  <2>3. CallUpTo(parts, 1) = IsCall(part) /\ CallLast(parts, 1) = IsCall(part)
    <3>1. 1 .. 1 = {1} /\ (1 + 1) .. 1 = {}
      OBVIOUS
    <3>2. CallUpTo(parts, 1) <=> IsCall(part)
      BY <3>1 DEF CallUpTo
    <3>3. CallLast(parts, 1) <=> IsCall(part)
      BY <3>1 DEF CallLast
    <3>4. CallUpTo(parts, 1) \in BOOLEAN /\ CallLast(parts, 1) \in BOOLEAN /\ IsCall(part) \in BOOLEAN
      BY DEF CallUpTo, CallLast, IsCall
    <3> QED
      BY <3>2, <3>3, <3>4
  <2> QED
    BY <2>1, <2>2, <2>3
<1> HIDE DEF f
<1>5. ASSUME NEW k \in Nat, k + 1 <= n, k \in S PROVE k + 1 \in S
  <2> SUFFICES ASSUME k > 0 PROVE Good(k + 1)
    BY <1>4
  <2> DEFINE part == parts[k + 1]
             before == J(k)
             called == CallUpTo(parts, k)
             last == CallLast(parts, k)
  <2>1. ReadParts(Reads(p, before), f, before, s, ns, called, last)
    BY <1>5
  <2>2. IsPart(part)
    BY <1>1, <1>5
  <2>3. J(k + 1) = before \o TextOfPart(part)
    BY <1>3, <1>5
  <2>4. called \in BOOLEAN /\ last \in BOOLEAN
    BY DEF CallUpTo, CallLast
  <2> DEFINE text == before \o TextOfPart(part)
             b == CallUpTo(parts, k + 1)
             l == CallLast(parts, k + 1)
  <2>5. /\ b <=> called \/ IsCall(part)
        /\ l => IsCall(part) \/ (last /\ part.is = "words")
    BY CallsUpTo
  <2> HIDE DEF part, before, called, last, b, l
  <2>6. ReadParts(Reads(p, text), f, text, s, ns, called \/ IsCall(part), IsCall(part) \/ (last /\ part.is = "words"))
    BY <1>4, <2>1, <2>2, <2>4, NextPartIsRead
  <2> HIDE DEF text
  <2>7. ReadParts(Reads(p, text), f, text, s, ns, b, l)
    BY <2>5, <2>6 DEF ReadParts
  <2> QED
    BY <2>3, <2>7 DEF text, b, l
<1>6. Good(n)
  <2>1. n \in S
    <3>1. 0 \in S
      OBVIOUS
    <3> HIDE DEF S
    <3> QED
      BY <1>1, <1>5, <3>1, CountingUpTo
  <2> HIDE DEF Good
  <2> QED
    BY <1>1, <2>1
<1>7. FirstWord(parts) = f /\ TextOfParts(parts) = J(n)
  BY <1>3, <1>6 DEF FirstWord, ReadParts
<1>8. Calls(parts) # {} <=> CallUpTo(parts, n)
  BY <1>1 DEF Calls, CallUpTo, IsCall
<1>9. (\E i \in Calls(parts) : \A j \in DOMAIN parts : j > i => parts[j].is = "words") => CallLast(parts, n)
  <2> SUFFICES ASSUME NEW i \in Calls(parts), \A j \in DOMAIN parts : j > i => parts[j].is = "words"
               PROVE  CallLast(parts, n)
    OBVIOUS
  <2>1. i \in 1 .. n /\ IsCall(parts[i])
    BY <1>1 DEF Calls, IsCall
  <2>2. \A j \in (i + 1) .. n : j \in DOMAIN parts /\ j > i
    BY <1>1, <2>1
  <2> QED
    BY <2>1, <2>2 DEF CallLast
<1>10. FirstWord(parts) = TextOfPart(parts[1])[1]
  BY <1>7 DEF f
<1> HIDE DEF n
<1> QED
  BY <1>4, <1>6, <1>7, <1>8, <1>9, <1>10 DEF ReadParts

\* No declaration made of parts begins with using.
LEMMA FirstWordIsPlain ==
  ASSUME NEW parts, AreParts(parts), FirstWord(parts) = TextOfPart(parts[1])[1]
  PROVE  FirstWord(parts) # "using"
<1> DEFINE part == parts[1]
           toks == part.toks
           f == TextOfPart(part)[1]
<1>1. IsPart(part) /\ (part.is = "operator" \/ (part.is = "words" /\ toks # <<>>))
  <2>1. 1 \in DOMAIN parts
    BY DEF AreParts
  <2> QED
    BY <2>1 DEF AreParts
<1>2. CASE part.is = "operator"
  <2> DEFINE o == <<"operator">>
             op == part.op
             a == <<"(">>
             c == <<")">>
             d == o \o op \o a
  <2>1. /\ o \in Seq(AnyToken) /\ a \in Seq(AnyToken) /\ c \in Seq(AnyToken)
        /\ o # <<>> /\ o[1] = "operator"
    <3>1. "(" \in AnyToken /\ ")" \in AnyToken /\ "operator" \in AnyToken
      BY TokensAre
    <3> QED
      BY <3>1, TokenAlone, Zenon
  <2>2. op \in Seq(AnyToken) /\ toks \in Seq(AnyToken)
    BY <1>1, <1>2, TokensAre DEF IsPart, Balanced
  <2>3. TextOfPart(part) = d \o toks \o c
    BY <1>2 DEF TextOfPart
  <2> HIDE DEF o, op, a, c, toks
  <2>4. d \in Seq(AnyToken) /\ d # <<>> /\ d[1] = "operator"
    BY <2>1, <2>2, ThreeBegin, TokensOfThree
  <2> HIDE DEF d
  <2>5. (d \o toks \o c)[1] = "operator"
    BY <2>1, <2>2, <2>4, ThreeBegin
  <2> QED
    BY <2>3, <2>5
<1>3. CASE part.is = "words"
  <2>1. TextOfPart(part) = toks /\ NoneOf(toks, NotPlain)
    BY <1>1, <1>3 DEF TextOfPart, IsPart
  <2>2. toks[1] \in ToSet(toks)
    BY <1>1, <1>3, <2>1, EmptySeq DEF NoneOf, ToSet
  <2>3. "using" \in NotPlain
    BY Zenon DEF NotPlain
  <2> QED
    BY <2>1, <2>2, <2>3 DEF NoneOf
<1> QED
  BY <1>1, <1>2, <1>3

-----------------------------------------------------------------------------
(* How declarations end.                                                   *)

\* What a finished declaration is taken for, by its first name and the tokens it has.
LEMMA ChecksMean ==
  ASSUME NEW p, NEW f, f = p.names.first, NEW h, h = p.names.has
  PROVE  /\ f = "using" => check_properties(p) = Had(p, "using")
         /\ f = "TEST" => check_properties(p) = Had(p, "test")
         /\ f = "extern" => check_properties(p) = p
         /\ f \notin {"using", "TEST", "extern"} /\ ~(f = "constexpr" /\ "=" \in h) =>
              check_properties(p) = _check_func_or_var(p)
         /\ f = "constexpr" /\ "=" \in h /\ p.stack # <<>> =>
              check_properties(p) = Had(_check_func_or_var(p), "constant")
         /\ OpenBrace \in h /\ CloseBrace \in h => _check_func_or_var(p) = Had(p, "func")
         /\ CloseBrace \notin h /\ "]" \notin h => _check_func_or_var(p) = p
<1> DEFINE eq == HasAll(p, {"="})
<1>1. eq <=> "=" \in h
  BY DEF HasAll
<1> HIDE DEF eq
<1>2. /\ f = "using" => check_properties(p) = Had(p, "using")
      /\ f = "TEST" => check_properties(p) = Had(p, "test")
      /\ f = "extern" => check_properties(p) = p
      /\ f \notin {"using", "TEST", "extern"} /\ ~(f = "constexpr" /\ eq) =>
           check_properties(p) = _check_func_or_var(p)
      /\ f = "constexpr" /\ eq /\ p.stack # <<>> =>
           check_properties(p) = Had(_check_func_or_var(p), "constant")
  <2>1. "using" # "TEST" /\ "using" # "extern" /\ "using" # "constexpr" /\ "TEST" # "extern" /\
        "TEST" # "constexpr" /\ "extern" # "constexpr"
    OBVIOUS
  <2> QED
    BY <2>1, Zenon DEF check_properties, eq
<1>3. HasAll(p, {OpenBrace, CloseBrace}) <=> OpenBrace \in h /\ CloseBrace \in h
  BY DEF HasAll
<1>4. HasAll(p, {"[", "]"}) => "]" \in h
  BY DEF HasAll
<1>5. _check_func_or_var(p) = IF HasAll(p, {OpenBrace, CloseBrace}) \/ HasAll(p, {"[", "]"}) THEN Had(p, "func") ELSE p
  BY Zenon DEF _check_func_or_var, OpenBrace, CloseBrace
<1> QED
  BY <1>1, <1>2, <1>3, <1>4, <1>5

\* Kinds that the end of a declaration adds.
ValueKinds(f) == IF f = "using" THEN {"using"} ELSE IF f = "constexpr" THEN {"constant"} ELSE {}
BodyKinds(f) == IF f = "TEST" THEN {"test"} ELSE {"func"}

\* A declaration with a value is a constant, an alias or nothing.
LEMMA ValueIsChecked ==
  ASSUME NEW p, NEW mode, NEW f, NEW h, NEW s \in Blocks, NEW ns, Ready(p, mode, Names(f, h), s, ns),
         f # "TEST", f # "using" => CloseBrace \notin h /\ "]" \notin h,
         f = "constexpr" => "=" \in h
  PROVE  Ready(check_properties(p), mode, Names(f, h), Hads(s, ValueKinds(f)), ns)
<1>1. /\ p.names.first = f /\ p.names.has = h /\ p.stack # <<>> /\ Hads(s, {}) = s
      /\ Parses(p, mode, Names(f, h), s, ns, 0, 0, 0, 0)
  <2>1. Hads(s, {}) = s
    BY HadsAdd
  <2>2. p.names = Names(f, h) /\ p.stack = s /\ Parses(p, mode, Names(f, h), s, ns, 0, 0, 0, 0)
    BY DEF Ready, Parses
  <2>3. s # <<>>
    BY DEF Blocks
  <2> QED
    BY <2>1, <2>2, <2>3 DEF Names
<1> DEFINE c == check_properties(p)
<1>2. /\ f = "using" => c = Had(p, "using")
      /\ f = "extern" => c = p
      /\ f \notin {"using", "extern", "constexpr"} => c = p
      /\ f = "constexpr" => c = Had(p, "constant")
  BY <1>1, ChecksMean
<1> HIDE DEF c
<1>3. /\ Parses(Had(p, "using"), mode, Names(f, h), Hads(s, {"using"}), ns, 0, 0, 0, 0)
      /\ Parses(Had(p, "constant"), mode, Names(f, h), Hads(s, {"constant"}), ns, 0, 0, 0, 0)
  BY <1>1, HadParses
<1> QED
  BY <1>1, <1>2, <1>3 DEF Ready, ValueKinds, c

\* A declaration with a body is a test or a function.
LEMMA BodyIsChecked ==
  ASSUME NEW p, NEW mode, NEW f, NEW h, NEW s \in Blocks, NEW ns, Ready(p, mode, Names(f, h), s, ns),
         f \notin {"using", "extern"}, f = "constexpr" => "=" \notin h, OpenBrace \in h, CloseBrace \in h
  PROVE  Ready(check_properties(p), mode, Names(f, h), Hads(s, BodyKinds(f)), ns)
<1>1. /\ p.names.first = f /\ p.names.has = h
      /\ Parses(p, mode, Names(f, h), s, ns, 0, 0, 0, 0)
  BY DEF Ready, Parses, Names
<1> DEFINE c == check_properties(p)
<1>2. /\ f = "TEST" => c = Had(p, "test")
      /\ f # "TEST" => c = Had(p, "func")
  BY <1>1, ChecksMean
<1> HIDE DEF c
<1>3. /\ Parses(Had(p, "test"), mode, Names(f, h), Hads(s, {"test"}), ns, 0, 0, 0, 0)
      /\ Parses(Had(p, "func"), mode, Names(f, h), Hads(s, {"func"}), ns, 0, 0, 0, 0)
  BY <1>1, HadParses
<1> QED
  BY <1>2, <1>3 DEF Ready, BodyKinds, c

\* The semicolon that was sought.
LEMMA SoughtSemicolon ==
  ASSUME NEW p, NEW f, f # NoWord, f # "TEST", NEW h, NEW seen, NEW s \in Blocks, NEW ns, Seeks(p, f, h, seen, s, ns, 0),
         f # "using" => CloseBrace \notin h /\ "]" \notin seen,
         f = "constexpr" => "=" \in h
  PROVE  Ready(ParserStep(p, Semicolon), "normal", NoNames, Hads(s, ValueKinds(f)), ns)
<1> DEFINE u == Push(p, Semicolon)
           v == switch_to_normal(u)
           w == check_properties(v)
           k == p.names.has \cup {Semicolon}
<1>1. Parses(p, ToSemicolon, Names(f, p.names.has), s, ns, 0, 0, 0, 0)
  BY DEF Seeks
<1>2. ParserStep(p, Semicolon) = clear_name_stack(w)
  <2>1. ParserStep(p, Semicolon) = find_semi_colon(p, Semicolon) /\ p.colonBraces = 0
    BY <1>1, Handlers DEF Parses
  <2>2. find_semi_colon(p, Semicolon) = clear_name_stack(w)
    <3>1. ~(p.colonBraces # 0)
      BY <2>1
    <3> QED
      BY <3>1, TokensDiffer, Zenon DEF find_semi_colon, Semicolon, OpenBrace, CloseBrace, u, v, w
  <2> QED
    BY <2>1, <2>2
<1>3. Parses(u, ToSemicolon, Names(f, k), s, ns, 0, 0, 0, 0)
  BY <1>1, PushParses
<1> HIDE DEF u
<1>4. Ready(v, "normal", Names(f, k), s, ns)
  <2>1. Ready(u, ToSemicolon, Names(f, k), s, ns)
    BY <1>3 DEF Ready
  <2> HIDE DEF k
  <2> QED
    BY <2>1 DEF Ready, Parses, ParserFields, switch_to_normal
<1> HIDE DEF v
<1>5. Ready(w, "normal", Names(f, k), Hads(s, ValueKinds(f)), ns)
  <2>1. Semicolon # "]" /\ Semicolon # "="
    BY Zenon DEF Semicolon
  <2>2. f # "using" => CloseBrace \notin k /\ "]" \notin k
    BY <2>1, TokensDiffer DEF Seeks
  <2>3. f = "constexpr" => "=" \in k
    BY DEF Seeks
  <2> HIDE DEF k
  <2> QED
    BY <1>4, <2>2, <2>3, ValueIsChecked
<1> HIDE DEF w, k
<1>6. Ready(clear_name_stack(w), "normal", NoNames, Hads(s, ValueKinds(f)), ns)
  BY <1>5 DEF Ready, Parses, ParserFields, clear_name_stack
<1> QED
  BY <1>2, <1>6

\* The brace that ends the body of a function.
LEMMA LastBrace ==
  ASSUME NEW p, NEW f, f # NoWord, NEW h, NEW s \in Blocks, NEW ns,
         Parses(p, ToBrace, Names(f, h), s, ns, 0, 0 + 1, 0, 0) /\ p.callback = "clear",
         f \notin {"using", "extern"}, f = "constexpr" => "=" \notin h, OpenBrace \in h
  PROVE  Ready(ParserStep(p, CloseBrace), "normal", NoNames, Hads(s, BodyKinds(f)), ns)
<1> DEFINE u == Push(p, CloseBrace)
           v == [switch_to_normal(u) EXCEPT !.braces = 0]
           w == check_properties(v)
           k == h \cup {CloseBrace}
<1>1. p.braces = 1
  BY DEF Parses
<1>2. ParserStep(p, CloseBrace) = clear_name_stack(w)
  <2>1. ParserStep(p, CloseBrace) = find_close_brace(p, CloseBrace)
    BY Handlers DEF Parses
  <2>2. find_close_brace(p, CloseBrace) = clear_name_stack(w)
    <3>1. ~(p.braces > 1) /\ p.callback = "clear"
      BY <1>1
    <3>2. CloseBrace # OpenBrace
      BY TokensDiffer
    <3> QED
      BY <1>1, <3>1, <3>2, Zenon DEF find_close_brace, OpenBrace, CloseBrace, u, v, w
  <2> QED
    BY <2>1, <2>2
<1>3. Parses(u, ToBrace, Names(f, k), s, ns, 0, 0 + 1, 0, 0)
  BY PushParses
<1> HIDE DEF u
<1>4. Ready(v, "normal", Names(f, k), s, ns)
  <2> HIDE DEF k
  <2> QED
    BY <1>3 DEF Ready, Parses, ParserFields, switch_to_normal
<1> HIDE DEF v
<1>5. Ready(w, "normal", Names(f, k), Hads(s, BodyKinds(f)), ns)
  <2>1. CloseBrace # "="
    BY Zenon DEF CloseBrace
  <2>2. (f = "constexpr" => "=" \notin k) /\ OpenBrace \in k /\ CloseBrace \in k
    BY <2>1
  <2> HIDE DEF k
  <2> QED
    BY <1>4, <2>2, BodyIsChecked
<1> HIDE DEF w, k
<1>6. Ready(clear_name_stack(w), "normal", NoNames, Hads(s, BodyKinds(f)), ns)
  BY <1>5 DEF Ready, Parses, ParserFields, clear_name_stack
<1> QED
  BY <1>2, <1>6

\* The brace that begins it.
LEMMA FirstBrace ==
  ASSUME NEW p, NEW f, f # NoWord, NEW h, NEW s, NEW ns, Ready(p, "normal", Names(f, h), s, ns),
         p.hadParens = TRUE
  PROVE  /\ Parses(ParserStep(p, OpenBrace), ToBrace, Names(f, h \cup {OpenBrace}), s, ns, 0, 0 + 1, 0, 0)
         /\ ParserStep(p, OpenBrace).callback = "clear"
<1> DEFINE u == Push(p, OpenBrace)
           v == [u EXCEPT !.braces = @ + 1]
           w == [v EXCEPT !.mode = ToBrace, !.callback = "clear"]
<1>1. Parses(p, "normal", Names(f, h), s, ns, 0, 0, 0, 0) /\ p.names # NoNames /\ p.braces = 0
  BY NamedMeans DEF Ready, Parses
<1>2. ParserStep(p, OpenBrace) = _parse_normal_brace(p, OpenBrace)
  <2>0. p.end = "running" /\ p.mode = "normal"
    BY <1>1 DEF Parses
  <2>1. ParserStep(p, OpenBrace) = parse_normal(p, OpenBrace)
    BY <2>0, Handlers
  <2> QED
    BY <1>1, <2>1, NormalTokensAfterNames
<1>3. find_close_brace(p, OpenBrace) = v
  BY <1>1, TokensDiffer, Zenon DEF find_close_brace, OpenBrace, CloseBrace, u, v
<1>4. Parses(u, "normal", Names(f, h \cup {OpenBrace}), s, ns, 0, 0, 0, 0)
  BY <1>1, PushParses
<1> HIDE DEF u
<1>5. Parses(v, "normal", Names(f, h \cup {OpenBrace}), s, ns, 0, 0 + 1, 0, 0)
  BY <1>4 DEF Parses, ParserFields
<1> HIDE DEF v
<1>6. _parse_normal_brace(p, OpenBrace) = w
  BY <1>3, Zenon DEF _parse_normal_brace, w, ToBrace
<1>7. Parses(w, ToBrace, Names(f, h \cup {OpenBrace}), s, ns, 0, 0 + 1, 0, 0) /\ w.callback = "clear"
  BY <1>5 DEF Parses, ParserFields
<1> QED
  BY <1>2, <1>6, <1>7

-----------------------------------------------------------------------------
(* Declarations, token by token.                                           *)

\* The parts, and a semicolon.
LEMMA SemicolonEnds ==
  ASSUME NEW q, NEW f, f # NoWord, NEW text, NEW s \in Blocks, NEW ns, NEW called \in BOOLEAN, NEW last,
         ReadParts(q, f, text, s, ns, called, last)
  PROVE  Ready(ParserStep(q, Semicolon), "normal", NoNames,
               Hads(s, (IF called THEN Macro(f) ELSE {}) \cup (IF called THEN {"func"} ELSE {})), ns)
<1> DEFINE a == IF called THEN Macro(f) ELSE {}
           b == IF called THEN {"func"} ELSE {}
           t == Hads(s, a)
           h == ToSet(text)
           u == IF HasAll(q, {"(", ")"}) THEN Had(q, "func") ELSE q
<1>1. /\ Parses(q, "normal", Names(f, h), t, ns, 0, 0, 0, 0)
      /\ called => "(" \in h /\ ")" \in h
      /\ ~called => "(" \notin h
  BY DEF ReadParts, Ready
<1>2. a \in SUBSET DeclaredKinds /\ b \in SUBSET DeclaredKinds
  BY DEF Macro, DeclaredKinds
<1> HIDE DEF a
<1>3. t \in Blocks /\ Hads(t, b) = Hads(s, a \cup b) /\ Hads(t, {}) = t
  BY <1>2, HadsMeans, HadsAdd
<1> HIDE DEF t, h
<1>4. ParserStep(q, Semicolon) = clear_name_stack(u)
  <2>1. q.end = "running" /\ q.mode = "normal" /\ q.names # NoNames
    BY <1>1, NamedMeans DEF Parses
  <2>2. ParserStep(q, Semicolon) = parse_normal(q, Semicolon)
    BY <2>1, Handlers
  <2>3. parse_normal(q, Semicolon) = _parse_normal_semi_colon(q)
    BY <2>1, NormalTokensAfterNames
  <2> QED
    BY <2>2, <2>3 DEF _parse_normal_semi_colon
<1>5. HasAll(q, {"(", ")"}) <=> called
  <2>1. q.names.has = h
    BY <1>1 DEF Parses, Names
  <2> QED
    BY <1>1, <2>1 DEF HasAll
<1>6. Parses(u, "normal", Names(f, h), Hads(t, b), ns, 0, 0, 0, 0)
  <2>1. Parses(Had(q, "func"), "normal", Names(f, h), Hads(t, {"func"}), ns, 0, 0, 0, 0)
    BY <1>1, <1>3, HadParses
  <2> QED
    BY <1>1, <1>3, <1>5, <2>1
<1> HIDE DEF u, b
<1>7. Ready(clear_name_stack(u), "normal", NoNames, Hads(t, b), ns)
  BY <1>6 DEF Ready, Parses, ParserFields, clear_name_stack
<1>8. Ready(ParserStep(q, Semicolon), "normal", NoNames, Hads(s, a \cup b), ns)
  BY <1>3, <1>4, <1>7
<1> QED
  BY <1>8 DEF a, b

\* The parts, and a body.
LEMMA BodyEnds ==
  ASSUME NEW q, NEW f, f # NoWord, NEW text, NEW s \in Blocks, NEW ns, NEW called \in BOOLEAN,
         ReadParts(q, f, text, s, ns, called, TRUE),
         f \notin {"using", "extern"}, f = "constexpr" => "=" \notin ToSet(text),
         NEW body, Balanced(body, OpenBrace, CloseBrace)
  PROVE  Ready(ParserStep(Reads(ParserStep(q, OpenBrace), body), CloseBrace), "normal", NoNames,
               Hads(s, (IF called THEN Macro(f) ELSE {}) \cup BodyKinds(f)), ns)
<1> DEFINE a == IF called THEN Macro(f) ELSE {}
           b == BodyKinds(f)
           t == Hads(s, a)
           h == ToSet(text)
           k == h \cup {OpenBrace}
           u == ParserStep(q, OpenBrace)
           v == Reads(u, body)
<1>1. Ready(q, "normal", Names(f, h), t, ns) /\ q.hadParens = TRUE
  BY DEF ReadParts
<1>2. a \in SUBSET DeclaredKinds /\ b \in SUBSET DeclaredKinds
  BY DEF Macro, DeclaredKinds, BodyKinds
<1> HIDE DEF a, b
<1>3. t \in Blocks /\ Hads(t, b) = Hads(s, a \cup b)
  BY <1>2, HadsMeans, HadsAdd
<1>4. f = "constexpr" => "=" \notin k
  <2>1. OpenBrace # "="
    BY Zenon DEF OpenBrace
  <2> QED
    BY <2>1
<1> HIDE DEF t, h
<1>5. Parses(u, ToBrace, Names(f, k), t, ns, 0, 0 + 1, 0, 0) /\ u.callback = "clear"
  BY <1>1, FirstBrace
<1>6. OpenBrace \in k
  OBVIOUS
<1> HIDE DEF k, u
<1>7. Parses(v, ToBrace, Names(f, k), t, ns, 0, 0 + 1, 0, 0) /\ v.callback = "clear"
  <2> DEFINE nm == Names(f, k)
  <2>1. Parses(u, ToBrace, nm, t, ns, 0, 0 + 1, 0, 0) /\ u.callback = "clear"
    BY <1>5
  <2> HIDE DEF nm
  <2>2. Parses(v, ToBrace, nm, t, ns, 0, 0 + 1, 0, 0) /\ v.callback = "clear"
    BY <2>1, BodiesAreRead
  <2> QED
    BY <2>2 DEF nm
<1> HIDE DEF v
<1>8. Ready(ParserStep(v, CloseBrace), "normal", NoNames, Hads(t, BodyKinds(f)), ns)
  BY <1>3, <1>4, <1>6, <1>7, LastBrace
<1>9. Ready(ParserStep(v, CloseBrace), "normal", NoNames, Hads(s, a \cup BodyKinds(f)), ns)
  BY <1>3, <1>8 DEF b
<1> QED
  BY <1>9 DEF v, u, a

\* The parts, and a value.
LEMMA ValueEnds ==
  ASSUME NEW q, NEW f, f \notin {NoWord, "TEST", "using"}, NEW text, NEW s \in Blocks, NEW ns, NEW called \in BOOLEAN,
         NEW last, ReadParts(q, f, text, s, ns, called, last),
         CloseBrace \notin ToSet(text), "]" \notin ToSet(text),
         NEW body, Balanced(body, OpenBrace, CloseBrace), "]" \notin ToSet(body),
         \A i \in DOMAIN body : body[i] = Semicolon => Nesting(body, OpenBrace, CloseBrace)[i] > 0
  PROVE  Ready(ParserStep(Reads(ParserStep(q, "="), body), Semicolon), "normal", NoNames,
               Hads(s, (IF called THEN Macro(f) ELSE {}) \cup ValueKinds(f)), ns)
<1> DEFINE a == IF called THEN Macro(f) ELSE {}
           b == ValueKinds(f)
           t == Hads(s, a)
           h == ToSet(text)
           k == h \cup {"="}
           w == Push(q, "=")
           u == ParserStep(q, "=")
           v == Reads(u, body)
<1>1. Parses(q, "normal", Names(f, h), t, ns, 0, 0, 0, 0)
  BY DEF ReadParts, Ready
<1>2. a \in SUBSET DeclaredKinds /\ b \in SUBSET DeclaredKinds
  BY DEF Macro, DeclaredKinds, ValueKinds
<1> HIDE DEF a, b
<1>3. t \in Blocks /\ Hads(t, b) = Hads(s, a \cup b)
  BY <1>2, HadsMeans, HadsAdd
<1> HIDE DEF t
<1>4. CloseBrace \notin k /\ "]" \notin k /\ "=" \in k
  <2>1. CloseBrace # "="
    BY Zenon DEF CloseBrace
  <2> QED
    BY <2>1
<1> HIDE DEF h
<1>5. u = [w EXCEPT !.mode = ToSemicolon]
  <2>1. q.end = "running" /\ q.mode = "normal" /\ q.names # NoNames
    BY <1>1, NamedMeans DEF Parses
  <2>2. ParserStep(q, "=") = parse_normal(q, "=")
    BY <2>1, Handlers
  <2> QED
    BY <2>1, <2>2, NormalTokensAfterNames
<1>6. Parses(w, "normal", Names(f, k), t, ns, 0, 0, 0, 0)
  BY <1>1, PushParses
<1> HIDE DEF w, u, k
<1>7. Seeks(u, f, k, k, t, ns, 0)
  <2>1. Parses(u, ToSemicolon, Names(f, k), t, ns, 0, 0, 0, 0)
    BY <1>5, <1>6 DEF Parses, ParserFields
  <2>2. u.names.has = k
    BY <2>1 DEF Parses, Names
  <2> QED
    BY <2>1, <2>2 DEF Seeks
<1>8. Seeks(v, f, k, k \cup ToSet(body), t, ns, 0)
  BY <1>7, ValuesAreRead
<1> HIDE DEF v
<1> DEFINE seen == k \cup ToSet(body)
<1>9. "]" \notin seen
  BY <1>4
<1> HIDE DEF seen
<1>10. Ready(ParserStep(v, Semicolon), "normal", NoNames, Hads(t, ValueKinds(f)), ns)
  <2>1. Seeks(v, f, k, seen, t, ns, 0)
    BY <1>8 DEF seen
  <2> QED
    BY <1>3, <1>4, <1>9, <2>1, SoughtSemicolon
<1>11. Ready(ParserStep(v, Semicolon), "normal", NoNames, Hads(s, a \cup ValueKinds(f)), ns)
  BY <1>3, <1>10 DEF b
<1> QED
  BY <1>11 DEF v, u, a

\* An alias is read up to its semicolon.
LEMMA UsingIsRead ==
  ASSUME NEW p, NEW s \in Blocks, NEW ns, Ready(p, "normal", NoNames, s, ns),
         NEW body, Balanced(body, OpenBrace, CloseBrace),
         \A i \in DOMAIN body : body[i] = Semicolon => Nesting(body, OpenBrace, CloseBrace)[i] > 0
  PROVE  Ready(ParserStep(Reads(ParserStep(p, "using"), body), Semicolon), "normal", NoNames,
               Hads(s, {"using"}), ns)
<1> DEFINE f == "using"
           k == {"using"}
           w == Push(p, "using")
           u == ParserStep(p, "using")
           v == Reads(u, body)
<1>1. Parses(p, "normal", Names(NoWord, {}), s, ns, 0, 0, 0, 0)
  BY NoNamesMeans DEF Ready
<1>2. u = [w EXCEPT !.mode = ToSemicolon]
  <2>1. p.end = "running" /\ p.mode = "normal"
    BY <1>1 DEF Parses
  <2>2. ParserStep(p, "using") = parse_normal(p, "using")
    BY <2>1, Handlers
  <2> QED
    BY <2>2, NormalTokens, Zenon
<1>3. Parses(w, "normal", Names("using", {} \cup {"using"}), s, ns, 0, 0, 0, 0)
  BY <1>1, PushParses
<1>4. f # NoWord /\ f # "TEST" /\ f # "constexpr" /\ ValueKinds(f) = {"using"} /\ {} \cup {"using"} = k
  <2>1. f # NoWord
    BY Zenon DEF NoWord
  <2> QED
    BY <2>1 DEF ValueKinds
<1> HIDE DEF w, u
<1>5. Parses(u, ToSemicolon, Names(f, k), s, ns, 0, 0, 0, 0)
  BY <1>2, <1>3, <1>4 DEF Parses, ParserFields
<1>6. f = "using"
  OBVIOUS
<1> HIDE DEF f, k
<1>7. Seeks(u, f, k, k, s, ns, 0)
  <2>2. u.names.has = k
    BY <1>5 DEF Parses, Names
  <2> QED
    BY <1>5, <2>2 DEF Seeks
<1>8. Seeks(v, f, k, k \cup ToSet(body), s, ns, 0)
  BY <1>4, <1>7, ValuesAreRead
<1> HIDE DEF v
<1> DEFINE seen == k \cup ToSet(body)
<1> HIDE DEF seen
<1>9. Ready(ParserStep(v, Semicolon), "normal", NoNames, Hads(s, ValueKinds(f)), ns)
  <2>1. Seeks(v, f, k, seen, s, ns, 0)
    BY <1>8 DEF seen
  <2> QED
    BY <1>4, <1>6, <2>1, SoughtSemicolon
<1> QED
  BY <1>4, <1>9 DEF v, u

\* A class or an enumeration, and its heading.
ModeOf(key) == IF key = "enum" THEN InEnum ELSE InClass
ClassKinds(key) == IF key = "enum" THEN {"enum"} ELSE {"class"}

\* The key and the heading of a class or an enumeration.
LEMMA HeadingIsRead ==
  ASSUME NEW p, NEW s \in Blocks, NEW ns, Ready(p, "normal", NoNames, s, ns),
         NEW key \in ClassKeys \cup {"enum"}, NEW head, NoneOf(head, {OpenBrace, Semicolon})
  PROVE  /\ key # NoWord
         /\ Ready(Reads(ParserStep(p, key), head), ModeOf(key), Names(key, {key} \cup ToSet(head)), s, ns)
<1> DEFINE w == Push(p, key)
           u == ParserStep(p, key)
<1>1. Parses(p, "normal", Names(NoWord, {}), s, ns, 0, 0, 0, 0)
  BY NoNamesMeans DEF Ready
<1>2. key # NoWord
  BY Zenon DEF ClassKeys, NoWord
<1>3. u = [w EXCEPT !.mode = ModeOf(key)]
  <2>1. p.end = "running" /\ p.mode = "normal"
    BY <1>1 DEF Parses
  <2>2. ParserStep(p, key) = parse_normal(p, key)
    BY <2>1, Handlers
  <2>3. key = "enum" => parse_normal(p, key) = [w EXCEPT !.mode = InEnum]
    BY NormalTokens, Zenon
  <2>4. key \in ClassKeys => parse_normal(p, key) = [w EXCEPT !.mode = InClass]
    BY NormalTokens, Zenon
  <2>5. key \in ClassKeys => key # "enum"
    BY DEF ClassKeys
  <2> QED
    BY <2>2, <2>3, <2>4, <2>5 DEF ModeOf
<1>4. Parses(w, "normal", Names(key, {} \cup {key}), s, ns, 0, 0, 0, 0)
  BY <1>1, <1>2, PushParses
<1> DEFINE h == {key}
           mode == ModeOf(key)
<1>5. {} \cup {key} = h /\ mode \in {InClass, InEnum}
  BY DEF ModeOf
<1> HIDE DEF w, u, h, mode
<1>6. Ready(u, mode, Names(key, h), s, ns)
  <2>1. u = [w EXCEPT !.mode = mode]
    BY <1>3 DEF mode
  <2> QED
    BY <1>4, <1>5, <2>1 DEF Ready, Parses, ParserFields
<1>7. Ready(Reads(u, head), mode, Names(key, h \cup ToSet(head)), s, ns)
  BY <1>2, <1>5, <1>6, HeadsAreRead
<1> QED
  BY <1>2, <1>7 DEF u, h, mode

\* What ends a heading, inside of a namespace.
LEMMA ClassTokens ==
  ASSUME NEW p, NEW key, p.end = "running", p.mode = ModeOf(key), p.stack # <<>>
  PROVE  /\ ParserStep(p, OpenBrace) =
              Had([p EXCEPT !.braces = @ + 1, !.mode = "inside"], IF key = "enum" THEN "enum" ELSE "class")
         /\ ParserStep(p, Semicolon) = clear_name_stack(Had(switch_to_normal(p), "forward"))
<1>1. /\ collect_class(p, OpenBrace) = Had([p EXCEPT !.braces = @ + 1, !.mode = "inside"], "class")
      /\ collect_class(p, Semicolon) = clear_name_stack(Had(switch_to_normal(p), "forward"))
  BY TokensDiffer, Zenon DEF collect_class, OpenBrace, Semicolon
<1>2. /\ collect_enum(p, OpenBrace) = Had([p EXCEPT !.braces = @ + 1, !.mode = "inside"], "enum")
      /\ collect_enum(p, Semicolon) = clear_name_stack(Had(switch_to_normal(p), "forward"))
  BY TokensDiffer, Zenon DEF collect_enum, OpenBrace, Semicolon
<1>3. CASE key = "enum"
  <2>1. ParserStep(p, OpenBrace) = collect_enum(p, OpenBrace) /\ ParserStep(p, Semicolon) = collect_enum(p, Semicolon)
    BY <1>3, Handlers DEF ModeOf
  <2> QED
    BY <1>2, <1>3, <2>1
<1>4. CASE key # "enum"
  <2>1. ParserStep(p, OpenBrace) = collect_class(p, OpenBrace) /\ ParserStep(p, Semicolon) = collect_class(p, Semicolon)
    BY <1>4, Handlers DEF ModeOf
  <2> QED
    BY <1>1, <1>4, <2>1
<1> QED
  BY <1>3, <1>4

\* A forward declaration is read.
LEMMA ForwardIsRead ==
  ASSUME NEW p, NEW s \in Blocks, NEW ns, Ready(p, "normal", NoNames, s, ns),
         NEW key \in ClassKeys \cup {"enum"}, NEW head, NoneOf(head, {OpenBrace, Semicolon})
  PROVE  Ready(ParserStep(Reads(ParserStep(p, key), head), Semicolon), "normal", NoNames, Hads(s, {"forward"}), ns)
<1> DEFINE q == Reads(ParserStep(p, key), head)
           nm == Names(key, {key} \cup ToSet(head))
           u == switch_to_normal(q)
           v == Had(u, "forward")
<1>1. Ready(q, ModeOf(key), nm, s, ns)
  BY HeadingIsRead
<1> HIDE DEF q, nm
<1>2. ParserStep(q, Semicolon) = clear_name_stack(v)
  <2>1. q.end = "running" /\ q.mode = ModeOf(key) /\ q.stack # <<>>
    BY <1>1 DEF Ready, Parses, Blocks
  <2> QED
    BY <2>1, ClassTokens
<1>3. Parses(u, "normal", nm, s, ns, 0, 0, 0, 0)
  BY <1>1 DEF Ready, Parses, ParserFields, switch_to_normal
<1> HIDE DEF u
<1>4. Parses(v, "normal", nm, Hads(s, {"forward"}), ns, 0, 0, 0, 0)
  BY <1>3, HadParses
<1> HIDE DEF v
<1>5. Ready(clear_name_stack(v), "normal", NoNames, Hads(s, {"forward"}), ns)
  BY <1>4 DEF Ready, Parses, ParserFields, clear_name_stack
<1> QED
  BY <1>2, <1>5 DEF q

\* A class or an enumeration is read with its body.
LEMMA ClassIsRead ==
  ASSUME NEW p, NEW s \in Blocks, NEW ns, Ready(p, "normal", NoNames, s, ns),
         NEW key \in ClassKeys \cup {"enum"}, NEW head, NoneOf(head, {OpenBrace, Semicolon}),
         NEW body, Balanced(body, OpenBrace, CloseBrace)
  PROVE  LET q == Reads(ParserStep(Reads(ParserStep(p, key), head), OpenBrace), body)
         IN  Ready(ParserStep(ParserStep(q, CloseBrace), Semicolon), "normal", NoNames,
                   Hads(s, ClassKinds(key)), ns)
<1> DEFINE a == Reads(ParserStep(p, key), head)
           nm == Names(key, {key} \cup ToSet(head))
           kind == IF key = "enum" THEN "enum" ELSE "class"
           t == Hads(s, ClassKinds(key))
           b == [a EXCEPT !.braces = @ + 1, !.mode = "inside"]
           c == ParserStep(a, OpenBrace)
           q == Reads(c, body)
           d == ParserStep(q, CloseBrace)
           e == switch_to_normal(d)
<1>1. Ready(a, ModeOf(key), nm, s, ns)
  BY HeadingIsRead
<1> HIDE DEF a, nm
<1>2. c = Had(b, kind)
  <2>1. a.end = "running" /\ a.mode = ModeOf(key) /\ a.stack # <<>>
    BY <1>1 DEF Ready, Parses, Blocks
  <2> QED
    BY <2>1, ClassTokens
<1>3. Parses(b, "inside", nm, s, ns, 0, 0 + 1, 0, 0)
  BY <1>1 DEF Ready, Parses, ParserFields
<1>4. Hads(s, {kind}) = t
  BY DEF ClassKinds
<1> HIDE DEF b, c, t, kind
<1>5. Parses(c, "inside", nm, t, ns, 0, 0 + 1, 0, 0)
  BY <1>2, <1>3, <1>4, HadParses
<1>6. Parses(q, "inside", nm, t, ns, 0, 0 + 1, 0, 0)
  BY <1>5, ClassesAreRead
<1> HIDE DEF q
<1>7. Parses(d, "inside", nm, t, ns, 0, 0, 0, 0)
  <2>0. q.end = "running" /\ q.mode = "inside" /\ q.braces = 1
    BY <1>6 DEF Parses
  <2>1. ParserStep(q, CloseBrace) = find_class_end(q, CloseBrace) /\ q.braces = 1
    BY <2>0, Handlers
  <2>2. find_class_end(q, CloseBrace) = [q EXCEPT !.braces = @ - 1]
    <3>1. q.braces # 0
      BY <2>1
    <3> QED
      BY <3>1, TokensDiffer, Zenon DEF find_class_end, OpenBrace, CloseBrace
  <2> QED
    BY <1>6, <2>1, <2>2 DEF Parses, ParserFields
<1> HIDE DEF d
<1>8. ParserStep(d, Semicolon) = clear_name_stack(e)
  <2>0. d.end = "running" /\ d.mode = "inside" /\ d.braces = 0
    BY <1>7 DEF Parses
  <2>1. ParserStep(d, Semicolon) = find_class_end(d, Semicolon) /\ d.braces = 0
    BY <2>0, Handlers
  <2>2. find_class_end(d, Semicolon) = clear_name_stack(e)
    BY <2>1, Zenon DEF find_class_end, Semicolon, e
  <2> QED
    BY <2>1, <2>2
<1>9. Parses(e, "normal", nm, t, ns, 0, 0, 0, 0)
  BY <1>7 DEF Parses, ParserFields, switch_to_normal
<1> HIDE DEF e
<1>10. Ready(clear_name_stack(e), "normal", NoNames, t, ns)
  BY <1>9 DEF Ready, Parses, ParserFields, clear_name_stack
<1>11. Ready(ParserStep(d, Semicolon), "normal", NoNames, t, ns)
  BY <1>8, <1>10
<1> QED
  BY <1>11 DEF d, q, c, a, t

\* The arguments of template before a declaration.
LEMMA TemplateArgumentsAreRead ==
  ASSUME NEW p, NEW s, NEW ns, Ready(p, "normal", NoNames, s, ns),
         NEW toks, NoneOf(toks, ClassKeys), Balanced(toks, "<", ">")
  PROVE  Ready(ParserStep(Reads(ParserStep(ParserStep(p, "template"), "<"), toks), ">"), "normal", NoNames, s, ns)
<1> DEFINE a == ParserStep(p, "template")
           b == ParserStep(a, "<")
           q == Reads(b, toks)
           r == TemplateEnds([q EXCEPT !.angles = 0])
<1>1. Parses(a, InTemplate, NoNames, s, ns, 0, 0, 0, 0) /\ a.keepsNames = FALSE
  <2>1. p.end = "running" /\ p.mode = "normal"
    BY DEF Ready, Parses
  <2>2. a = parse_normal(p, "template")
    BY <2>1, Handlers
  <2>3. parse_normal(p, "template") = [p EXCEPT !.mode = InTemplate, !.keepsNames = FALSE]
    BY NormalTokens, Zenon
  <2> HIDE DEF a
  <2> QED
    BY <2>2, <2>3 DEF Ready, Parses, ParserFields
<1> HIDE DEF a
<1>2. b = [a EXCEPT !.angles = @ + 1]
  <2> DEFINE x == [a EXCEPT !.angles = @ + 1]
  <2>1. "<" \notin ClassKeys
    BY DEF ClassKeys
  <2>2. b = collect_template(a, "<")
    BY <1>1, Handlers DEF Parses
  <2> HIDE DEF b, x
  <2>3. \E t : t = x /\ collect_template(a, "<") = IF a.keepsNames THEN Push(t, "<") ELSE t
    BY <2>1, TemplateTokens DEF x
  <2> QED
    BY <1>1, <2>2, <2>3 DEF x
<1> HIDE DEF b
<1>3. Parses(b, InTemplate, NoNames, s, ns, 0 + 1, 0, 0, 0) /\ b.keepsNames = FALSE
  BY <1>1, <1>2 DEF Parses, ParserFields
<1>4. Parses(q, InTemplate, NoNames, s, ns, 0 + 1, 0, 0, 0) /\ q.keepsNames = FALSE
  <2> DEFINE nm == NoNames
  <2>1. Parses(b, InTemplate, nm, s, ns, 0 + 1, 0, 0, 0) /\ b.keepsNames = FALSE
    BY <1>3
  <2> HIDE DEF nm
  <2>2. Parses(q, InTemplate, nm, s, ns, 0 + 1, 0, 0, 0) /\ q.keepsNames = FALSE
    BY <2>1, TemplatesAreRead
  <2> QED
    BY <2>2 DEF nm
<1> HIDE DEF q
<1>5. Ready(r, "normal", NoNames, s, ns) /\ ParserStep(q, ">") = IF q.keepsNames THEN Push(r, ">") ELSE r
  <2> HIDE DEF r
  <2> QED
    BY <1>4, TemplateCloses DEF r
<1> HIDE DEF r
<1>6. Ready(ParserStep(q, ">"), "normal", NoNames, s, ns)
  BY <1>4, <1>5
<1> QED
  BY <1>6 DEF q, b, a

\* The texts of declarations.
LEMMA MarksAreTokens == OpenBrace \in AnyToken /\ CloseBrace \in AnyToken /\ Semicolon \in AnyToken
  BY Zenon DEF AnyToken, OpenBrace, CloseBrace, Semicolon

\* The text of each kind of declaration.
LEMMA TextsMean ==
  ASSUME NEW x
  PROVE  /\ x.is = "class" => TextOfPiece(x) =
              TextOfTemplate(x.template) \o <<x.key>> \o x.head \o <<OpenBrace>> \o x.body \o <<CloseBrace, Semicolon>>
         /\ x.is = "forward" => TextOfPiece(x) = TextOfTemplate(x.template) \o <<x.key>> \o x.head \o <<Semicolon>>
         /\ x.is = "using" => TextOfPiece(x) = TextOfTemplate(x.template) \o <<"using">> \o x.body \o <<Semicolon>>
         /\ x.is = "declaration" => TextOfPiece(x) = TextOfTemplate(x.template) \o TextOfParts(x.parts) \o <<Semicolon>>
         /\ x.is = "function" => TextOfPiece(x) =
              TextOfTemplate(x.template) \o TextOfParts(x.parts) \o <<OpenBrace>> \o x.body \o <<CloseBrace>>
         /\ x.is = "value" => TextOfPiece(x) =
              TextOfTemplate(x.template) \o TextOfParts(x.parts) \o <<"=">> \o x.body \o <<Semicolon>>
  BY Zenon DEF TextOfPiece, OpenBrace, CloseBrace, Semicolon

\* What each kind of declaration is made of.
LEMMA DeclarationsMean ==
  ASSUME NEW d, IsDeclaration(d)
  PROVE  /\ d.is \in {"class", "forward", "using", "declaration", "function", "value"}
         /\ d.is \in {"class", "forward"} =>
              d.key \in ClassKeys \cup {"enum"} /\ NoneOf(d.head, {OpenBrace, Semicolon})
         /\ d.is \in {"class", "using", "function", "value"} => Balanced(d.body, OpenBrace, CloseBrace)
         /\ d.is \in {"using", "value"} =>
              \A i \in DOMAIN d.body : d.body[i] = Semicolon => Nesting(d.body, OpenBrace, CloseBrace)[i] > 0
         /\ d.is \in {"declaration", "function", "value"} => AreParts(d.parts)
         /\ d.is = "function" =>
              /\ \E i \in Calls(d.parts) : \A j \in DOMAIN d.parts : j > i => d.parts[j].is = "words"
              /\ FirstWord(d.parts) # "extern"
              /\ FirstWord(d.parts) = "constexpr" => "=" \notin ToSet(TextOfParts(d.parts))
         /\ d.is = "value" =>
              /\ {CloseBrace, "]"} \cap ToSet(TextOfParts(d.parts)) = {} /\ "]" \notin ToSet(d.body)
              /\ FirstWord(d.parts) # "TEST"
<1>1. "class" # "forward" /\ "class" # "using" /\ "class" # "declaration" /\ "class" # "function" /\ "class" # "value"
  OBVIOUS
<1>2. "forward" # "using" /\ "forward" # "declaration" /\ "forward" # "function" /\ "forward" # "value"
  OBVIOUS
<1>3. "using" # "declaration" /\ "using" # "function" /\ "using" # "value"
  OBVIOUS
<1>4. "declaration" # "function" /\ "declaration" # "value" /\ "function" # "value"
  OBVIOUS
<1>5. /\ IsDeclaration(d) = (
           \/ /\ d.is \in {"class", "forward"} /\ d.key \in ClassKeys \cup {"enum"}
              /\ NoneOf(d.head, {OpenBrace, Semicolon}) /\ (d.is = "class" => Balanced(d.body, OpenBrace, CloseBrace))
           \/ /\ d.is = "using" /\ Balanced(d.body, OpenBrace, CloseBrace)
              /\ \A i \in DOMAIN d.body : d.body[i] = Semicolon => Nesting(d.body, OpenBrace, CloseBrace)[i] > 0
           \/ d.is = "declaration" /\ AreParts(d.parts)
           \/ /\ d.is = "function" /\ AreParts(d.parts) /\ Balanced(d.body, OpenBrace, CloseBrace)
              /\ \E i \in Calls(d.parts) : \A j \in DOMAIN d.parts : j > i => d.parts[j].is = "words"
              /\ FirstWord(d.parts) # "extern"
              /\ FirstWord(d.parts) = "constexpr" => "=" \notin ToSet(TextOfParts(d.parts))
           \/ /\ d.is = "value" /\ AreParts(d.parts) /\ Balanced(d.body, OpenBrace, CloseBrace)
              /\ \A i \in DOMAIN d.body : d.body[i] = Semicolon => Nesting(d.body, OpenBrace, CloseBrace)[i] > 0
              /\ {CloseBrace, "]"} \cap ToSet(TextOfParts(d.parts)) = {} /\ "]" \notin ToSet(d.body)
              /\ FirstWord(d.parts) # "TEST")
  BY Zenon DEF IsDeclaration, OpenBrace, CloseBrace, Semicolon
<1> QED
  BY <1>1, <1>2, <1>3, <1>4, <1>5

\* One token more.
LEMMA OneMore ==
  ASSUME NEW p, NEW a \in Seq(AnyToken), NEW tok \in AnyToken
  PROVE  a \o <<tok>> \in Seq(AnyToken) /\ Reads(p, a \o <<tok>>) = ParserStep(Reads(p, a), tok)
<1> DEFINE b == <<tok>>
<1>1. b \in Seq(AnyToken) /\ \A q : Reads(q, b) = ParserStep(q, tok)
  BY TokenAlone, ReadsOne
<1> HIDE DEF b
<1>2. a \o b \in Seq(AnyToken) /\ Reads(p, a \o b) = Reads(Reads(p, a), b)
  BY <1>1, TokensOfBoth, ReadsOn
<1> QED
  BY <1>1, <1>2 DEF b

\* One more text.
LEMMA MoreTokens ==
  ASSUME NEW p, NEW a \in Seq(AnyToken), NEW b \in Seq(AnyToken)
  PROVE  a \o b \in Seq(AnyToken) /\ Reads(p, a \o b) = Reads(Reads(p, a), b)
  BY TokensOfBoth, ReadsOn

\* The arguments of template leave nothing behind.
LEMMA TemplatePrefixIsRead ==
  ASSUME NEW p, NEW s, NEW ns, Ready(p, "normal", NoNames, s, ns), NEW template, IsTemplate(template)
  PROVE  /\ TextOfTemplate(template) \in Seq(AnyToken)
         /\ Ready(Reads(p, TextOfTemplate(template)), "normal", NoNames, s, ns)
<1>1. CASE template = <<>>
  <2>1. TextOfTemplate(template) = <<>>
    BY <1>1 DEF TextOfTemplate
  <2>2. <<>> \in Seq(AnyToken)
    OBVIOUS
  <2> QED
    BY <2>1, <2>2, ReadsNothing
<1>2. CASE template # <<>>
  <2> DEFINE toks == template[1]
             a == <<"template", "<">>
             c == <<">">>
             q == ParserStep(ParserStep(p, "template"), "<")
             b == a \o toks
  <2>1. TextOfTemplate(template) = a \o toks \o c
    BY <1>2 DEF TextOfTemplate
  <2>2. NoneOf(toks, ClassKeys) /\ Balanced(toks, "<", ">")
    BY <1>2 DEF IsTemplate
  <2>3. a \in Seq(AnyToken) /\ Reads(p, a) = q
    <3>1. "template" \in AnyToken /\ "<" \in AnyToken
      BY TokensAre
    <3> DEFINE x == <<"template">>
    <3>2. a = x \o <<"<">>
      BY <3>1, PairIsJoined
    <3>3. x \in Seq(AnyToken) /\ Reads(p, x) = ParserStep(p, "template")
      BY <3>1, TokenAlone, ReadsOne
    <3> HIDE DEF a, x
    <3>4. x \o <<"<">> \in Seq(AnyToken) /\ Reads(p, x \o <<"<">>) = ParserStep(Reads(p, x), "<")
      BY <3>1, <3>3, OneMore
    <3> QED
      BY <3>2, <3>3, <3>4
  <2>4. toks \in Seq(AnyToken) /\ ">" \in AnyToken
    BY <2>2, TokensAre DEF NoneOf
  <2>5. Ready(ParserStep(Reads(q, toks), ">"), "normal", NoNames, s, ns)
    <3> HIDE DEF toks
    <3> QED
      BY <2>2, TemplateArgumentsAreRead
  <2> HIDE DEF a, toks, q
  <2>6. b \in Seq(AnyToken) /\ Reads(p, b) = Reads(q, toks)
    BY <2>3, <2>4, MoreTokens
  <2> HIDE DEF b
  <2>7. b \o c \in Seq(AnyToken) /\ Reads(p, b \o c) = ParserStep(Reads(p, b), ">")
    BY <2>4, <2>6, OneMore
  <2>8. TextOfTemplate(template) = b \o c
    BY <2>1 DEF b
  <2> HIDE DEF c
  <2> QED
    BY <2>5, <2>6, <2>7, <2>8
<1> QED
  BY <1>1, <1>2

\* The kinds each piece declares.
LEMMA DeclaresMeans ==
  ASSUME NEW x
  PROVE  LET called == Calls(x.parts) # {}
             f == FirstWord(x.parts)
             macro == IF called THEN Macro(f) ELSE {}
         IN  /\ x.is \in {"open", "close"} => Declares(x) = {}
             /\ x.is = "directive" => Declares(x) = IF x.directive = "#include" THEN {"include"} ELSE {}
             /\ x.is = "class" => Declares(x) = ClassKinds(x.key)
             /\ x.is = "forward" => Declares(x) = {"forward"}
             /\ x.is = "using" => Declares(x) = {"using"}
             /\ x.is = "declaration" => Declares(x) = macro \cup (IF called THEN {"func"} ELSE {})
             /\ x.is = "function" => Declares(x) = macro \cup BodyKinds(f)
             /\ x.is = "value" /\ f # "using" => Declares(x) = macro \cup ValueKinds(f)
<1> DEFINE called == Calls(x.parts) # {}
           f == FirstWord(x.parts)
           macro == IF called THEN Macro(f) ELSE {}
           other == IF called /\ f \in DefineMacros THEN {"macro"} ELSE {}
<1>1. macro = other
  BY DEF Macro
<1> HIDE DEF macro
<1>2. /\ x.is \in {"open", "close"} => Declares(x) = {}
      /\ x.is = "directive" => Declares(x) = IF x.directive = "#include" THEN {"include"} ELSE {}
      /\ x.is = "class" => Declares(x) = ClassKinds(x.key)
      /\ x.is = "forward" => Declares(x) = {"forward"}
      /\ x.is = "using" => Declares(x) = {"using"}
  BY DEF Declares, ClassKinds
<1>3. /\ x.is = "declaration" => Declares(x) = other \cup (IF called THEN {"func"} ELSE {})
      /\ x.is = "function" => Declares(x) = other \cup (IF f = "TEST" THEN {"test"} ELSE {"func"})
      /\ x.is = "value" => Declares(x) = other \cup (IF f = "constexpr" THEN {"constant"} ELSE {})
  <2> HIDE DEF f
  <2> QED
    BY DEF Declares, f
<1> HIDE DEF f, called, other
<1>4. /\ x.is = "declaration" => Declares(x) = macro \cup (IF called THEN {"func"} ELSE {})
      /\ x.is = "function" => Declares(x) = macro \cup BodyKinds(f)
      /\ x.is = "value" /\ f # "using" => Declares(x) = macro \cup ValueKinds(f)
  BY <1>1, <1>3 DEF BodyKinds, ValueKinds
<1> QED
  BY <1>2, <1>4 DEF macro, f, called

\* They are kinds of declarations.
LEMMA KindsDeclared ==
  ASSUME NEW x
  PROVE  /\ x.is \in {"open", "close", "directive", "class", "forward", "using", "declaration", "function"} =>
              Declares(x) \in SUBSET DeclaredKinds
         /\ x.is = "value" => Declares(x) \in SUBSET DeclaredKinds
<1> DEFINE called == Calls(x.parts) # {}
           f == FirstWord(x.parts)
<1>1. x.is \in {"open", "close", "directive", "class", "forward", "using"} => Declares(x) \in SUBSET DeclaredKinds
  BY DeclaresMeans DEF DeclaredKinds, ClassKinds
<1>2. x.is \in {"declaration", "function", "value"} => Declares(x) \in SUBSET DeclaredKinds
  BY DEF Declares, DeclaredKinds
<1> QED
  BY <1>1, <1>2

\* What a text declares, the parser adds to the innermost namespace.
LEMMA DeclarationIsRead ==
  ASSUME NEW p, NEW s \in Blocks, NEW ns, Ready(p, "normal", NoNames, s, ns),
         NEW d, IsDeclaration(d), IsTemplate(d.template)
  PROVE  /\ TextOfPiece(d) \in Seq(AnyToken)
         /\ Ready(Reads(p, TextOfPiece(d)), "normal", NoNames, Hads(s, Declares(d)), ns)
<1> DEFINE a == TextOfTemplate(d.template)
           q == Reads(p, a)
           text == TextOfPiece(d)
           head == d.head
           body == d.body
           key == d.key
           t == TextOfParts(d.parts)
           f == FirstWord(d.parts)
           called == Calls(d.parts) # {}
           macro == IF called THEN Macro(f) ELSE {}
           Goal == text \in Seq(AnyToken) /\ Ready(Reads(p, text), "normal", NoNames, Hads(s, Declares(d)), ns)
<1>1. a \in Seq(AnyToken) /\ Ready(q, "normal", NoNames, s, ns)
  BY TemplatePrefixIsRead
<1>2. OpenBrace \in AnyToken /\ CloseBrace \in AnyToken /\ Semicolon \in AnyToken /\ "=" \in AnyToken /\ "using" \in AnyToken
  BY MarksAreTokens, TokensAre
<1>3. d.is \in {"class", "using", "function", "value"} => Balanced(body, OpenBrace, CloseBrace) /\ body \in Seq(AnyToken)
  <2>1. d.is \in {"class", "using", "function", "value"} => Balanced(body, OpenBrace, CloseBrace)
    BY DeclarationsMean
  <2>2. Balanced(body, OpenBrace, CloseBrace) => body \in Seq(AnyToken)
    BY TokensAre DEF Balanced
  <2> QED
    BY <2>1, <2>2
<1>4. d.is \in {"class", "forward"} => /\ key \in ClassKeys \cup {"enum"} /\ key \in AnyToken
                                       /\ NoneOf(head, {OpenBrace, Semicolon}) /\ head \in Seq(AnyToken)
  <2>1. d.is \in {"class", "forward"} => key \in ClassKeys \cup {"enum"} /\ NoneOf(head, {OpenBrace, Semicolon})
    BY DeclarationsMean
  <2>2. NoneOf(head, {OpenBrace, Semicolon}) => head \in Seq(AnyToken)
    BY TokensAre DEF NoneOf
  <2>3. key \in ClassKeys \cup {"enum"} => key \in AnyToken
    BY TokensAre
  <2> QED
    BY <2>1, <2>2, <2>3
<1>5. d.is \in {"using", "value"} =>
        \A i \in DOMAIN body : body[i] = Semicolon => Nesting(body, OpenBrace, CloseBrace)[i] > 0
  BY DeclarationsMean
<1> DEFINE r == Reads(q, t)
           last == \E i \in Calls(d.parts) : \A j \in DOMAIN d.parts : j > i => d.parts[j].is = "words"
<1>6. d.is \in {"declaration", "function", "value"} =>
        /\ f # NoWord /\ f # "using" /\ t \in Seq(AnyToken)
        /\ ReadParts(r, f, t, s, ns, called, last)
        /\ called \in BOOLEAN
  <2> SUFFICES ASSUME d.is \in {"declaration", "function", "value"}
               PROVE  /\ f # NoWord /\ f # "using" /\ t \in Seq(AnyToken)
                      /\ ReadParts(r, f, t, s, ns, called, last)
                      /\ called \in BOOLEAN
    OBVIOUS
  <2> DEFINE parts == d.parts
  <2>1. AreParts(parts)
    BY DeclarationsMean
  <2> HIDE DEF q, parts
  <2>2. /\ FirstWord(parts) # NoWord /\ FirstWord(parts) = TextOfPart(parts[1])[1]
        /\ ReadParts(Reads(q, TextOfParts(parts)), FirstWord(parts), TextOfParts(parts), s, ns,
                     Calls(parts) # {},
                     \E i \in Calls(parts) : \A j \in DOMAIN parts : j > i => parts[j].is = "words")
    BY <1>1, <2>1, PartsAreRead
  <2>3. FirstWord(parts) # "using"
    BY <2>1, <2>2, FirstWordIsPlain
  <2>4. TextOfParts(parts) \in Seq(AnyToken)
    BY <2>2 DEF ReadParts
  <2> QED
    BY <2>2, <2>3, <2>4 DEF parts
<1>7. /\ d.is = "function" => last /\ f # "extern" /\ (f = "constexpr" => "=" \notin ToSet(t))
      /\ d.is = "value" => CloseBrace \notin ToSet(t) /\ "]" \notin ToSet(t) /\ "]" \notin ToSet(body) /\ f # "TEST"
  BY DeclarationsMean
<1>8. /\ d.is = "class" => Declares(d) = ClassKinds(key)
      /\ d.is = "forward" => Declares(d) = {"forward"}
      /\ d.is = "using" => Declares(d) = {"using"}
      /\ d.is = "declaration" => Declares(d) = macro \cup (IF called THEN {"func"} ELSE {})
      /\ d.is = "function" => Declares(d) = macro \cup BodyKinds(f)
      /\ d.is = "value" /\ f # "using" => Declares(d) = macro \cup ValueKinds(f)
  BY DeclaresMeans
<1>9. /\ d.is = "class" => text = a \o <<key>> \o head \o <<OpenBrace>> \o body \o <<CloseBrace, Semicolon>>
      /\ d.is = "forward" => text = a \o <<key>> \o head \o <<Semicolon>>
      /\ d.is = "using" => text = a \o <<"using">> \o body \o <<Semicolon>>
      /\ d.is = "declaration" => text = a \o t \o <<Semicolon>>
      /\ d.is = "function" => text = a \o t \o <<OpenBrace>> \o body \o <<CloseBrace>>
      /\ d.is = "value" => text = a \o t \o <<"=">> \o body \o <<Semicolon>>
  BY TextsMean
<1>10. d.is \in {"class", "forward", "using", "declaration", "function", "value"}
  BY DeclarationsMean
<1> SUFFICES Goal
  OBVIOUS
<1> HIDE DEF a, q, text, head, body, key, t, f, called, r, last, Goal
<1>11. CASE d.is = "declaration"
  <2> DEFINE b == a \o t
  <2>1. b \in Seq(AnyToken) /\ Reads(p, b) = r
    BY <1>1, <1>6, <1>11, MoreTokens DEF q, r
  <2> HIDE DEF b
  <2>2. b \o <<Semicolon>> \in Seq(AnyToken) /\ Reads(p, b \o <<Semicolon>>) = ParserStep(r, Semicolon)
    BY <1>2, <2>1, OneMore
  <2>3. Ready(ParserStep(r, Semicolon), "normal", NoNames, Hads(s, macro \cup (IF called THEN {"func"} ELSE {})), ns)
    BY <1>6, <1>11, SemicolonEnds
  <2>4. text = b \o <<Semicolon>>
    BY <1>9, <1>11 DEF b
  <2> DEFINE e == b \o <<Semicolon>>
             kinds == macro \cup (IF called THEN {"func"} ELSE {})
  <2>5. Declares(d) = kinds
    BY <1>8, <1>11
  <2> HIDE DEF e, macro, kinds
  <2> QED
    BY <2>2, <2>3, <2>4, <2>5 DEF Goal, e, kinds
<1>12. CASE d.is = "function"
  <2> DEFINE b == a \o t
             c == b \o <<OpenBrace>>
             e == c \o body
             g == e \o <<CloseBrace>>
             kinds == macro \cup BodyKinds(f)
             u == ParserStep(r, OpenBrace)
             v == Reads(u, body)
  <2>1. b \in Seq(AnyToken) /\ Reads(p, b) = r
    BY <1>1, <1>6, <1>12, MoreTokens DEF q, r
  <2> HIDE DEF b
  <2>2. c \in Seq(AnyToken) /\ Reads(p, c) = u
    BY <1>2, <2>1, OneMore
  <2> HIDE DEF c
  <2>3. e \in Seq(AnyToken) /\ Reads(p, e) = v
    BY <1>3, <1>12, <2>2, MoreTokens
  <2> HIDE DEF e
  <2>4. g \in Seq(AnyToken) /\ Reads(p, g) = ParserStep(v, CloseBrace)
    BY <1>2, <2>3, OneMore
  <2>5. text = g
    BY <1>9, <1>12 DEF b, c, e
  <2>6. Ready(ParserStep(v, CloseBrace), "normal", NoNames, Hads(s, macro \cup BodyKinds(f)), ns)
    <3>1. ReadParts(r, f, t, s, ns, called, TRUE)
      BY <1>6, <1>7, <1>12 DEF ReadParts
    <3> QED
      BY <1>3, <1>6, <1>7, <1>12, <3>1, BodyEnds
  <2>7. Declares(d) = kinds
    BY <1>8, <1>12
  <2> HIDE DEF g, v, macro, kinds
  <2> QED
    BY <2>4, <2>5, <2>6, <2>7 DEF Goal, kinds
<1>13. CASE d.is = "value"
  <2> DEFINE b == a \o t
             c == b \o <<"=">>
             e == c \o body
             g == e \o <<Semicolon>>
             kinds == macro \cup ValueKinds(f)
             u == ParserStep(r, "=")
             v == Reads(u, body)
  <2>1. b \in Seq(AnyToken) /\ Reads(p, b) = r
    BY <1>1, <1>6, <1>13, MoreTokens DEF q, r
  <2> HIDE DEF b
  <2>2. c \in Seq(AnyToken) /\ Reads(p, c) = u
    BY <1>2, <2>1, OneMore
  <2> HIDE DEF c
  <2>3. e \in Seq(AnyToken) /\ Reads(p, e) = v
    BY <1>3, <1>13, <2>2, MoreTokens
  <2> HIDE DEF e
  <2>4. g \in Seq(AnyToken) /\ Reads(p, g) = ParserStep(v, Semicolon)
    BY <1>2, <2>3, OneMore
  <2>5. text = g
    BY <1>9, <1>13 DEF b, c, e
  <2>6. Ready(ParserStep(v, Semicolon), "normal", NoNames, Hads(s, macro \cup ValueKinds(f)), ns)
    <3>1. ReadParts(r, f, t, s, ns, called, last) /\ f \notin {NoWord, "TEST", "using"} /\ called \in BOOLEAN
      BY <1>6, <1>7, <1>13
    <3>2. /\ CloseBrace \notin ToSet(t) /\ "]" \notin ToSet(t) /\ "]" \notin ToSet(body)
          /\ Balanced(body, OpenBrace, CloseBrace)
          /\ \A i \in DOMAIN body : body[i] = Semicolon => Nesting(body, OpenBrace, CloseBrace)[i] > 0
      BY <1>3, <1>5, <1>7, <1>13
    <3> QED
      BY <3>1, <3>2, ValueEnds
  <2>7. Declares(d) = kinds
    BY <1>6, <1>8, <1>13
  <2> HIDE DEF g, v, macro, kinds
  <2> QED
    BY <2>4, <2>5, <2>6, <2>7 DEF Goal, kinds
<1>14. CASE d.is = "using"
  <2> DEFINE c == a \o <<"using">>
             e == c \o body
             g == e \o <<Semicolon>>
             u == ParserStep(q, "using")
             v == Reads(u, body)
  <2>2. c \in Seq(AnyToken) /\ Reads(p, c) = u
    BY <1>1, <1>2, OneMore DEF q
  <2> HIDE DEF c
  <2>3. e \in Seq(AnyToken) /\ Reads(p, e) = v
    BY <1>3, <1>14, <2>2, MoreTokens
  <2> HIDE DEF e
  <2>4. g \in Seq(AnyToken) /\ Reads(p, g) = ParserStep(v, Semicolon)
    BY <1>2, <2>3, OneMore
  <2>5. text = g
    BY <1>9, <1>14 DEF c, e
  <2>6. Ready(ParserStep(v, Semicolon), "normal", NoNames, Hads(s, {"using"}), ns)
    <3>1. /\ Balanced(body, OpenBrace, CloseBrace)
          /\ \A i \in DOMAIN body : body[i] = Semicolon => Nesting(body, OpenBrace, CloseBrace)[i] > 0
      BY <1>3, <1>5, <1>14
    <3> QED
      BY <1>1, <3>1, UsingIsRead
  <2> HIDE DEF g, v
  <2> QED
    BY <1>8, <1>14, <2>4, <2>5, <2>6 DEF Goal
<1>15. CASE d.is = "forward"
  <2> DEFINE c == a \o <<key>>
             e == c \o head
             g == e \o <<Semicolon>>
             u == ParserStep(q, key)
             v == Reads(u, head)
  <2>2. c \in Seq(AnyToken) /\ Reads(p, c) = u
    BY <1>1, <1>4, <1>15, OneMore DEF q
  <2> HIDE DEF c
  <2>3. e \in Seq(AnyToken) /\ Reads(p, e) = v
    BY <1>4, <1>15, <2>2, MoreTokens
  <2> HIDE DEF e
  <2>4. g \in Seq(AnyToken) /\ Reads(p, g) = ParserStep(v, Semicolon)
    BY <1>2, <2>3, OneMore
  <2>5. text = g
    BY <1>9, <1>15 DEF c, e
  <2>6. Ready(ParserStep(v, Semicolon), "normal", NoNames, Hads(s, {"forward"}), ns)
    BY <1>1, <1>4, <1>15, ForwardIsRead
  <2> HIDE DEF g, v
  <2> QED
    BY <1>8, <1>15, <2>4, <2>5, <2>6 DEF Goal
<1>16. CASE d.is = "class"
  <2> DEFINE c == a \o <<key>>
             e == c \o head
             i == e \o <<OpenBrace>>
             j == i \o body
             k == <<CloseBrace, Semicolon>>
             u == ParserStep(q, key)
             v == Reads(u, head)
             w == ParserStep(v, OpenBrace)
             x == Reads(w, body)
             y == ParserStep(ParserStep(x, CloseBrace), Semicolon)
  <2>2. c \in Seq(AnyToken) /\ Reads(p, c) = u
    BY <1>1, <1>4, <1>16, OneMore DEF q
  <2> HIDE DEF c
  <2>3. e \in Seq(AnyToken) /\ Reads(p, e) = v
    BY <1>4, <1>16, <2>2, MoreTokens
  <2> HIDE DEF e
  <2>4. i \in Seq(AnyToken) /\ Reads(p, i) = w
    BY <1>2, <2>3, OneMore
  <2> HIDE DEF i
  <2>5. j \in Seq(AnyToken) /\ Reads(p, j) = x
    BY <1>3, <1>16, <2>4, MoreTokens
  <2> HIDE DEF j
  <2>6. k \in Seq(AnyToken) /\ Reads(x, k) = y
    <3>1. k = <<CloseBrace>> \o <<Semicolon>>
      BY <1>2, PairIsJoined
    <3> DEFINE l == <<CloseBrace>>
    <3>2. l \in Seq(AnyToken) /\ Reads(x, l) = ParserStep(x, CloseBrace)
      BY <1>2, TokenAlone, ReadsOne
    <3> HIDE DEF l, k, x
    <3>3. l \o <<Semicolon>> \in Seq(AnyToken) /\ Reads(x, l \o <<Semicolon>>) = ParserStep(Reads(x, l), Semicolon)
      BY <1>2, <3>2, OneMore
    <3> QED
      BY <3>1, <3>2, <3>3 DEF l
  <2>7. text = j \o k
    BY <1>9, <1>16 DEF c, e, i, j
  <2> HIDE DEF k
  <2>8. j \o k \in Seq(AnyToken) /\ Reads(p, j \o k) = y
    BY <2>5, <2>6, MoreTokens
  <2>9. Ready(y, "normal", NoNames, Hads(s, ClassKinds(key)), ns)
    BY <1>1, <1>3, <1>4, <1>16, ClassIsRead
  <2> HIDE DEF y
  <2> QED
    BY <1>8, <1>16, <2>7, <2>8, <2>9 DEF Goal
<1> QED
  BY <1>10, <1>11, <1>12, <1>13, <1>14, <1>15, <1>16
-----------------------------------------------------------------------------
(* Namespaces, token by token.                                             *)

\* The name that a namespace is collected under, and the path of the open ones.
NameOf(x) == IF x.name = NoWord THEN "<anon>" ELSE x.name
Opened(name) == [current |-> name, had |-> {}]
PathOf(s) == [i \in 1 .. Len(s) |-> s[i].current]

\* What is recorded when the innermost namespace closes.
Closed(s, ns) ==
    LET same == {n \in ns : n.name = PathOf(s)}
    IN  (ns \ same) \cup {[name |-> PathOf(s), had |-> Last(s).had \cup UNION {n.had : n \in same}]}

\* The tokens of a namespace that opens.
LEMMA NamespaceTokens ==
  ASSUME NEW p, NEW tok
  PROVE  /\ collect_ns(p, OpenBrace) = switch_to_normal([p EXCEPT !.stack = Append(@,
              [current |-> IF p.part = NoWord THEN "<anon>" ELSE p.part, had |-> {}])])
         /\ tok \notin NotPlain /\ tok \notin Separators => collect_ns(p, tok) = [p EXCEPT !.part = tok]
  BY Zenon DEF collect_ns, OpenBrace, NoWord, NotPlain, Separators, Foreign

\* What a piece is that opens a namespace, or closes one.
LEMMA OpensMean ==
  ASSUME NEW x
  PROVE  /\ x.is = "open" => TextOfPiece(x) = IF x.name = NoWord THEN <<"namespace", OpenBrace>>
                                              ELSE <<"namespace", x.name, OpenBrace>>
         /\ x.is = "close" => TextOfPiece(x) = <<CloseBrace>>
         /\ x.is = "directive" => TextOfPiece(x) = <<x.directive>>
         /\ \A path : PathOn(path, x) = IF x.is = "open" THEN Append(path, NameOf(x))
                                        ELSE IF x.is = "close" THEN Front(path) ELSE path
  BY Zenon DEF TextOfPiece, PathOn, NameOf, OpenBrace, CloseBrace, NoWord

\* What a piece is: one that opens, closes or directs, or a declaration.
LEMMA PiecesMean ==
  ASSUME NEW x, IsPiece(x)
  PROVE  /\ x.is = "open" => \/ x.name = NoWord
                             \/ x.name \in STRING /\ x.name \notin NotPlain /\ x.name \notin Separators
                                  /\ x.name # "<anon>"
         /\ x.is = "directive" => x.directive \in Directives
         /\ x.is \notin {"open", "close", "directive"} => IsDeclaration(x) /\ IsTemplate(x.template)
<1>1. IsPiece(x) =
        (\/ x.is = "open" /\ x.name \in (STRING \ (NotPlain \cup Separators \cup {"<anon>"})) \cup {NoWord}
         \/ x.is = "close"
         \/ x.is = "directive" /\ x.directive \in Directives
         \/ IsDeclaration(x) /\ IsTemplate(x.template))
  BY Zenon DEF IsPiece, NoWord
<1>2. IsDeclaration(x) => x.is \notin {"open", "close", "directive"}
  <2>1. IsDeclaration(x) => x.is \in {"class", "forward", "using", "declaration", "function", "value"}
    BY DeclarationsMean
  <2> QED
    BY <2>1
<1> QED
  BY <1>1, <1>2

\* The word that opens a namespace.
LEMMA NamedOpens ==
  ASSUME NEW p, NEW s \in Seq(Block), NEW ns, Ready(p, "normal", NoNames, s, ns)
  PROVE  LET q == ParserStep(p, "namespace")
         IN  Ready(q, InNs, NoNames, s, ns) /\ q.part = NoWord
<1>1. p.end = "running" /\ p.mode = "normal"
  BY DEF Ready, Parses
<1>2. ParserStep(p, "namespace") = parse_normal(p, "namespace")
  BY <1>1, Handlers
<1>3. parse_normal(p, "namespace") = [p EXCEPT !.mode = InNs, !.part = NoWord]
  BY NormalTokens, Zenon
<1>4. DOMAIN p = ParserFields
  BY DEF Ready, Parses
<1> DEFINE q == [p EXCEPT !.mode = InNs, !.part = NoWord]
<1>5. /\ q.part = NoWord /\ q.mode = InNs /\ DOMAIN q = ParserFields
      /\ \A y \in ParserFields \ {"mode", "part"} : q[y] = p[y]
  BY <1>4 DEF ParserFields
<1> HIDE DEF q
<1>6. Ready(q, InNs, NoNames, s, ns)
  BY <1>5 DEF Ready, Parses, ParserFields
<1> QED
  BY <1>2, <1>3, <1>5, <1>6 DEF q

\* The name of a namespace.
LEMMA NameIsRead ==
  ASSUME NEW p, NEW s \in Seq(Block), NEW ns, Ready(p, InNs, NoNames, s, ns),
         NEW name, name \notin NotPlain, name \notin Separators
  PROVE  LET q == ParserStep(p, name)
         IN  Ready(q, InNs, NoNames, s, ns) /\ q.part = name
<1>1. p.end = "running" /\ p.mode = InNs
  BY DEF Ready, Parses
<1>2. ParserStep(p, name) = collect_ns(p, name)
  BY <1>1, Handlers
<1>3. collect_ns(p, name) = [p EXCEPT !.part = name]
  BY NamespaceTokens
<1>4. DOMAIN p = ParserFields
  BY DEF Ready, Parses
<1> DEFINE q == [p EXCEPT !.part = name]
<1>5. q.part = name /\ DOMAIN q = ParserFields /\ \A y \in ParserFields \ {"part"} : q[y] = p[y]
  BY <1>4 DEF ParserFields
<1> HIDE DEF q
<1>6. Ready(q, InNs, NoNames, s, ns)
  BY <1>5 DEF Ready, Parses, ParserFields
<1> QED
  BY <1>2, <1>3, <1>5, <1>6 DEF q

\* The brace that opens a namespace of this name, or one without a name.
LEMMA NamespaceOpens ==
  ASSUME NEW p, NEW s \in Seq(Block), NEW ns, Ready(p, InNs, NoNames, s, ns),
         NEW name, p.part = NoWord => name = "<anon>", p.part # NoWord => name = p.part
  PROVE  Ready(ParserStep(p, OpenBrace), "normal", NoNames, Append(s, Opened(name)), ns)
<1>1. p.end = "running" /\ p.mode = InNs /\ p.stack = s
  BY DEF Ready, Parses
<1>2. ParserStep(p, OpenBrace) = collect_ns(p, OpenBrace)
  BY <1>1, Handlers
<1>3. collect_ns(p, OpenBrace) = switch_to_normal([p EXCEPT !.stack = Append(@, Opened(name))])
  <2>1. Opened(name) = [current |-> IF p.part = NoWord THEN "<anon>" ELSE p.part, had |-> {}]
    BY DEF Opened
  <2> QED
    BY <2>1, NamespaceTokens
<1>4. Ready([p EXCEPT !.stack = Append(@, Opened(name))], InNs, NoNames, Append(s, Opened(name)), ns)
  BY <1>1 DEF Ready, Parses, ParserFields
<1> DEFINE q == [p EXCEPT !.stack = Append(@, Opened(name))]
           t == Append(s, Opened(name))
<1> HIDE DEF q, t
<1>5. Ready(switch_to_normal(q), "normal", NoNames, t, ns)
  BY <1>4, ClearParses DEF q, t
<1> QED
  BY <1>2, <1>3, <1>5 DEF q, t

\* A namespace opens inside of the others.
LEMMA OpenIsRead ==
  ASSUME NEW p, NEW s \in Seq(Block), NEW ns, Ready(p, "normal", NoNames, s, ns),
         NEW x, IsPiece(x), x.is = "open"
  PROVE  /\ TextOfPiece(x) \in Seq(AnyToken) /\ NameOf(x) \in AnyToken
         /\ Ready(Reads(p, TextOfPiece(x)), "normal", NoNames, Append(s, Opened(NameOf(x))), ns)
<1> DEFINE text == TextOfPiece(x)
           name == x.name
           q == ParserStep(p, "namespace")
           first == <<"namespace">>
           t == Append(s, Opened(NameOf(x)))
           Goal == text \in Seq(AnyToken) /\ Ready(Reads(p, text), "normal", NoNames, t, ns)
<1>1. Ready(q, InNs, NoNames, s, ns) /\ q.part = NoWord
  BY NamedOpens
<1>2. "namespace" \in AnyToken /\ OpenBrace \in AnyToken /\ "<anon>" \in AnyToken
  BY TokensAre, MarksAreTokens
<1>3. name = NoWord \/ (name \in AnyToken /\ name \notin NotPlain /\ name \notin Separators)
  BY PiecesMean, TokensAre
<1>4. NameOf(x) \in AnyToken
  BY <1>2, <1>3 DEF NameOf
<1>5. first \in Seq(AnyToken) /\ Reads(p, first) = q
  BY <1>2, TokenAlone, ReadsOne
<1>6. name = NoWord => text = <<"namespace", OpenBrace>>
  BY OpensMean
<1>7. name # NoWord => text = <<"namespace", name, OpenBrace>>
  BY OpensMean
<1>8. (name = NoWord => NameOf(x) = "<anon>") /\ (name # NoWord => NameOf(x) = name)
  BY DEF NameOf
<1> SUFFICES Goal
  BY <1>4
<1> HIDE DEF text, name, q, t, Goal
<1>9. CASE name = NoWord
  <2>1. text = first \o <<OpenBrace>>
    BY <1>2, <1>6, <1>9, PairIsJoined
  <2> HIDE DEF first
  <2>2. first \o <<OpenBrace>> \in Seq(AnyToken) /\ Reads(p, first \o <<OpenBrace>>) = ParserStep(q, OpenBrace)
    BY <1>2, <1>5, OneMore
  <2>3. Ready(ParserStep(q, OpenBrace), "normal", NoNames, t, ns)
    BY <1>1, <1>8, <1>9, NamespaceOpens DEF t
  <2> QED
    BY <2>1, <2>2, <2>3 DEF Goal
<1>10. CASE name # NoWord
  <2> DEFINE r == ParserStep(q, name)
             e == first \o <<name>>
  <2>1. text = e \o <<OpenBrace>>
    BY <1>2, <1>3, <1>7, <1>10
  <2> HIDE DEF first
  <2>2. e \in Seq(AnyToken) /\ Reads(p, e) = r
    BY <1>3, <1>5, <1>10, OneMore
  <2>3. Ready(r, InNs, NoNames, s, ns) /\ r.part = name
    BY <1>1, <1>3, <1>10, NameIsRead
  <2> HIDE DEF e, r
  <2>4. e \o <<OpenBrace>> \in Seq(AnyToken) /\ Reads(p, e \o <<OpenBrace>>) = ParserStep(r, OpenBrace)
    BY <1>2, <2>2, OneMore
  <2>5. Ready(ParserStep(r, OpenBrace), "normal", NoNames, t, ns)
    BY <1>8, <1>10, <2>3, NamespaceOpens DEF t
  <2> QED
    BY <2>1, <2>4, <2>5 DEF Goal
<1> QED
  BY <1>9, <1>10

\* The innermost namespace closes.
LEMMA CloseIsRead ==
  ASSUME NEW p, NEW s \in Blocks, NEW ns, Ready(p, "normal", NoNames, s, ns),
         NEW x, x.is = "close"
  PROVE  /\ TextOfPiece(x) \in Seq(AnyToken)
         /\ Ready(Reads(p, TextOfPiece(x)), "normal", NoNames, Front(s), Closed(s, ns))
<1>1. p.end = "running" /\ p.mode = "normal"
  BY DEF Ready, Parses
<1>2. ParserStep(p, CloseBrace) = parse_normal(p, CloseBrace)
  BY <1>1, Handlers
<1>3. parse_normal(p, CloseBrace) = add_namespace(p)
  BY NormalTokens, Zenon
<1>4. TextOfPiece(x) = <<CloseBrace>> /\ CloseBrace \in AnyToken
  BY OpensMean, MarksAreTokens
<1>5. TextOfPiece(x) \in Seq(AnyToken) /\ Reads(p, TextOfPiece(x)) = add_namespace(p)
  BY <1>2, <1>3, <1>4, TokenAlone, ReadsOne
<1>6. p.stack = s /\ s # <<>> /\ p.namespaces = ns /\ Path(p) = PathOf(s)
  BY DEF Ready, Parses, Blocks, Path, PathOf
<1>7. \E errors : add_namespace(p) =
        [p EXCEPT !.errors = errors, !.namespaces = Closed(s, ns), !.stack = Front(s)]
  <2> DEFINE errors == IF "<anon>" \in ToSet(Path(p)) THEN p.errors \cup {"anonNamespace"} ELSE p.errors
  <2>1. add_namespace(p) = [p EXCEPT !.errors = errors, !.namespaces = Closed(s, ns), !.stack = Front(s)]
    BY <1>6 DEF add_namespace, Closed
  <2> QED
    BY <2>1
<1>8. Ready(add_namespace(p), "normal", NoNames, Front(s), Closed(s, ns))
  BY <1>7 DEF Ready, Parses, ParserFields
<1> QED
  BY <1>5, <1>8

\* An include is one of the innermost namespace, if any.
LEMMA DirectiveIsRead ==
  ASSUME NEW p, NEW s \in Seq(Block), NEW ns, Ready(p, "normal", NoNames, s, ns),
         NEW x, IsPiece(x), x.is = "directive"
  PROVE  /\ TextOfPiece(x) \in Seq(AnyToken)
         /\ s = <<>> => Ready(Reads(p, TextOfPiece(x)), "normal", NoNames, s, ns)
         /\ s # <<>> => Ready(Reads(p, TextOfPiece(x)), "normal", NoNames, Hads(s, Declares(x)), ns)
<1> DEFINE tok == x.directive
<1>1. p.end = "running" /\ p.mode = "normal" /\ p.stack = s
  BY DEF Ready, Parses
<1>2. tok \in Directives /\ tok \in AnyToken
  BY PiecesMean, TokensAre
<1>3. ParserStep(p, tok) = _parse_normal_precomp_macro(p, tok)
  <2>1. ParserStep(p, tok) = parse_normal(p, tok)
    BY <1>1, Handlers
  <2>2. parse_normal(p, tok) = _parse_normal_precomp_macro(p, tok)
    BY <1>2, NormalTokens, Zenon
  <2> QED
    BY <2>1, <2>2
<1>4. TextOfPiece(x) \in Seq(AnyToken) /\ Reads(p, TextOfPiece(x)) = _parse_normal_precomp_macro(p, tok)
  <2>1. TextOfPiece(x) = <<tok>>
    BY OpensMean
  <2> QED
    BY <1>2, <1>3, <2>1, TokenAlone, ReadsOne
<1>5. Declares(x) = IF tok = "#include" THEN {"include"} ELSE {}
  BY DeclaresMeans
<1>6. CASE tok = "#include"
  <2>1. _parse_normal_precomp_macro(p, tok) = Had(p, "include")
    BY <1>6, Zenon DEF _parse_normal_precomp_macro
  <2>2. s = <<>> => Had(p, "include") = p
    BY <1>1 DEF Had
  <2>3. s # <<>> => Ready(Had(p, "include"), "normal", NoNames, Hads(s, {"include"}), ns)
    <3> SUFFICES ASSUME s # <<>> PROVE Ready(Had(p, "include"), "normal", NoNames, Hads(s, {"include"}), ns)
      OBVIOUS
    <3>1. s \in Blocks
      BY DEF Blocks
    <3> QED
      BY <3>1, HadParses DEF Ready
  <2> QED
    BY <1>4, <1>5, <1>6, <2>1, <2>2, <2>3
<1>7. CASE tok # "#include"
  <2>1. \E errors : _parse_normal_precomp_macro(p, tok) = [p EXCEPT !.errors = errors] \/
                    _parse_normal_precomp_macro(p, tok) = p
    BY <1>7 DEF _parse_normal_precomp_macro
  <2>2. Ready(_parse_normal_precomp_macro(p, tok), "normal", NoNames, s, ns)
    BY <2>1 DEF Ready, Parses, ParserFields
  <2>3. s # <<>> => Hads(s, {}) = s
    <3>1. s # <<>> => s \in Blocks
      BY DEF Blocks
    <3>2. {} \in SUBSET DeclaredKinds
      OBVIOUS
    <3> QED
      BY <3>1, <3>2, HadsAdd
  <2>4. Declares(x) = {}
    BY <1>5, <1>7
  <2> QED
    BY <1>4, <2>2, <2>3, <2>4
<1> QED
  BY <1>6, <1>7

-----------------------------------------------------------------------------
(* What is recorded of the namespaces.                                     *)

\* The path of the first of the open namespaces.
PathTo(s, j) == [i \in 1 .. j |-> s[i].current]

\* The recorded and the open namespaces are those that were opened, and had what was
\* declared in them: kinds relates each path to the kinds of declarations in it.
Recorded(s, ns, opens, kinds) ==
    /\ \A m \in ns : m = [name |-> m.name, had |-> m.had] /\ m.name # <<>>
    /\ \A m, n \in ns : m.name = n.name => m = n
    /\ \A q : q \in opens <=> (\E m \in ns : m.name = q) \/ (\E j \in 1 .. Len(s) : PathTo(s, j) = q)
    /\ \A q, kind : q # <<>> =>
         (<<q, kind>> \in kinds <=> \/ \E m \in ns : m.name = q /\ kind \in m.had
                                    \/ \E j \in 1 .. Len(s) : PathTo(s, j) = q /\ kind \in s[j].had)

\* The paths of the open namespaces differ.
LEMMA PathsDiffer ==
  ASSUME NEW s \in Seq(Block)
  PROVE  /\ PathOf(s) = PathTo(s, Len(s)) /\ (PathOf(s) = <<>> <=> s = <<>>)
         /\ \A j \in 1 .. Len(s) : PathTo(s, j) # <<>>
         /\ \A i, j \in 1 .. Len(s) : PathTo(s, i) = PathTo(s, j) => i = j
<1>1. PathOf(s) = PathTo(s, Len(s))
  BY DEF PathOf, PathTo
<1>2. Len(s) \in Nat /\ (Len(s) = 0 <=> s = <<>>)
  BY EmptySeq
<1>3. \A j \in Nat : DOMAIN PathTo(s, j) = 1 .. j /\ Len(PathTo(s, j)) = j
  BY DEF PathTo
<1>4. \A j \in 1 .. Len(s) : PathTo(s, j) # <<>>
  <2>1. Len(<<>>) = 0
    OBVIOUS
  <2> QED
    BY <1>2, <1>3, <2>1
<1>5. \A i, j \in 1 .. Len(s) : PathTo(s, i) = PathTo(s, j) => i = j
  BY <1>2, <1>3
<1>6. PathOf(s) = <<>> <=> s = <<>>
  <2>1. s # <<>> => PathOf(s) # <<>>
    BY <1>1, <1>2, <1>4
  <2>2. PathOf(<<>>) = <<>>
    BY DEF PathOf
  <2> QED
    BY <2>1, <2>2
<1> QED
  BY <1>1, <1>4, <1>5, <1>6

\* A namespace more.
LEMMA PathGrows ==
  ASSUME NEW s \in Seq(Block), NEW name \in AnyToken
  PROVE  LET t == Append(s, Opened(name))
         IN  /\ t \in Seq(Block) /\ Len(t) = Len(s) + 1 /\ t[Len(t)] = Opened(name)
             /\ \A j \in 1 .. Len(s) : t[j] = s[j] /\ PathTo(t, j) = PathTo(s, j)
             /\ PathOf(t) = Append(PathOf(s), name)
<1> DEFINE t == Append(s, Opened(name))
<1>1. Opened(name) \in Block
  BY DEF Opened, Block
<1>2. t \in Seq(Block) /\ Len(t) = Len(s) + 1 /\ t[Len(t)] = Opened(name)
  BY <1>1
<1>3. \A j \in 1 .. Len(s) : t[j] = s[j]
  BY <1>1
<1>4. Len(s) \in Nat
  OBVIOUS
<1> HIDE DEF t
<1>5. ASSUME NEW j \in 1 .. Len(s) PROVE PathTo(t, j) = PathTo(s, j)
  <2>1. \A i \in 1 .. j : t[i] = s[i]
    BY <1>3, <1>4
  <2> QED
    BY <2>1 DEF PathTo
<1>6. PathOf(t) = Append(PathOf(s), name)
  <2> DEFINE a == PathOf(t)
             b == PathOf(s)
             c == Append(b, name)
  <2>1. b \in Seq(AnyToken) /\ Len(b) = Len(s) /\ \A i \in 1 .. Len(s) : b[i] = s[i].current
    <3>1. \A i \in 1 .. Len(s) : s[i].current \in AnyToken
      <4>1. \A i \in 1 .. Len(s) : s[i] \in Block
        OBVIOUS
      <4> QED
        BY <4>1 DEF Block
    <3> QED
      BY <1>4, <3>1 DEF PathOf
  <2>2. a \in Seq(AnyToken) /\ Len(a) = Len(t) /\ \A i \in 1 .. Len(t) : a[i] = t[i].current
    <3>1. \A i \in 1 .. Len(t) : t[i].current \in AnyToken
      <4>1. \A i \in 1 .. Len(t) : t[i] \in Block
        BY <1>2
      <4> QED
        BY <4>1 DEF Block
    <3>2. Len(t) \in Nat
      BY <1>2
    <3> QED
      BY <3>1, <3>2 DEF PathOf
  <2> HIDE DEF a, b
  <2>3. c \in Seq(AnyToken) /\ Len(c) = Len(t) /\ c[Len(t)] = name /\ \A i \in 1 .. Len(s) : c[i] = b[i]
    BY <1>2, <2>1
  <2>4. \A i \in 1 .. Len(t) : i \in 1 .. Len(s) \/ i = Len(t)
    BY <1>2, <1>4
  <2>5. Opened(name).current = name
    BY DEF Opened
  <2> HIDE DEF c
  <2>6. \A i \in 1 .. Len(t) : a[i] = c[i]
    BY <1>2, <1>3, <2>1, <2>2, <2>3, <2>4, <2>5
  <2>7. a = c
    BY <2>2, <2>3, <2>6
  <2> QED
    BY <2>7 DEF a, b, c
<1> QED
  BY <1>2, <1>3, <1>5, <1>6 DEF t

\* A namespace less.
LEMMA PathShrinks ==
  ASSUME NEW s \in Blocks
  PROVE  /\ Front(s) \in Seq(Block) /\ Len(Front(s)) = Len(s) - 1 /\ Len(s) \in Nat \ {0}
         /\ Last(s) = s[Len(s)]
         /\ \A j \in 1 .. (Len(s) - 1) : Front(s)[j] = s[j] /\ PathTo(Front(s), j) = PathTo(s, j)
         /\ PathOf(Front(s)) = Front(PathOf(s))
<1> DEFINE t == Front(s)
<1>1. s \in Seq(Block) /\ Len(s) \in Nat \ {0}
  BY EmptySeq DEF Blocks
<1>2. t \in Seq(Block) /\ Len(t) = Len(s) - 1 /\ \A j \in 1 .. (Len(s) - 1) : t[j] = s[j]
  <2>1. t = [j \in 1 .. (Len(s) - 1) |-> s[j]]
    BY <1>1 DEF Front
  <2>2. \A j \in 1 .. (Len(s) - 1) : s[j] \in Block
    BY <1>1
  <2>3. Len(s) - 1 \in Nat
    BY <1>1
  <2> HIDE DEF t
  <2> QED
    BY <2>1, <2>2, <2>3
<1>3. Last(s) = s[Len(s)]
  BY DEF Last
<1> HIDE DEF t
<1>4. ASSUME NEW j \in 1 .. (Len(s) - 1) PROVE PathTo(t, j) = PathTo(s, j)
  <2>1. \A i \in 1 .. j : t[i] = s[i]
    BY <1>1, <1>2
  <2> QED
    BY <2>1 DEF PathTo
<1>5. PathOf(t) = Front(PathOf(s))
  <2> DEFINE a == PathOf(t)
             b == PathOf(s)
             c == Front(b)
  <2>1. b \in Seq(AnyToken) /\ Len(b) = Len(s) /\ \A i \in 1 .. Len(s) : b[i] = s[i].current
    <3>1. \A i \in 1 .. Len(s) : s[i].current \in AnyToken
      <4>1. \A i \in 1 .. Len(s) : s[i] \in Block
        BY <1>1
      <4> QED
        BY <4>1 DEF Block
    <3> QED
      BY <1>1, <3>1 DEF PathOf
  <2>2. a \in Seq(AnyToken) /\ Len(a) = Len(t) /\ \A i \in 1 .. Len(t) : a[i] = t[i].current
    <3>1. \A i \in 1 .. Len(t) : t[i].current \in AnyToken
      <4>1. \A i \in 1 .. Len(t) : t[i] \in Block
        BY <1>2
      <4> QED
        BY <4>1 DEF Block
    <3>2. Len(t) \in Nat
      BY <1>2
    <3> QED
      BY <3>1, <3>2 DEF PathOf
  <2> HIDE DEF a, b
  <2>3. c \in Seq(AnyToken) /\ Len(c) = Len(s) - 1 /\ \A i \in 1 .. (Len(s) - 1) : c[i] = b[i]
    BY <1>1, <2>1 DEF Front
  <2> HIDE DEF c
  <2>4. Len(a) = Len(c) /\ \A i \in 1 .. Len(a) : i \in 1 .. Len(t) /\ i \in 1 .. (Len(s) - 1) /\ i \in 1 .. Len(s)
    BY <1>1, <1>2, <2>2, <2>3
  <2>5. \A i \in 1 .. Len(a) : a[i] = c[i]
    BY <1>2, <2>1, <2>2, <2>3, <2>4
  <2>6. a = c
    BY <2>2, <2>3, <2>4, <2>5
  <2> QED
    BY <2>6 DEF a, b, c
<1> QED
  BY <1>1, <1>2, <1>3, <1>4, <1>5 DEF t

\* Another declaration in the innermost namespace.
LEMMA PathStays ==
  ASSUME NEW s \in Blocks, NEW kinds \in SUBSET DeclaredKinds
  PROVE  LET t == Hads(s, kinds)
         IN  /\ t \in Blocks /\ Len(t) = Len(s) /\ PathOf(t) = PathOf(s)
             /\ \A j \in 1 .. Len(s) : PathTo(t, j) = PathTo(s, j)
             /\ \A j \in 1 .. Len(s) : j # Len(s) => t[j].had = s[j].had
             /\ t[Len(s)].had = s[Len(s)].had \cup kinds
<1> DEFINE t == Hads(s, kinds)
<1>1. /\ Len(s) \in Nat \ {0} /\ t \in Blocks /\ Len(t) = Len(s)
      /\ \A i \in 1 .. Len(s) : t[i] = IF i = Len(s) THEN [current |-> s[i].current, had |-> s[i].had \cup kinds] ELSE s[i]
  BY HadsMeans
<1> HIDE DEF t
<1> DEFINE block == [current |-> s[Len(s)].current, had |-> s[Len(s)].had \cup kinds]
<1>7. block.current = s[Len(s)].current /\ block.had = s[Len(s)].had \cup kinds
  OBVIOUS
<1>8. t[Len(s)] = block /\ \A i \in 1 .. Len(s) : i # Len(s) => t[i] = s[i]
  <2>1. Len(s) \in 1 .. Len(s)
    BY <1>1
  <2>2. t[Len(s)] = IF Len(s) = Len(s) THEN block ELSE s[Len(s)]
    BY <1>1, <2>1, Zenon
  <2>3. \A i \in 1 .. Len(s) : i # Len(s) => t[i] = s[i]
    BY <1>1, Zenon
  <2> QED
    BY <2>2, <2>3
<1> HIDE DEF block
<1>2. \A i \in 1 .. Len(s) : t[i].current = s[i].current
  BY <1>7, <1>8
<1>3. \A j \in 1 .. Len(s) : PathTo(t, j) = PathTo(s, j)
  <2> TAKE j \in 1 .. Len(s)
  <2>1. \A i \in 1 .. j : t[i].current = s[i].current
    BY <1>1, <1>2
  <2> QED
    BY <2>1 DEF PathTo
<1>4. PathOf(t) = PathOf(s)
  BY <1>1, <1>2 DEF PathOf
<1>5. \A j \in 1 .. Len(s) : j # Len(s) => t[j].had = s[j].had
  BY <1>1
<1>6. t[Len(s)].had = s[Len(s)].had \cup kinds
  BY <1>7, <1>8
<1> QED
  BY <1>1, <1>3, <1>4, <1>5, <1>6 DEF t

\* Opening a namespace.
LEMMA RecordedOnOpen ==
  ASSUME NEW s \in Seq(Block), NEW ns, NEW opens, NEW kinds, Recorded(s, ns, opens, kinds), NEW name \in AnyToken
  PROVE  LET t == Append(s, Opened(name))
         IN  Recorded(t, ns, opens \cup {PathOf(t)}, kinds)
<1> DEFINE t == Append(s, Opened(name))
           now == opens \cup {PathOf(t)}
<1>1. /\ t \in Seq(Block) /\ Len(t) = Len(s) + 1 /\ t[Len(t)] = Opened(name) /\ Len(s) \in Nat
      /\ \A j \in 1 .. Len(s) : t[j] = s[j] /\ PathTo(t, j) = PathTo(s, j)
  BY PathGrows
<1> HIDE DEF t
<1>2. PathOf(t) = PathTo(t, Len(t))
  BY <1>1, PathsDiffer
<1>3. /\ \A j \in 1 .. Len(t) : j \in 1 .. Len(s) \/ j = Len(t)
      /\ \A j \in 1 .. Len(s) : j \in 1 .. Len(t)
      /\ Len(t) \in 1 .. Len(t)
  BY <1>1
<1>4. t[Len(t)].had = {}
  BY <1>1 DEF Opened
<1>5. ASSUME NEW q
      PROVE  q \in now <=> (\E m \in ns : m.name = q) \/ (\E j \in 1 .. Len(t) : PathTo(t, j) = q)
  <2>1. q \in opens <=> (\E m \in ns : m.name = q) \/ (\E j \in 1 .. Len(s) : PathTo(s, j) = q)
    BY DEF Recorded
  <2>2. (\E j \in 1 .. Len(t) : PathTo(t, j) = q) <=> (\E j \in 1 .. Len(s) : PathTo(s, j) = q) \/ PathTo(t, Len(t)) = q
    BY <1>1, <1>3
  <2> QED
    BY <1>2, <2>1, <2>2
<1>6. ASSUME NEW q, NEW kind, q # <<>>
      PROVE  <<q, kind>> \in kinds <=> \/ \E m \in ns : m.name = q /\ kind \in m.had
                                       \/ \E j \in 1 .. Len(t) : PathTo(t, j) = q /\ kind \in t[j].had
  <2>1. <<q, kind>> \in kinds <=> \/ \E m \in ns : m.name = q /\ kind \in m.had
                                  \/ \E j \in 1 .. Len(s) : PathTo(s, j) = q /\ kind \in s[j].had
    BY <1>6 DEF Recorded
  <2>2. (\E j \in 1 .. Len(t) : PathTo(t, j) = q /\ kind \in t[j].had) <=>
        (\E j \in 1 .. Len(s) : PathTo(s, j) = q /\ kind \in s[j].had)
    BY <1>1, <1>3, <1>4
  <2> QED
    BY <2>1, <2>2
<1>7. /\ \A m \in ns : m = [name |-> m.name, had |-> m.had] /\ m.name # <<>>
      /\ \A m, n \in ns : m.name = n.name => m = n
  BY DEF Recorded
<1> HIDE DEF now
<1>8. Recorded(t, ns, now, kinds)
  BY <1>5, <1>6, <1>7, Zenon DEF Recorded
<1> QED
  BY <1>8 DEF t, now

\* Closing one: what was recorded under its name is merged with what it had.
LEMMA ClosedMeans ==
  ASSUME NEW s, NEW ns, NEW m
  PROVE  LET path == PathOf(s)
         IN  /\ m \in Closed(s, ns) /\ m.name # path => m \in ns
             /\ m \in ns /\ m.name # path => m \in Closed(s, ns)
             /\ m \in Closed(s, ns) /\ m.name = path =>
                  /\ m = [name |-> path, had |-> m.had]
                  /\ \A kind : kind \in m.had <=> kind \in Last(s).had \/ \E n \in ns : n.name = path /\ kind \in n.had
             /\ \E n \in Closed(s, ns) : n.name = path
             /\ \A n \in Closed(s, ns) : n.name = path /\ m \in Closed(s, ns) /\ m.name = path => m = n
<1> DEFINE path == PathOf(s)
           same == {n \in ns : n.name = path}
           had == Last(s).had \cup UNION {n.had : n \in same}
           new == [name |-> path, had |-> had]
           after == (ns \ same) \cup {new}
<1>1. Closed(s, ns) = after
  BY DEF Closed
<1>2. \A kind : kind \in had <=> kind \in Last(s).had \/ \E n \in ns : n.name = path /\ kind \in n.had
  <2>1. \A kind : kind \in UNION {n.had : n \in same} <=> \E n \in same : kind \in n.had
    BY Zenon
  <2>2. \A n : n \in same <=> n \in ns /\ n.name = path
    OBVIOUS
  <2> HIDE DEF same
  <2> QED
    BY <2>1, <2>2
<1> HIDE DEF had
<1>3. new.name = path /\ new.had = had /\ new = [name |-> path, had |-> new.had]
  OBVIOUS
<1>4. \A n : n \in same <=> n \in ns /\ n.name = path
  OBVIOUS
<1> HIDE DEF new, same, path
<1>5. \A n : n \in after <=> n = new \/ (n \in ns /\ n.name # path)
  BY <1>4
<1> HIDE DEF after
<1>6. /\ m \in after /\ m.name # path => m \in ns
      /\ m \in ns /\ m.name # path => m \in after
  BY <1>3, <1>5
<1>7. m \in after /\ m.name = path => m = new
  BY <1>5
<1>8. \A n \in after : n.name = path /\ m \in after /\ m.name = path => m = n
  BY <1>5
<1>9. \E n \in after : n.name = path
  BY <1>3, <1>5
<1>10. m \in after /\ m.name = path =>
         /\ m = [name |-> path, had |-> m.had]
         /\ \A kind : kind \in m.had <=> kind \in Last(s).had \/ \E n \in ns : n.name = path /\ kind \in n.had
  BY <1>2, <1>3, <1>7
<1> QED
  BY <1>1, <1>6, <1>8, <1>9, <1>10 DEF path

\* What was opened and declared stays so when a namespace closes.
LEMMA RecordedOnClose ==
  ASSUME NEW s \in Blocks, NEW ns, NEW opens, NEW kinds, Recorded(s, ns, opens, kinds)
  PROVE  Recorded(Front(s), Closed(s, ns), opens, kinds)
<1> DEFINE t == Front(s)
           now == Closed(s, ns)
           path == PathOf(s)
           had == Last(s).had
<1>1. /\ t \in Seq(Block) /\ Len(t) = Len(s) - 1 /\ Len(s) \in Nat \ {0} /\ had = s[Len(s)].had
      /\ \A j \in 1 .. (Len(s) - 1) : t[j] = s[j] /\ PathTo(t, j) = PathTo(s, j)
  BY PathShrinks
<1>2. s \in Seq(Block) /\ s # <<>>
  BY DEF Blocks
<1>3. /\ path = PathTo(s, Len(s)) /\ path # <<>>
      /\ \A i, j \in 1 .. Len(s) : PathTo(s, i) = PathTo(s, j) => i = j
  BY <1>2, PathsDiffer
<1>4. /\ \A j \in 1 .. Len(s) : j \in 1 .. Len(t) \/ j = Len(s)
      /\ \A j \in 1 .. Len(t) : j \in 1 .. Len(s) /\ j # Len(s) /\ j \in 1 .. (Len(s) - 1)
      /\ Len(s) \in 1 .. Len(s)
  BY <1>1
<1>5. \A m : /\ m \in now /\ m.name # path => m \in ns
             /\ m \in ns /\ m.name # path => m \in now
             /\ m \in now /\ m.name = path =>
                  /\ m = [name |-> path, had |-> m.had]
                  /\ \A kind : kind \in m.had <=> kind \in had \/ \E n \in ns : n.name = path /\ kind \in n.had
             /\ \E n \in now : n.name = path
             /\ \A n \in now : n.name = path /\ m \in now /\ m.name = path => m = n
  BY ClosedMeans
<1> HIDE DEF t, now, path, had
<1>6. /\ \A m \in ns : m = [name |-> m.name, had |-> m.had] /\ m.name # <<>>
      /\ \A m, n \in ns : m.name = n.name => m = n
  BY DEF Recorded
<1>7. \A m \in now : m = [name |-> m.name, had |-> m.had] /\ m.name # <<>>
  BY <1>3, <1>5, <1>6
<1>8. \A m, n \in now : m.name = n.name => m = n
  BY <1>5, <1>6
<1>9. ASSUME NEW q
      PROVE  q \in opens <=> (\E m \in now : m.name = q) \/ (\E j \in 1 .. Len(t) : PathTo(t, j) = q)
  <2>1. q \in opens <=> (\E m \in ns : m.name = q) \/ (\E j \in 1 .. Len(s) : PathTo(s, j) = q)
    BY DEF Recorded
  <2>2. (\E j \in 1 .. Len(s) : PathTo(s, j) = q) <=> (\E j \in 1 .. Len(t) : PathTo(t, j) = q) \/ path = q
    BY <1>1, <1>3, <1>4
  <2>3. (\E m \in now : m.name = q) <=> (\E m \in ns : m.name = q) \/ path = q
    BY <1>5
  <2> QED
    BY <2>1, <2>2, <2>3
<1>10. ASSUME NEW q, NEW kind, q # <<>>
       PROVE  <<q, kind>> \in kinds <=> \/ \E m \in now : m.name = q /\ kind \in m.had
                                        \/ \E j \in 1 .. Len(t) : PathTo(t, j) = q /\ kind \in t[j].had
  <2>1. <<q, kind>> \in kinds <=> \/ \E m \in ns : m.name = q /\ kind \in m.had
                                  \/ \E j \in 1 .. Len(s) : PathTo(s, j) = q /\ kind \in s[j].had
    BY <1>10 DEF Recorded
  <2>2. (\E j \in 1 .. Len(s) : PathTo(s, j) = q /\ kind \in s[j].had) <=>
        (\E j \in 1 .. Len(t) : PathTo(t, j) = q /\ kind \in t[j].had) \/ (path = q /\ kind \in had)
    BY <1>1, <1>3, <1>4
  <2>3. (\E m \in now : m.name = q /\ kind \in m.had) <=>
        (\E m \in ns : m.name = q /\ kind \in m.had) \/ (path = q /\ kind \in had)
    BY <1>5
  <2> QED
    BY <2>1, <2>2, <2>3
<1>11. Recorded(t, now, opens, kinds)
  BY <1>7, <1>8, <1>9, <1>10, Zenon DEF Recorded
<1> QED
  BY <1>11 DEF t, now

\* Declaring something in the innermost namespace.
LEMMA RecordedOnDeclare ==
  ASSUME NEW s \in Blocks, NEW ns, NEW opens, NEW kinds, Recorded(s, ns, opens, kinds),
         NEW more \in SUBSET DeclaredKinds
  PROVE  Recorded(Hads(s, more), ns, opens, kinds \cup {<<PathOf(s), kind>> : kind \in more})
<1> DEFINE t == Hads(s, more)
           path == PathOf(s)
           new == {<<path, kind>> : kind \in more}
           now == kinds \cup new
<1>1. /\ t \in Blocks /\ Len(t) = Len(s)
      /\ \A j \in 1 .. Len(s) : PathTo(t, j) = PathTo(s, j)
      /\ \A j \in 1 .. Len(s) : j # Len(s) => t[j].had = s[j].had
      /\ t[Len(s)].had = s[Len(s)].had \cup more
  BY PathStays
<1>2. s \in Seq(Block) /\ s # <<>>
  BY DEF Blocks
<1>3. /\ path = PathTo(s, Len(s))
      /\ \A i, j \in 1 .. Len(s) : PathTo(s, i) = PathTo(s, j) => i = j
  BY <1>2, PathsDiffer
<1>4. Len(s) \in 1 .. Len(s)
  <2>1. Len(s) \in Nat \ {0}
    BY <1>2, EmptySeq
  <2> QED
    BY <2>1
<1>5. \A q, kind : <<q, kind>> \in new <=> q = path /\ kind \in more
  OBVIOUS
<1> HIDE DEF t, path, new
<1>6. ASSUME NEW q
      PROVE  q \in opens <=> (\E m \in ns : m.name = q) \/ (\E j \in 1 .. Len(t) : PathTo(t, j) = q)
  <2>1. q \in opens <=> (\E m \in ns : m.name = q) \/ (\E j \in 1 .. Len(s) : PathTo(s, j) = q)
    BY DEF Recorded
  <2> QED
    BY <1>1, <2>1
<1>7. ASSUME NEW q, NEW kind, q # <<>>
      PROVE  <<q, kind>> \in now <=> \/ \E m \in ns : m.name = q /\ kind \in m.had
                                     \/ \E j \in 1 .. Len(t) : PathTo(t, j) = q /\ kind \in t[j].had
  <2>1. <<q, kind>> \in kinds <=> \/ \E m \in ns : m.name = q /\ kind \in m.had
                                  \/ \E j \in 1 .. Len(s) : PathTo(s, j) = q /\ kind \in s[j].had
    BY <1>7 DEF Recorded
  <2>2. (\E j \in 1 .. Len(t) : PathTo(t, j) = q /\ kind \in t[j].had) <=>
        (\E j \in 1 .. Len(s) : PathTo(s, j) = q /\ kind \in s[j].had) \/ (path = q /\ kind \in more)
    BY <1>1, <1>3, <1>4
  <2>3. <<q, kind>> \in now <=> <<q, kind>> \in kinds \/ (q = path /\ kind \in more)
    BY <1>5
  <2> HIDE DEF now
  <2> QED
    BY <2>1, <2>2, <2>3
<1>8. /\ \A m \in ns : m = [name |-> m.name, had |-> m.had] /\ m.name # <<>>
      /\ \A m, n \in ns : m.name = n.name => m = n
  BY DEF Recorded
<1> HIDE DEF now
<1>9. Recorded(t, ns, opens, now)
  BY <1>6, <1>7, <1>8, Zenon DEF Recorded
<1> QED
  BY <1>9 DEF t, now, new, path

-----------------------------------------------------------------------------
(* The pieces of a text.                                                   *)

\* The namespaces opened by the first of the pieces, and what was declared in them.
OpensTo(pieces, k) == {PathAt(pieces)[i] : i \in {i \in 1 .. k : pieces[i].is = "open"}}
KindsOf(path, x) == {<<path, kind>> : kind \in Declares(x)}
KindsTo(pieces, k) == UNION {KindsOf(PathAt(pieces)[i], pieces[i]) : i \in 1 .. k}

\* A parser between two pieces.
Reading(p, path, opens, kinds) ==
    \E s, ns : /\ s \in Seq(Block) /\ PathOf(s) = path
               /\ Ready(p, "normal", NoNames, s, ns) /\ Recorded(s, ns, opens, kinds)

\* The kinds of a piece are kinds, and only declarations and directives have any.
LEMMA PieceKinds ==
  ASSUME NEW x, IsPiece(x)
  PROVE  /\ x.is \in {"open", "close"} => Declares(x) = {}
         /\ Declares(x) \in SUBSET DeclaredKinds
         /\ x.is \notin {"open", "close", "directive"} => IsDeclaration(x) /\ IsTemplate(x.template)
<1>1. x.is \notin {"open", "close", "directive"} => IsDeclaration(x) /\ IsTemplate(x.template)
  BY PiecesMean
<1>2. IsDeclaration(x) => x.is \in {"class", "forward", "using", "declaration", "function", "value"}
  BY DeclarationsMean
<1>3. x.is \in {"open", "close"} => Declares(x) = {}
  BY DeclaresMeans
<1> QED
  BY <1>1, <1>2, <1>3, KindsDeclared

\* A piece is read: the parser records what the piece declares.
LEMMA PieceIsRead ==
  ASSUME NEW p, NEW path, NEW opens, NEW kinds, Reading(p, path, opens, kinds),
         NEW x, IsPiece(x), x.is \notin {"open", "directive"} => path # <<>>,
         NEW after, after = PathOn(path, x),
         NEW now, x.is = "open" => now = opens \cup {after}, x.is # "open" => now = opens
  PROVE  /\ TextOfPiece(x) \in Seq(AnyToken)
         /\ Reading(Reads(p, TextOfPiece(x)), after, now, kinds \cup KindsOf(after, x))
<1> DEFINE text == TextOfPiece(x)
           q == Reads(p, text)
           more == Declares(x)
<1>1. PICK s, ns : /\ s \in Seq(Block) /\ PathOf(s) = path
                   /\ Ready(p, "normal", NoNames, s, ns) /\ Recorded(s, ns, opens, kinds)
  BY DEF Reading
<1>2. /\ x.is \in {"open", "close"} => more = {}
      /\ more \in SUBSET DeclaredKinds
      /\ x.is \notin {"open", "close", "directive"} => IsDeclaration(x) /\ IsTemplate(x.template)
  BY PieceKinds
<1>3. more = {} => kinds \cup KindsOf(after, x) = kinds
  BY DEF KindsOf
<1>4. path = <<>> <=> s = <<>>
  BY <1>1, PathsDiffer
<1>5. after = IF x.is = "open" THEN Append(path, NameOf(x)) ELSE IF x.is = "close" THEN Front(path) ELSE path
  BY OpensMean
<1>6. CASE x.is = "open"
  <2> DEFINE t == Append(s, Opened(NameOf(x)))
  <2>1. text \in Seq(AnyToken) /\ NameOf(x) \in AnyToken /\ Ready(q, "normal", NoNames, t, ns)
    BY <1>1, <1>6, OpenIsRead
  <2>2. t \in Seq(Block) /\ PathOf(t) = Append(PathOf(s), NameOf(x))
    BY <1>1, <2>1, PathGrows
  <2>3. Recorded(t, ns, opens \cup {PathOf(t)}, kinds)
    BY <1>1, <2>1, RecordedOnOpen
  <2> HIDE DEF t, text, q, more
  <2>4. PathOf(t) = after
    BY <1>1, <1>5, <1>6, <2>2
  <2>5. Recorded(t, ns, now, kinds \cup KindsOf(after, x))
    BY <1>2, <1>3, <1>6, <2>3, <2>4
  <2> QED
    BY <2>1, <2>2, <2>4, <2>5 DEF Reading, text, q
<1>7. CASE x.is = "close"
  <2> DEFINE t == Front(s)
             ms == Closed(s, ns)
  <2>1. s \in Blocks
    BY <1>1, <1>4, <1>7 DEF Blocks
  <2>2. text \in Seq(AnyToken) /\ Ready(q, "normal", NoNames, t, ms)
    BY <1>1, <1>7, <2>1, CloseIsRead
  <2>3. t \in Seq(Block) /\ PathOf(t) = Front(PathOf(s))
    BY <2>1, PathShrinks
  <2>4. Recorded(t, ms, opens, kinds)
    BY <1>1, <2>1, RecordedOnClose
  <2> HIDE DEF t, text, q, more, ms
  <2>5. PathOf(t) = after
    BY <1>1, <1>5, <1>7, <2>3
  <2>6. Recorded(t, ms, now, kinds \cup KindsOf(after, x))
    BY <1>2, <1>3, <1>7, <2>4
  <2> QED
    BY <2>2, <2>3, <2>5, <2>6 DEF Reading, text, q
<1>8. after = path /\ now = opens => kinds \cup KindsOf(after, x) = kinds \cup {<<PathOf(s), kind>> : kind \in more}
  BY <1>1 DEF KindsOf
<1>9. ASSUME text \in Seq(AnyToken), s \in Blocks, x.is \notin {"open", "close"}, Ready(q, "normal", NoNames, Hads(s, more), ns)
      PROVE  text \in Seq(AnyToken) /\ Reading(q, after, now, kinds \cup KindsOf(after, x))
  <2> DEFINE t == Hads(s, more)
  <2>1. t \in Blocks /\ PathOf(t) = PathOf(s)
    BY <1>2, <1>9, PathStays
  <2>2. Recorded(t, ns, opens, kinds \cup {<<PathOf(s), kind>> : kind \in more})
    BY <1>1, <1>2, <1>9, RecordedOnDeclare
  <2>3. Ready(q, "normal", NoNames, t, ns)
    BY <1>9
  <2> HIDE DEF t, text, q, more
  <2>4. PathOf(t) = after /\ now = opens /\ after = path
    BY <1>1, <1>5, <1>9, <2>1
  <2>5. t \in Seq(Block)
    BY <2>1 DEF Blocks
  <2>6. Recorded(t, ns, now, kinds \cup KindsOf(after, x))
    BY <1>8, <2>2, <2>4
  <2> QED
    BY <1>9, <2>3, <2>4, <2>5, <2>6 DEF Reading
<1>10. CASE x.is = "directive"
  <2>1. /\ text \in Seq(AnyToken)
        /\ s = <<>> => Ready(q, "normal", NoNames, s, ns)
        /\ s # <<>> => Ready(q, "normal", NoNames, Hads(s, more), ns)
    BY <1>1, <1>10, DirectiveIsRead
  <2>2. CASE s # <<>>
    <3>1. s \in Blocks
      BY <1>1, <2>2 DEF Blocks
    <3> QED
      BY <1>9, <1>10, <2>1, <2>2, <3>1
  <2>3. CASE s = <<>>
    <3>1. after = path /\ now = opens /\ path = <<>>
      BY <1>4, <1>5, <1>10, <2>3
    <3>2. Recorded(s, ns, opens, kinds \cup KindsOf(after, x))
      <4> DEFINE new == kinds \cup KindsOf(after, x)
      <4>1. \A r, kind : r # <<>> => (<<r, kind>> \in new <=> <<r, kind>> \in kinds)
        BY <3>1 DEF KindsOf
      <4> HIDE DEF new
      <4>2. Recorded(s, ns, opens, new)
        BY <1>1, <4>1 DEF Recorded
      <4> QED
        BY <4>2 DEF new
    <3> HIDE DEF text, q
    <3> QED
      BY <1>1, <2>1, <2>3, <3>1, <3>2 DEF Reading, text, q
  <2> QED
    BY <2>2, <2>3
<1>11. CASE x.is \notin {"open", "close", "directive"}
  <2>1. s \in Blocks /\ IsDeclaration(x) /\ IsTemplate(x.template)
    BY <1>1, <1>2, <1>4, <1>11 DEF Blocks
  <2>2. text \in Seq(AnyToken) /\ Ready(q, "normal", NoNames, Hads(s, more), ns)
    BY <1>1, <2>1, DeclarationIsRead
  <2> QED
    BY <1>9, <1>11, <2>1, <2>2
<1> QED
  BY <1>6, <1>7, <1>10, <1>11

\* At the start nothing is recorded.
LEMMA NewParserReads == Reading(NewParser, <<>>, {}, {})
<1>1. NewParser =
    [mode |-> "normal", part |-> NoWord, stack |-> <<>>, angles |-> 0, hadClass |-> FALSE,
     instantiation |-> FALSE, hadParens |-> FALSE, braces |-> 0, colonBraces |-> 0,
     parens |-> 0, names |-> NoNames, callback |-> "none", keepsNames |-> FALSE,
     operator |-> NoWord, namespaces |-> {}, templateErrors |-> 0, errors |-> {},
     end |-> "running"]
  BY Zenon DEF NewParser, NoWord
<1>2. Ready(NewParser, "normal", NoNames, <<>>, {})
  BY <1>1 DEF Ready, Parses, ParserFields
<1>3. <<>> \in Seq(Block) /\ PathOf(<<>>) = <<>> /\ Len(<<>>) = 0
  BY DEF PathOf
<1>4. Recorded(<<>>, {}, {}, {})
  BY <1>3 DEF Recorded
<1> QED
  BY <1>2, <1>3, <1>4 DEF Reading

Texts(pieces) == [i \in DOMAIN pieces |-> TextOfPiece(pieces[i])]

\* What a text is, piece by piece.
LEMMA TextsFollow ==
  ASSUME NEW pieces, IsText(pieces)
  PROVE  /\ Len(pieces) \in Nat /\ Len(Texts(pieces)) = Len(pieces)
         /\ TextOfPieces(pieces) = JoinedTo(Texts(pieces))[Len(pieces)]
         /\ JoinedTo(Texts(pieces))[0] = <<>> /\ PathAt(pieces)[0] = <<>> /\ PathAt(pieces)[Len(pieces)] = <<>>
         /\ \A k \in Nat : k + 1 <= Len(pieces) =>
              /\ JoinedTo(Texts(pieces))[k + 1] = JoinedTo(Texts(pieces))[k] \o TextOfPiece(pieces[k + 1])
              /\ PathAt(pieces)[k + 1] = PathOn(PathAt(pieces)[k], pieces[k + 1])
              /\ IsPiece(pieces[k + 1])
              /\ pieces[k + 1].is \notin {"open", "directive"} => PathAt(pieces)[k] # <<>>
<1> DEFINE n == Len(pieces)
           path == PathAt(pieces)
           texts == Texts(pieces)
<1>1. /\ n \in Nat /\ DOMAIN pieces = 1 .. n /\ path[n] = <<>>
      /\ \A i \in 1 .. n : IsPiece(pieces[i]) /\ (pieces[i].is \notin {"open", "directive"} => path[i - 1] # <<>>)
  BY DEF IsText
<1>2. Len(texts) = n /\ \A i \in 1 .. n : texts[i] = TextOfPiece(pieces[i])
  BY <1>1 DEF Texts
<1>3. TextOfPieces(pieces) = Joined(texts)
  BY DEF TextOfPieces, Texts
<1>4. /\ path[0] = <<>>
      /\ \A i \in 1 .. n : path[i] = PathOn(path[i - 1], pieces[i])
  BY <1>1, PathsFollow
<1> HIDE DEF texts, path
<1>5. /\ Joined(texts) = JoinedTo(texts)[Len(texts)] /\ JoinedTo(texts)[0] = <<>>
      /\ \A k \in Nat : k + 1 <= Len(texts) => JoinedTo(texts)[k + 1] = JoinedTo(texts)[k] \o texts[k + 1]
  BY <1>1, <1>2, JoinedMeans
<1> HIDE DEF n
<1>6. ASSUME NEW k \in Nat, k + 1 <= n
      PROVE  /\ JoinedTo(texts)[k + 1] = JoinedTo(texts)[k] \o TextOfPiece(pieces[k + 1])
             /\ path[k + 1] = PathOn(path[k], pieces[k + 1])
             /\ IsPiece(pieces[k + 1])
             /\ pieces[k + 1].is \notin {"open", "directive"} => path[k] # <<>>
  <2> DEFINE i == k + 1
  <2>1. i \in 1 .. n /\ i - 1 = k
    BY <1>1, <1>6
  <2>2. JoinedTo(texts)[k + 1] = JoinedTo(texts)[k] \o texts[k + 1]
    BY <1>2, <1>5, <1>6
  <2> HIDE DEF i
  <2>3. /\ path[i] = PathOn(path[k], pieces[i]) /\ IsPiece(pieces[i])
        /\ pieces[i].is \notin {"open", "directive"} => path[k] # <<>>
    BY <1>1, <1>4, <2>1
  <2>4. texts[i] = TextOfPiece(pieces[i])
    BY <1>2, <2>1
  <2> QED
    BY <2>2, <2>3, <2>4 DEF i
<1>7. TextOfPieces(pieces) = JoinedTo(texts)[n]
  BY <1>2, <1>3, <1>5
<1> QED
  BY <1>1, <1>2, <1>4, <1>5, <1>6, <1>7 DEF n, path, texts

\* One piece more.
LEMMA OpensFollow ==
  ASSUME NEW pieces, NEW k \in Nat
  PROVE  /\ OpensTo(pieces, 0) = {} /\ KindsTo(pieces, 0) = {}
         /\ pieces[k + 1].is = "open" => OpensTo(pieces, k + 1) = OpensTo(pieces, k) \cup {PathAt(pieces)[k + 1]}
         /\ pieces[k + 1].is # "open" => OpensTo(pieces, k + 1) = OpensTo(pieces, k)
         /\ KindsTo(pieces, k + 1) = KindsTo(pieces, k) \cup KindsOf(PathAt(pieces)[k + 1], pieces[k + 1])
<1>1. /\ \A i \in 1 .. (k + 1) : i \in 1 .. k \/ i = k + 1
      /\ \A i \in 1 .. k : i \in 1 .. (k + 1)
      /\ k + 1 \in 1 .. (k + 1) /\ 1 .. 0 = {}
  OBVIOUS
<1> DEFINE Of(i) == KindsOf(PathAt(pieces)[i], pieces[i])
<1>2. \A j : OpensTo(pieces, j) = {PathAt(pieces)[i] : i \in {i \in 1 .. j : pieces[i].is = "open"}}
  BY DEF OpensTo
<1>3. \A j : KindsTo(pieces, j) = UNION {Of(i) : i \in 1 .. j}
  BY DEF KindsTo
<1> HIDE DEF Of
<1>4. \A j, q : q \in OpensTo(pieces, j) <=> \E i \in 1 .. j : pieces[i].is = "open" /\ PathAt(pieces)[i] = q
  BY <1>2
<1>5. \A j, pair : pair \in KindsTo(pieces, j) <=> \E i \in 1 .. j : pair \in Of(i)
  <2> TAKE j, pair
  <2>1. pair \in UNION {Of(i) : i \in 1 .. j} <=> \E i \in 1 .. j : pair \in Of(i)
    BY Zenon
  <2> QED
    BY <1>3, <2>1
<1>6. \A pair : pair \in KindsTo(pieces, k + 1) <=> pair \in KindsTo(pieces, k) \/ pair \in Of(k + 1)
  BY <1>1, <1>5
<1>7. \A q : q \in OpensTo(pieces, k + 1) <=>
             q \in OpensTo(pieces, k) \/ (pieces[k + 1].is = "open" /\ PathAt(pieces)[k + 1] = q)
  BY <1>1, <1>4
<1>8. OpensTo(pieces, 0) = {} /\ KindsTo(pieces, 0) = {}
  BY <1>1, <1>4, <1>5
<1>9. KindsTo(pieces, k + 1) = KindsTo(pieces, k) \cup Of(k + 1)
  <2> DEFINE a == KindsTo(pieces, k + 1)
             b == KindsTo(pieces, k)
             c == Of(k + 1)
  <2>1. \A pair : pair \in a <=> pair \in b \/ pair \in c
    BY <1>6
  <2> HIDE DEF a, b, c
  <2>2. a = b \cup c
    BY <2>1
  <2> QED
    BY <2>2 DEF a, b, c
<1> HIDE DEF OpensTo
<1>10. pieces[k + 1].is = "open" => OpensTo(pieces, k + 1) = OpensTo(pieces, k) \cup {PathAt(pieces)[k + 1]}
  BY <1>7
<1>11. pieces[k + 1].is # "open" => OpensTo(pieces, k + 1) = OpensTo(pieces, k)
  BY <1>7
<1> QED
  BY <1>8, <1>9, <1>10, <1>11 DEF Of

\* All pieces of a text are read.
LEMMA PiecesAreRead ==
  ASSUME NEW pieces, IsText(pieces), NEW n, n = Len(pieces)
  PROVE  /\ TextOfPieces(pieces) \in Seq(AnyToken)
         /\ Reading(Reads(NewParser, TextOfPieces(pieces)), <<>>, OpensTo(pieces, n), KindsTo(pieces, n))
<1> DEFINE text == JoinedTo(Texts(pieces))
           path == PathAt(pieces)
           Read(k) == /\ text[k] \in Seq(AnyToken)
                      /\ Reading(Reads(NewParser, text[k]), path[k], OpensTo(pieces, k), KindsTo(pieces, k))
           S == {k \in 0 .. n : Read(k)}
<1>1. /\ n \in Nat
      /\ TextOfPieces(pieces) = text[n]
      /\ text[0] = <<>> /\ path[0] = <<>> /\ path[n] = <<>>
      /\ \A k \in Nat : k + 1 <= n =>
              /\ text[k + 1] = text[k] \o TextOfPiece(pieces[k + 1])
              /\ path[k + 1] = PathOn(path[k], pieces[k + 1])
              /\ IsPiece(pieces[k + 1])
              /\ pieces[k + 1].is \notin {"open", "directive"} => path[k] # <<>>
  BY TextsFollow
<1> HIDE DEF text, path
<1>2. 0 \in S
  <2>1. OpensTo(pieces, 0) = {} /\ KindsTo(pieces, 0) = {}
    BY OpensFollow
  <2>2. Reads(NewParser, text[0]) = NewParser /\ text[0] \in Seq(AnyToken)
    BY <1>1, ReadsNothing
  <2>3. Read(0)
    BY <1>1, <2>1, <2>2, NewParserReads
  <2> HIDE DEF Read
  <2> QED
    BY <1>1, <2>3
<1>3. ASSUME NEW k \in Nat, k + 1 <= n, k \in S PROVE k + 1 \in S
  <2> DEFINE x == pieces[k + 1]
             before == text[k]
             p == Reads(NewParser, before)
             after == path[k + 1]
             now == OpensTo(pieces, k + 1)
             then == KindsTo(pieces, k + 1)
             opens == OpensTo(pieces, k)
             kinds == KindsTo(pieces, k)
             here == path[k]
  <2>1. before \in Seq(AnyToken) /\ Reading(p, here, opens, kinds)
    BY <1>3
  <2>2. /\ text[k + 1] = before \o TextOfPiece(x) /\ after = PathOn(here, x) /\ IsPiece(x)
        /\ x.is \notin {"open", "directive"} => here # <<>>
    BY <1>1, <1>3
  <2>3. (x.is = "open" => now = opens \cup {after}) /\ (x.is # "open" => now = opens)
    BY OpensFollow DEF path
  <2>8. then = kinds \cup KindsOf(after, x)
    BY OpensFollow DEF path
  <2> HIDE DEF x, p, after, now, then, opens, kinds, here, before
  <2>4. TextOfPiece(x) \in Seq(AnyToken) /\ Reading(Reads(p, TextOfPiece(x)), after, now, kinds \cup KindsOf(after, x))
    <3>1. Reading(p, here, opens, kinds)
      BY <2>1
    <3>2. IsPiece(x) /\ after = PathOn(here, x) /\ (x.is \notin {"open", "directive"} => here # <<>>)
      BY <2>2
    <3> QED
      BY <2>3, <3>1, <3>2, PieceIsRead
  <2>5. /\ before \o TextOfPiece(x) \in Seq(AnyToken)
        /\ Reads(NewParser, before \o TextOfPiece(x)) = Reads(p, TextOfPiece(x))
    BY <2>1, <2>4, MoreTokens DEF p
  <2>6. Reading(Reads(NewParser, text[k + 1]), after, now, then)
    BY <2>2, <2>4, <2>5, <2>8
  <2>7. Read(k + 1)
    BY <2>2, <2>5, <2>6 DEF after, now, then
  <2> HIDE DEF Read
  <2> QED
    BY <1>1, <1>3, <2>7
<1> HIDE DEF S
<1>4. n \in S
  BY <1>1, <1>2, <1>3, CountingUpTo
<1> QED
  BY <1>1, <1>4 DEF S

\* What was declared in a namespace, from what was declared in each.
LEMMA DeclaredIn ==
  ASSUME NEW pieces, NEW n, NEW q
  PROVE  LET had == UNION {Declares(pieces[j]) : j \in {j \in 1 .. n : PathAt(pieces)[j] = q}}
         IN  \A kind : kind \in had <=> <<q, kind>> \in KindsTo(pieces, n)
<1> DEFINE path == PathAt(pieces)
           places == {j \in 1 .. n : path[j] = q}
           had == UNION {Declares(pieces[j]) : j \in places}
<1>1. ASSUME NEW kind PROVE kind \in had <=> \E j \in places : kind \in Declares(pieces[j])
  <2> HIDE DEF places
  <2> QED
    BY Zenon
<1>2. ASSUME NEW kind
      PROVE  <<q, kind>> \in KindsTo(pieces, n) <=> \E j \in 1 .. n : <<q, kind>> \in KindsOf(path[j], pieces[j])
  <2> HIDE DEF path
  <2>1. KindsTo(pieces, n) = UNION {KindsOf(path[i], pieces[i]) : i \in 1 .. n}
    BY DEF KindsTo, path
  <2> DEFINE pair == <<q, kind>>
  <2> HIDE DEF pair
  <2>2. pair \in UNION {KindsOf(path[i], pieces[i]) : i \in 1 .. n} <=>
        \E j \in 1 .. n : pair \in KindsOf(path[j], pieces[j])
    BY Zenon
  <2> QED
    BY <2>1, <2>2 DEF pair
<1>3. ASSUME NEW kind, NEW j PROVE <<q, kind>> \in KindsOf(path[j], pieces[j]) <=> path[j] = q /\ kind \in Declares(pieces[j])
  BY DEF KindsOf
<1>4. \A j : j \in places <=> j \in 1 .. n /\ path[j] = q
  OBVIOUS
<1> HIDE DEF had, places, path
<1>5. \A kind : kind \in had <=> <<q, kind>> \in KindsTo(pieces, n)
  BY <1>1, <1>2, <1>3, <1>4
<1> QED
  BY <1>5 DEF had, places, path

\* The namespaces that were recorded at the end of a text are those it declares.
LEMMA RecordedAtTheEnd ==
  ASSUME NEW pieces, NEW n, n = Len(pieces), DOMAIN pieces = 1 .. n,
         NEW ns, Recorded(<<>>, ns, OpensTo(pieces, n), KindsTo(pieces, n))
  PROVE  ns = Declared(pieces)
<1> DEFINE path == PathAt(pieces)
           opens == OpensTo(pieces, n)
           kinds == KindsTo(pieces, n)
           HadIn(q) == UNION {Declares(pieces[j]) : j \in {j \in 1 .. n : path[j] = q}}
           Of(q) == [name |-> q, had |-> HadIn(q)]
<1>1. Len(<<>>) = 0 /\ 1 .. 0 = {}
  OBVIOUS
<1>2. /\ \A m \in ns : m = [name |-> m.name, had |-> m.had] /\ m.name # <<>>
      /\ \A m, k \in ns : m.name = k.name => m = k
      /\ \A q : q \in opens <=> \E m \in ns : m.name = q
      /\ \A q, kind : q # <<>> => (<<q, kind>> \in kinds <=> \E m \in ns : m.name = q /\ kind \in m.had)
  <2> HIDE DEF opens, kinds
  <2>1. Recorded(<<>>, ns, opens, kinds)
    BY DEF opens, kinds
  <2>2. \A j : ~(j \in 1 .. Len(<<>>))
    BY <1>1
  <2> QED
    BY <2>1, <2>2 DEF Recorded
<1>3. Declared(pieces) = {Of(q) : q \in opens}
  <2>1. Declared(pieces) = {Of(path[i]) : i \in {i \in 1 .. n : pieces[i].is = "open"}}
    BY DEF Declared
  <2>2. opens = {path[i] : i \in {i \in 1 .. n : pieces[i].is = "open"}}
    BY DEF OpensTo
  <2> DEFINE places == {i \in 1 .. n : pieces[i].is = "open"}
  <2> HIDE DEF Of, opens, path, places
  <2>3. {Of(path[i]) : i \in places} = {Of(q) : q \in {path[i] : i \in places}}
    OBVIOUS
  <2> QED
    BY <2>1, <2>2, <2>3 DEF places
<1>4. ASSUME NEW q PROVE \A kind : kind \in HadIn(q) <=> <<q, kind>> \in kinds
  BY DeclaredIn
<1> HIDE DEF opens, kinds, HadIn
<1>5. ASSUME NEW m \in ns PROVE m = Of(m.name) /\ m.name \in opens
  <2>1. \A kind : kind \in m.had <=> \E k \in ns : k.name = m.name /\ kind \in k.had
    BY <1>2
  <2>2. m.name # <<>> /\ m.name \in opens
    BY <1>2
  <2>3. \A kind : <<m.name, kind>> \in kinds <=> \E k \in ns : k.name = m.name /\ kind \in k.had
    BY <1>2, <2>2
  <2>4. \A kind : kind \in m.had <=> kind \in HadIn(m.name)
    BY <1>4, <2>1, <2>3
  <2> DEFINE a == m.had
             b == HadIn(m.name)
  <2>5. a = b
    <3> HIDE DEF a, b
    <3>1. \A kind : kind \in a <=> kind \in b
      BY <2>4 DEF a, b
    <3> QED
      BY <3>1
  <2>6. m = [name |-> m.name, had |-> m.had]
    BY <1>2
  <2> QED
    BY <2>2, <2>5, <2>6
<1>6. ASSUME NEW q \in opens PROVE Of(q) \in ns
  <2>1. PICK m \in ns : m.name = q
    BY <1>2
  <2>2. m = Of(m.name)
    BY <1>5
  <2> QED
    BY <2>1, <2>2
<1> HIDE DEF Of
<1>7. ns = {Of(q) : q \in opens}
  BY <1>5, <1>6
<1> QED
  BY <1>3, <1>7

\* The namespaces the parser finds in a text are those the text declares.
THEOREM TextIsParsed ==
  ASSUME NEW pieces, IsText(pieces)
  PROVE  LET p == ParserEnd(Reads(NewParser, TextOfPieces(pieces)))
         IN  p.end = "read" /\ p.namespaces = Declared(pieces)
<1> DEFINE n == Len(pieces)
           q == Reads(NewParser, TextOfPieces(pieces))
<1>1. Reading(q, <<>>, OpensTo(pieces, n), KindsTo(pieces, n))
  BY PiecesAreRead
<1>2. PICK s, ns : /\ s \in Seq(Block) /\ PathOf(s) = <<>>
                   /\ Ready(q, "normal", NoNames, s, ns) /\ Recorded(s, ns, OpensTo(pieces, n), KindsTo(pieces, n))
  BY <1>1 DEF Reading
<1>3. s = <<>>
  BY <1>2, PathsDiffer
<1>4. DOMAIN pieces = 1 .. n
  BY DEF IsText
<1>5. ns = Declared(pieces)
  BY <1>2, <1>3, <1>4, RecordedAtTheEnd
<1>6. q.end = "running" /\ q.mode = "normal" /\ q.namespaces = ns /\ DOMAIN q = ParserFields
  BY <1>2 DEF Ready, Parses
<1> HIDE DEF q
<1>7. ParserEnd(q) = [q EXCEPT !.end = "read"]
  BY <1>6, Zenon DEF ParserEnd
<1> QED
  BY <1>5, <1>6, <1>7 DEF q, ParserFields

-----------------------------------------------------------------------------
(* The names of namespaces.                                                *)

\* The names of declared namespaces are paths.
LEMMA DeclaredNames ==
  ASSUME NEW pieces, IsText(pieces), NEW m \in Declared(pieces)
  PROVE  m.name \in Seq(AnyToken) /\ m.name # <<>>
<1> DEFINE path == PathAt(pieces)
           n == Len(pieces)
           S == {k \in 0 .. n : path[k] \in Seq(AnyToken)}
<1>1. /\ n \in Nat /\ path[0] = <<>>
      /\ \A k \in Nat : k + 1 <= n =>
              /\ path[k + 1] = PathOn(path[k], pieces[k + 1])
              /\ IsPiece(pieces[k + 1])
              /\ pieces[k + 1].is \notin {"open", "directive"} => path[k] # <<>>
  BY TextsFollow
<1>2. ASSUME NEW k \in Nat, k + 1 <= n, path[k] \in Seq(AnyToken)
      PROVE  path[k + 1] \in Seq(AnyToken) /\ (pieces[k + 1].is = "open" => path[k + 1] # <<>>)
  <2> DEFINE x == pieces[k + 1]
             here == path[k]
             after == path[k + 1]
  <2>1. after = PathOn(here, x) /\ IsPiece(x) /\ (x.is \notin {"open", "directive"} => here # <<>>)
    BY <1>1, <1>2
  <2>2. PathOn(here, x) = IF x.is = "open" THEN Append(here, NameOf(x))
                          ELSE IF x.is = "close" THEN Front(here) ELSE here
    BY OpensMean
  <2>3. x.is = "open" => NameOf(x) \in AnyToken
    <3>1. x.is = "open" => x.name = NoWord \/ x.name \in AnyToken
      BY <2>1, PiecesMean, TokensAre
    <3>2. "<anon>" \in AnyToken
      BY TokensAre
    <3> QED
      BY <3>1, <3>2 DEF NameOf
  <2>4. here \in Seq(AnyToken)
    BY <1>2
  <2> HIDE DEF x, here, after
  <2>5. x.is = "close" => Front(here) \in Seq(AnyToken)
    <3> SUFFICES ASSUME x.is = "close" PROVE Front(here) \in Seq(AnyToken)
      OBVIOUS
    <3>1. here # <<>>
      BY <2>1
    <3>2. Len(here) \in Nat \ {0}
      BY <2>4, <3>1, EmptySeq
    <3>3. \A i \in 1 .. (Len(here) - 1) : here[i] \in AnyToken
      BY <2>4, <3>2
    <3>4. SubSeq(here, 1, Len(here) - 1) \in Seq(AnyToken)
      BY <3>2, <3>3, SubSeqProperties
    <3> QED
      BY <3>4 DEF Front
  <2>6. x.is = "open" => Append(here, NameOf(x)) \in Seq(AnyToken) /\ Append(here, NameOf(x)) # <<>>
    <3> SUFFICES ASSUME x.is = "open"
                 PROVE  Append(here, NameOf(x)) \in Seq(AnyToken) /\ Append(here, NameOf(x)) # <<>>
      OBVIOUS
    <3> DEFINE name == NameOf(x)
    <3>1. name \in AnyToken
      BY <2>3
    <3> HIDE DEF name
    <3>2. Append(here, name) \in Seq(AnyToken) /\ Append(here, name) # <<>>
      BY <2>4, <3>1, AppendProperties
    <3> QED
      BY <3>2 DEF name
  <2>7. after \in Seq(AnyToken) /\ (x.is = "open" => after # <<>>)
    BY <2>1, <2>2, <2>4, <2>5, <2>6
  <2> QED
    BY <2>7 DEF x, after
<1>3. \A k \in 0 .. n : path[k] \in Seq(AnyToken)
  <2>1. ASSUME NEW k \in 0 .. n PROVE k \in S
    <3>1. 0 \in S
      <4>1. 0 \in 0 .. n
        BY <1>1
      <4>2. <<>> \in Seq(AnyToken)
        OBVIOUS
      <4> QED
        BY <1>1, <4>1, <4>2, Zenon
    <3>2. ASSUME NEW j \in Nat, j + 1 <= k, j \in S PROVE j + 1 \in S
      <4>1. j + 1 <= n /\ j + 1 \in 0 .. n
        BY <1>1, <3>2
      <4> QED
        BY <1>2, <3>2, <4>1
    <3> HIDE DEF S
    <3>3. k \in Nat
      BY <1>1
    <3> QED
      BY <3>1, <3>2, <3>3, CountingUpTo
  <2> QED
    BY <2>1
<1>4. PICK i \in {i \in DOMAIN pieces : pieces[i].is = "open"} : m.name = path[i]
  BY DEF Declared
<1>5. i \in 1 .. n /\ pieces[i].is = "open"
  BY <1>4 DEF IsText
<1> DEFINE k == i - 1
<1>6. k \in Nat /\ k + 1 <= n /\ k \in 0 .. n /\ k + 1 = i
  BY <1>1, <1>5
<1> HIDE DEF path, n, k
<1>7. path[k + 1] \in Seq(AnyToken) /\ (pieces[k + 1].is = "open" => path[k + 1] # <<>>)
  BY <1>2, <1>3, <1>6
<1> QED
  BY <1>4, <1>5, <1>6, <1>7
=============================================================================
