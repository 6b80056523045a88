----------------------------- MODULE NamespaceText -----------------------------
(***************************************************************************)
(* C++ as the namespace parser of the linter expects it (Parser.py), apart *)
(* from how the parser reads it: a text is a list of pieces that open and  *)
(* close namespaces and, inside of them, declare something.  Declared says *)
(* which namespaces a text has and which kinds of declarations are in them. *)
(*                                                                         *)
(* A piece is a record: is, what it is, and the texts it is made of.       *)
(***************************************************************************)
EXTENDS NamespacesParser

\* The first sequences of a list as one, for each number of them, and all of them.
JoinedTo(list) ==
    LET joined[i \in 0 .. Len(list)] == IF i = 0 THEN <<>> ELSE joined[i - 1] \o list[i]
    IN  joined
Joined(list) == JoinedTo(list)[Len(list)]

\* How many brackets are open after each token.
Weight(tok, open, close) == IF tok = open THEN 1 ELSE IF tok = close THEN -1 ELSE 0
Nesting(toks, open, close) ==
    LET nesting[i \in 0 .. Len(toks)] ==
            IF i = 0 THEN 0 ELSE nesting[i - 1] + Weight(toks[i], open, close)
    IN  nesting

Balanced(toks, open, close) ==
    /\ toks \in Seq(STRING)
    /\ Nesting(toks, open, close)[Len(toks)] = 0
    /\ \A i \in 0 .. Len(toks) : Nesting(toks, open, close)[i] >= 0

NoneOf(toks, kinds) == toks \in Seq(STRING) /\ ToSet(toks) \cap kinds = {}

\* Words and punctuation that neither start nor end a part of a declaration.
NotPlain ==
    ClassKeys \cup Foreign \cup Directives \cup
    {"namespace", "template", "enum", "using", "operator", "(", "{", "}", ";", "=", "<", "'C'", ""}

\* What a function or variable is declared with: words, arguments in parentheses, arguments
\* of a template, an operator with its arguments.
IsOperator(op) ==
    \/ Len(op) = 1 /\ op[1] \in DOMAIN Optional \cup {"*"}
    \/ Len(op) = 2 /\ \/ op[1] \in DOMAIN Required /\ op[2] = Required[op[1]]
                      \/ op[1] \in DOMAIN Optional /\ op[2] \in Optional[op[1]]

IsPart(part) ==
    \/ part.is = "words" /\ NoneOf(part.toks, NotPlain)
    \/ part.is = "parens" /\ Balanced(part.toks, "(", ")")
    \/ part.is = "angles" /\ Balanced(part.toks, "<", ">") /\ NoneOf(part.toks, ClassKeys \cup {"(", ")"})
    \/ /\ part.is = "operator" /\ Balanced(part.toks, "(", ")")
       /\ part.op \in Seq(STRING) /\ IsOperator(part.op)

TextOfPart(part) ==
    CASE part.is = "words" -> part.toks
      [] part.is = "parens" -> <<"(">> \o part.toks \o <<")">>
      [] part.is = "angles" -> <<"<">> \o part.toks \o <<">">>
      [] part.is = "operator" -> <<"operator">> \o part.op \o <<"(">> \o part.toks \o <<")">>

TextOfParts(parts) == Joined([i \in DOMAIN parts |-> TextOfPart(parts[i])])
FirstWord(parts) == TextOfParts(parts)[1]

Calls(parts) == {i \in DOMAIN parts : parts[i].is \in {"parens", "operator"}}

AreParts(parts) ==
    /\ DOMAIN parts = 1 .. Len(parts) /\ Len(parts) \in Nat \ {0}
    /\ \A i \in DOMAIN parts : IsPart(parts[i])
    /\ parts[1].is = "operator" \/ (parts[1].is = "words" /\ parts[1].toks # <<>>)

\* Declarations.  An argument list of template comes first, if any.
IsDeclaration(d) ==
    \/ /\ d.is \in {"class", "forward"} /\ d.key \in ClassKeys \cup {"enum"}
       /\ NoneOf(d.head, {"{", ";"}) /\ (d.is = "class" => Balanced(d.body, "{", "}"))
    \/ /\ d.is = "using" /\ Balanced(d.body, "{", "}")
       /\ \A i \in DOMAIN d.body : d.body[i] = ";" => Nesting(d.body, "{", "}")[i] > 0
    \/ d.is = "declaration" /\ AreParts(d.parts)
    \/ /\ d.is = "function" /\ AreParts(d.parts) /\ Balanced(d.body, "{", "}")
       /\ \E i \in Calls(d.parts) : \A j \in DOMAIN d.parts : j > i => d.parts[j].is = "words"
       /\ FirstWord(d.parts) # "extern"
       /\ FirstWord(d.parts) = "constexpr" => "=" \notin ToSet(TextOfParts(d.parts))
    \/ /\ d.is = "value" /\ AreParts(d.parts) /\ Balanced(d.body, "{", "}")
       /\ \A i \in DOMAIN d.body : d.body[i] = ";" => Nesting(d.body, "{", "}")[i] > 0
       /\ {"}", "]"} \cap ToSet(TextOfParts(d.parts)) = {} /\ "]" \notin ToSet(d.body)
       /\ FirstWord(d.parts) # "TEST"

IsTemplate(template) ==
    \/ template = <<>>
    \/ /\ Len(template) = 1 /\ NoneOf(template[1], ClassKeys)
       /\ Balanced(template[1], "<", ">")

IsPiece(x) ==
    \/ x.is = "open" /\ x.name \in (STRING \ (NotPlain \cup Separators \cup {"<anon>"})) \cup {""}
    \/ x.is = "close"
    \/ x.is = "directive" /\ x.directive \in Directives
    \/ IsDeclaration(x) /\ IsTemplate(x.template)

TextOfTemplate(template) ==
    IF template = <<>> THEN <<>> ELSE <<"template", "<">> \o template[1] \o <<">">>

TextOfPiece(x) ==
    CASE x.is = "open" -> IF x.name = "" THEN <<"namespace", "{">> ELSE <<"namespace", x.name, "{">>
      [] x.is = "close" -> <<"}">>
      [] x.is = "directive" -> <<x.directive>>
      [] x.is = "class" -> TextOfTemplate(x.template) \o <<x.key>> \o x.head \o <<"{">> \o x.body \o <<"}", ";">>
      [] x.is = "forward" -> TextOfTemplate(x.template) \o <<x.key>> \o x.head \o <<";">>
      [] x.is = "using" -> TextOfTemplate(x.template) \o <<"using">> \o x.body \o <<";">>
      [] x.is = "declaration" -> TextOfTemplate(x.template) \o TextOfParts(x.parts) \o <<";">>
      [] x.is = "function" -> TextOfTemplate(x.template) \o TextOfParts(x.parts) \o <<"{">> \o x.body \o <<"}">>
      [] x.is = "value" -> TextOfTemplate(x.template) \o TextOfParts(x.parts) \o <<"=">> \o x.body \o <<";">>

TextOfPieces(pieces) == Joined([i \in DOMAIN pieces |-> TextOfPiece(pieces[i])])

\* The kinds that a piece adds to the namespace it is in.
Declares(x) ==
    LET macro == IF Calls(x.parts) # {} /\ FirstWord(x.parts) \in DefineMacros THEN {"macro"} ELSE {}
    IN  CASE x.is \in {"open", "close"} -> {}
          [] x.is = "directive" -> IF x.directive = "#include" THEN {"include"} ELSE {}
          [] x.is = "class" -> IF x.key = "enum" THEN {"enum"} ELSE {"class"}
          [] x.is \in {"forward", "using"} -> {x.is}
          [] x.is = "declaration" -> macro \cup (IF Calls(x.parts) # {} THEN {"func"} ELSE {})
          [] x.is = "function" -> macro \cup (IF FirstWord(x.parts) = "TEST" THEN {"test"} ELSE {"func"})
          [] x.is = "value" -> macro \cup (IF FirstWord(x.parts) = "constexpr" THEN {"constant"} ELSE {})

\* The namespace that each piece leaves the text in.
PathOn(path, x) ==
    IF x.is = "open" THEN Append(path, IF x.name = "" THEN "<anon>" ELSE x.name)
    ELSE IF x.is = "close" THEN Front(path) ELSE path
PathAt(pieces) ==
    LET path[i \in 0 .. Len(pieces)] == IF i = 0 THEN <<>> ELSE PathOn(path[i - 1], pieces[i])
    IN  path

IsText(pieces) ==
    LET path == PathAt(pieces)
    IN  /\ DOMAIN pieces = 1 .. Len(pieces) /\ Len(pieces) \in Nat
        /\ \A i \in DOMAIN pieces :
             /\ IsPiece(pieces[i])
             /\ pieces[i].is \notin {"open", "directive"} => path[i - 1] # <<>>
        /\ path[Len(pieces)] = <<>>

Declared(pieces) ==
    LET path == PathAt(pieces)
    IN  {[name |-> path[i],
          had |-> UNION {Declares(pieces[j]) : j \in {j \in DOMAIN pieces : path[j] = path[i]}}] :
            i \in {i \in DOMAIN pieces : pieces[i].is = "open"}}
=============================================================================
