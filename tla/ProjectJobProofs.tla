--------------------------- MODULE ProjectJobProofs ---------------------------
(***************************************************************************)
(* Proofs about the jobs that build and test the server, for every plan of *)
(* jobs, every set of configurations and every set of suites.              *)
(*                                                                         *)
(* First the runner of the test suites and the parser of sanitizer logs it *)
(* uses, whatever the suites come to, for logs of every length and         *)
(* whatever is left in the directories: what the parser reports, the       *)
(* invariant of the runner, and its steps as steps of a test session.  The *)
(* parser and the logs are recursive functions of the number of lines and  *)
(* of errors; what they come to is proved by induction over a set of       *)
(* numbers, which rests on the order of the numbers being well founded.    *)
(*                                                                         *)
(* Then the jobs: base images and committed images are what their names    *)
(* say, all linters report, success means that every suite of the image of *)
(* the job ran without an error, and the runner within the jobs implements *)
(* the test session.                                                       *)
(***************************************************************************)
EXTENDS ProjectJob, NaturalsInduction, WellFoundedInduction, SequenceTheorems,
        FiniteSetTheorems, TLAPS

-----------------------------------------------------------------------------
(* Induction.                                                              *)

\* The numbers, ordered.
Before == {ss \in Nat \X Nat : ss[1] < ss[2]}

LEMMA NumbersAreOrdered == IsWellFoundedOn(Before, Nat)
  BY NatLessThanWellFounded DEF OpToRel, Before

\* Induction over the numbers, for a set of them.
LEMMA CountingUp ==
  ASSUME NEW S, 0 \in S, \A n \in Nat : n \in S => n + 1 \in S
  PROVE  Nat \subseteq S
<1> DEFINE T == Nat \ S
<1> SUFFICES ASSUME T # {} PROVE FALSE
  OBVIOUS
<1>1. PICK n \in T : \A m \in T : <<m, n>> \notin Before
  <2> HIDE DEF T
  <2>1. T \subseteq Nat
    BY DEF T
  <2> QED
    BY <2>1, NumbersAreOrdered, WFMin, Zenon
<1>2. n \in Nat /\ n - 1 \in Nat /\ n - 1 < n
  OBVIOUS
<1>3. n - 1 \in S
  BY <1>1, <1>2 DEF Before
<1> QED
  BY <1>2, <1>3

-----------------------------------------------------------------------------
(* The parser and the logs, line by line.                                  *)

\* The parser starts anew and is pushed one line after the other (parse_san_log's loop).
LEMMA ParserIsPushed ==
  ASSUME NEW mode, NEW lines, Len(lines) \in Nat
  PROVE  /\ Parser(mode, lines)[0] = NewParser
         /\ \A i \in 1..Len(lines) :
              Parser(mode, lines)[i] = push(mode, Parser(mode, lines)[i - 1], lines[i])
<1> DEFINE Rec(g, k) == g = [i \in 0..k |-> IF i = 0 THEN NewParser ELSE push(mode, g[i - 1], lines[i])]
<1> DEFINE S == {k \in Nat : \E g : Rec(g, k)}
<1>1. 0 \in S
  <2> DEFINE g == [i \in 0..0 |-> NewParser]
  <2>1. Rec(g, 0)
    OBVIOUS
  <2> QED BY <2>1
<1>2. ASSUME NEW k \in Nat, k \in S PROVE k + 1 \in S
  <2>1. PICK g : Rec(g, k) BY <1>2
  <2> DEFINE h == [i \in 0..(k + 1) |-> IF i = k + 1 THEN push(mode, g[k], lines[k + 1]) ELSE g[i]]
  <2>2. ASSUME NEW i \in 0..(k + 1)
        PROVE h[i] = IF i = 0 THEN NewParser ELSE push(mode, h[i - 1], lines[i])
    <3>1. CASE i = k + 1
      <4>1. i # 0 /\ i - 1 = k /\ i - 1 # k + 1 /\ i - 1 \in 0..(k + 1) BY <3>1
      <4>2. h[i] = push(mode, g[k], lines[k + 1]) BY <3>1
      <4>3. h[i - 1] = g[k] BY <4>1
      <4> HIDE DEF h
      <4> QED BY <3>1, <4>1, <4>2, <4>3, Zenon
    <3>2. CASE i # k + 1
      <4>1. h[i] = g[i] BY <3>2
      <4>2. i \in 0..k BY <3>2
      <4>3. g[i] = IF i = 0 THEN NewParser ELSE push(mode, g[i - 1], lines[i]) BY <2>1, <4>2
      <4>4. i # 0 => h[i-1] = g[i-1] BY <4>2
      <4> QED BY <4>1, <4>3, <4>4
    <3> QED BY <3>1, <3>2
  <2>3. Rec(h, k + 1)
    <3> DEFINE b == [i \in 0..(k+1) |-> IF i = 0 THEN NewParser ELSE push(mode, h[i - 1], lines[i])]
    <3>1. h = b
      <4> HIDE DEF h
      <4>1. h = [i \in 0..(k+1) |-> h[i]] BY DEF h
      <4> QED BY <4>1, <2>2
    <3> QED BY <3>1
  <2> HIDE DEF h
  <2> QED BY <2>3
<1>3. Len(lines) \in S
  <2> HIDE DEF S
  <2> QED BY <1>1, <1>2, CountingUp
<1>4. Parser(mode, lines) = CHOOSE g : Rec(g, Len(lines))
  BY DEF Parser
<1>5. Rec(Parser(mode, lines), Len(lines))
  <2>1. \E g : Rec(g, Len(lines)) BY <1>3
  <2> HIDE DEF Rec
  <2> QED BY <1>4, <2>1
<1> QED BY <1>5

\* A log begins with the line of the runtime and grows by one error after the other.
LEMMA WrittenGrows ==
  ASSUME NEW mode, NEW errors, Len(errors) \in Nat
  PROVE  /\ Written(mode, errors)[0] = <<[is |-> "installed", of |-> "runtime"]>>
         /\ \A i \in 1..Len(errors) :
              Written(mode, errors)[i] = Written(mode, errors)[i - 1] \o Block(mode, errors[i])
<1> DEFINE First == <<[is |-> "installed", of |-> "runtime"]>>
<1> DEFINE Rec(g, k) == g = [i \in 0..k |-> IF i = 0 THEN First ELSE g[i - 1] \o Block(mode, errors[i])]
<1> DEFINE S == {k \in Nat : \E g : Rec(g, k)}
<1> HIDE DEF First
<1>1. 0 \in S
  <2> DEFINE g == [i \in 0..0 |-> First]
  <2>1. Rec(g, 0)
    OBVIOUS
  <2> QED BY <2>1
<1>2. ASSUME NEW k \in Nat, k \in S PROVE k + 1 \in S
  <2>1. PICK g : Rec(g, k) BY <1>2
  <2> DEFINE h == [i \in 0..(k + 1) |-> IF i = k + 1 THEN g[k] \o Block(mode, errors[k + 1]) ELSE g[i]]
  <2>2. ASSUME NEW i \in 0..(k + 1)
        PROVE h[i] = IF i = 0 THEN First ELSE h[i - 1] \o Block(mode, errors[i])
    <3>1. CASE i = k + 1
      <4>1. i # 0 /\ i - 1 = k /\ i - 1 # k + 1 /\ i - 1 \in 0..(k + 1) BY <3>1
      <4>2. h[i] = g[k] \o Block(mode, errors[k + 1]) BY <3>1
      <4>3. h[i - 1] = g[k] BY <4>1
      <4> HIDE DEF h
      <4> QED BY <3>1, <4>1, <4>2, <4>3, Zenon
    <3>2. CASE i # k + 1
      <4>1. h[i] = g[i] BY <3>2
      <4>2. i \in 0..k BY <3>2
      <4>3. g[i] = IF i = 0 THEN First ELSE g[i - 1] \o Block(mode, errors[i]) BY <2>1, <4>2
      <4>4. i # 0 => h[i-1] = g[i-1] BY <4>2
      <4> QED BY <4>1, <4>3, <4>4
    <3> QED BY <3>1, <3>2
  <2>3. Rec(h, k + 1)
    <3> DEFINE b == [i \in 0..(k+1) |-> IF i = 0 THEN First ELSE h[i - 1] \o Block(mode, errors[i])]
    <3>1. h = b
      <4> HIDE DEF h
      <4>1. h = [i \in 0..(k+1) |-> h[i]] BY DEF h
      <4> QED BY <4>1, <2>2
    <3> QED BY <3>1
  <2> HIDE DEF h
  <2> QED BY <2>3
<1>3. Len(errors) \in S
  <2> HIDE DEF S
  <2> QED BY <1>1, <1>2, CountingUp
<1>4. Written(mode, errors) = CHOOSE g : Rec(g, Len(errors))
  BY DEF Written, First
<1>5. Rec(Written(mode, errors), Len(errors))
  <2>1. \E g : Rec(g, Len(errors)) BY <1>3
  <2> HIDE DEF Rec
  <2> QED BY <1>4, <2>1
<1>6. /\ Written(mode, errors)[0] = First
      /\ \A i \in 1..Len(errors) :
           Written(mode, errors)[i] = Written(mode, errors)[i - 1] \o Block(mode, errors[i])
  BY <1>5
<1> QED BY <1>6 DEF First

\* The lines of a log: what the parser looks for in them, and the error they are about.
LineKinds == {"installed", "marker", "WARNING: ", "runtime error:", "frame", "SUMMARY"}

LogLine == [is : LineKinds, of : STRING \cup {"runtime", "unfinished", "garbled"}]

Line(is, of) == [is |-> is, of |-> of]

\* A line is what it was made to be.
LEMMA LineFields ==
  ASSUME NEW is, NEW of
  PROVE  Line(is, of).is = is
  BY DEF Line

\* The lengths of concatenated sequences.
LEMMA Lengths ==
  ASSUME NEW S, NEW s \in Seq(S), NEW u \in Seq(S)
  PROVE  s \o u \in Seq(S) /\ Len(s \o u) = Len(s) + Len(u) /\ Len(s) \in Nat
  OBVIOUS

\* What was read before is not read again: the parser of s \o u is that of s, pushed
\* with u.
LEMMA ParserGoesOn ==
  ASSUME NEW mode, NEW s \in Seq(LogLine), NEW u \in Seq(LogLine)
  PROVE  /\ Parser(mode, s \o u)[Len(s)] = parse_san_log(mode, s)
         /\ \A i \in 1..Len(u) :
              Parser(mode, s \o u)[Len(s) + i] = push(mode, Parser(mode, s \o u)[Len(s) + i - 1], u[i])
<1> DEFINE t == s \o u
<1>1. /\ Len(s) \in Nat /\ Len(u) \in Nat /\ Len(t) = Len(s) + Len(u)
      /\ \A i \in 1..Len(s) : t[i] = s[i]
      /\ \A i \in 1..Len(u) : t[Len(s) + i] = u[i]
  OBVIOUS
<1> HIDE DEF t
<1>2. Len(t) \in Nat BY <1>1
<1> DEFINE S == {n \in Nat : n <= Len(s) => Parser(mode, t)[n] = Parser(mode, s)[n]}
<1>3. 0 \in S
  BY <1>1, <1>2, ParserIsPushed
<1>4. ASSUME NEW n \in Nat, n \in S PROVE n + 1 \in S
  <2> SUFFICES ASSUME n + 1 <= Len(s) PROVE Parser(mode, t)[n + 1] = Parser(mode, s)[n + 1]
    OBVIOUS
  <2>1. n + 1 \in 1..Len(s) /\ n + 1 \in 1..Len(t) /\ (n + 1) - 1 = n BY <1>1
  <2>2. Parser(mode, t)[n] = Parser(mode, s)[n] BY <1>1, <1>4
  <2>3. Parser(mode, t)[n + 1] = push(mode, Parser(mode, t)[n], t[n + 1])
    BY <1>2, <2>1, ParserIsPushed
  <2>4. Parser(mode, s)[n + 1] = push(mode, Parser(mode, s)[n], s[n + 1])
    BY <1>1, <2>1, ParserIsPushed
  <2> QED BY <1>1, <2>1, <2>2, <2>3, <2>4
<1>5. Len(s) \in S
  <2> HIDE DEF S
  <2> QED BY <1>1, <1>3, <1>4, CountingUp
<1>6. Parser(mode, t)[Len(s)] = parse_san_log(mode, s)
  BY <1>1, <1>5 DEF parse_san_log
<1>7. ASSUME NEW i \in 1..Len(u)
      PROVE Parser(mode, t)[Len(s) + i] = push(mode, Parser(mode, t)[Len(s) + i - 1], u[i])
  <2>1. Len(s) + i \in 1..Len(t) BY <1>1
  <2>2. Parser(mode, t)[Len(s) + i] = push(mode, Parser(mode, t)[Len(s) + i - 1], t[Len(s) + i])
    BY <1>2, <2>1, ParserIsPushed
  <2> QED BY <1>1, <2>2
<1> QED BY <1>6, <1>7 DEF t

\* A few lines more, pushed one after the other.
LEMMA TwoMoreLines ==
  ASSUME NEW mode, NEW s \in Seq(LogLine), NEW u \in Seq(LogLine), Len(u) = 2
  PROVE  LET p == parse_san_log(mode, s)
         IN  parse_san_log(mode, s \o u)
               = push(mode, push(mode, p, u[1]), u[2])
<1> DEFINE n == Len(s)
           parser == Parser(mode, s \o u)
<1>1. Len(s \o u) = n + 2 /\ n \in Nat
  BY Lengths
<1>2. /\ parser[n] = parse_san_log(mode, s)
      /\ \A i \in 1..2 : parser[n + i] = push(mode, parser[n + i - 1], u[i])
  <2>1. /\ parser[n] = parse_san_log(mode, s)
        /\ \A i \in 1..Len(u) : parser[n + i] = push(mode, parser[n + i - 1], u[i])
    BY ParserGoesOn, Zenon
  <2> QED
    BY <2>1, Zenon
<1>3. parse_san_log(mode, s \o u) = parser[n + 2]
  BY <1>1, Zenon DEF parse_san_log
<1> HIDE DEF parser, n
<1>4. /\ n + 1 - 1 = n /\ n + 2 - 1 = n + 1
      /\ 1 \in 1..2 /\ 2 \in 1..2
  BY <1>1
<1>5. /\ parser[n + 1] = push(mode, parser[n], u[1])
      /\ parser[n + 2] = push(mode, parser[n + 1], u[2])
  BY <1>2, <1>4
<1> QED
  BY <1>2, <1>3, <1>5, Zenon

LEMMA ThreeMoreLines ==
  ASSUME NEW mode, NEW s \in Seq(LogLine), NEW u \in Seq(LogLine), Len(u) = 3
  PROVE  LET p == parse_san_log(mode, s)
         IN  parse_san_log(mode, s \o u)
               = push(mode, push(mode, push(mode, p, u[1]), u[2]), u[3])
<1> DEFINE n == Len(s)
           parser == Parser(mode, s \o u)
<1>1. Len(s \o u) = n + 3 /\ n \in Nat
  BY Lengths
<1>2. /\ parser[n] = parse_san_log(mode, s)
      /\ \A i \in 1..3 : parser[n + i] = push(mode, parser[n + i - 1], u[i])
  <2>1. /\ parser[n] = parse_san_log(mode, s)
        /\ \A i \in 1..Len(u) : parser[n + i] = push(mode, parser[n + i - 1], u[i])
    BY ParserGoesOn, Zenon
  <2> QED
    BY <2>1, Zenon
<1>3. parse_san_log(mode, s \o u) = parser[n + 3]
  BY <1>1, Zenon DEF parse_san_log
<1> HIDE DEF parser, n
<1>4. /\ n + 1 - 1 = n /\ n + 2 - 1 = n + 1 /\ n + 3 - 1 = n + 2
      /\ 1 \in 1..3 /\ 2 \in 1..3 /\ 3 \in 1..3
  BY <1>1
<1>5. /\ parser[n + 1] = push(mode, parser[n], u[1])
      /\ parser[n + 2] = push(mode, parser[n + 1], u[2])
      /\ parser[n + 3] = push(mode, parser[n + 2], u[3])
  BY <1>2, <1>4
<1> QED
  BY <1>2, <1>3, <1>5, Zenon

LEMMA FiveMoreLines ==
  ASSUME NEW mode, NEW s \in Seq(LogLine), NEW u \in Seq(LogLine), Len(u) = 5
  PROVE  LET p == parse_san_log(mode, s)
         IN  parse_san_log(mode, s \o u)
               = push(mode, push(mode, push(mode, push(mode, push(mode, p, u[1]), u[2]), u[3]), u[4]), u[5])
<1> DEFINE n == Len(s)
           parser == Parser(mode, s \o u)
<1>1. Len(s \o u) = n + 5 /\ n \in Nat
  BY Lengths
<1>2. /\ parser[n] = parse_san_log(mode, s)
      /\ \A i \in 1..5 : parser[n + i] = push(mode, parser[n + i - 1], u[i])
  <2>1. /\ parser[n] = parse_san_log(mode, s)
        /\ \A i \in 1..Len(u) : parser[n + i] = push(mode, parser[n + i - 1], u[i])
    BY ParserGoesOn, Zenon
  <2> QED
    BY <2>1, Zenon
<1>3. parse_san_log(mode, s \o u) = parser[n + 5]
  BY <1>1, Zenon DEF parse_san_log
<1> HIDE DEF parser, n
<1>4. /\ n + 1 - 1 = n /\ n + 2 - 1 = n + 1 /\ n + 3 - 1 = n + 2 /\ n + 4 - 1 = n + 3 /\ n + 5 - 1 = n + 4
      /\ 1 \in 1..5 /\ 2 \in 1..5 /\ 3 \in 1..5 /\ 4 \in 1..5 /\ 5 \in 1..5
  BY <1>1
<1>5. /\ parser[n + 1] = push(mode, parser[n], u[1])
      /\ parser[n + 2] = push(mode, parser[n + 1], u[2])
      /\ parser[n + 3] = push(mode, parser[n + 2], u[3])
      /\ parser[n + 4] = push(mode, parser[n + 3], u[4])
      /\ parser[n + 5] = push(mode, parser[n + 4], u[5])
  BY <1>2, <1>4
<1> QED
  BY <1>2, <1>3, <1>5

-----------------------------------------------------------------------------
(* The lines of one error.                                                 *)

\* Sequences of few lines, as the logs are concatenated from them.
LEMMA ThreeLines ==
  ASSUME NEW S, NEW a \in S, NEW b \in S, NEW c \in S
  PROVE  LET t == <<a>> \o <<b>> \o (<<c>> \o <<>>)
         IN  t \in Seq(S) /\ Len(t) = 3 /\ t[1] = a /\ t[2] = b /\ t[3] = c
  OBVIOUS

LEMMA FiveLines ==
  ASSUME NEW S, NEW a \in S, NEW b \in S, NEW c \in S, NEW d \in S
  PROVE  LET t == <<a, b>> \o <<c>> \o (<<d>> \o <<a>>)
         IN  /\ t \in Seq(S) /\ Len(t) = 5
             /\ t[1] = a /\ t[2] = b /\ t[3] = c /\ t[4] = d /\ t[5] = a
  OBVIOUS

LEMMA FewLines ==
  ASSUME NEW S, NEW a \in S, NEW b \in S, NEW c \in S
  PROVE  /\ LET t == <<a, b>> IN t \in Seq(S) /\ Len(t) = 2 /\ t[1] = a /\ t[2] = b
         /\ LET t == <<a>> \o <<b>> IN t \in Seq(S) /\ Len(t) = 2 /\ t[1] = a /\ t[2] = b
         /\ LET t == <<a, b>> \o <<c>>
            IN  t \in Seq(S) /\ Len(t) = 3 /\ t[1] = a /\ t[2] = b /\ t[3] = c
  OBVIOUS

LEMMA FirstOf ==
  ASSUME NEW a, NEW b
  PROVE  /\ (<<a>> \o <<>>)[1] = a /\ (<<a>> \o <<b>>)[1] = a
         /\ Append(<<>>, a) = <<a>>
  OBVIOUS

\* The lines of one error, in the logs of either runtime.
LEMMA AsanBlock ==
  ASSUME NEW error \in STRING
  PROVE  /\ Block("asan", error) \in Seq(LogLine) /\ Len(Block("asan", error)) = 3
         /\ Block("asan", error)[1] = Line("runtime error:", error)
         /\ Block("asan", error)[2] = Line("frame", error)
         /\ Block("asan", error)[3] = Line("SUMMARY", error)
<1> DEFINE a == Line("runtime error:", error)
           b == Line("frame", error)
           c == Line("SUMMARY", error)
           block == Block("asan", error)
<1>1. a \in LogLine /\ b \in LogLine /\ c \in LogLine
  BY DEF Line, LogLine, LineKinds
<1>2. block = <<a>> \o <<b>> \o (<<c>> \o <<>>)
  BY DEF Block, Opening, Details, Closing, Line
<1>3. block \in Seq(LogLine) /\ Len(block) = 3 /\ block[1] = a /\ block[2] = b /\ block[3] = c
  <2> HIDE DEF a, b, c, block
  <2>1. LET t == <<a>> \o <<b>> \o (<<c>> \o <<>>)
        IN  t \in Seq(LogLine) /\ Len(t) = 3 /\ t[1] = a /\ t[2] = b /\ t[3] = c
    BY <1>1, ThreeLines
  <2> QED
    BY <1>2, <2>1, Zenon
<1> QED
  BY <1>3

LEMMA TsanBlock ==
  ASSUME NEW error \in STRING
  PROVE  /\ Block("tsan", error) \in Seq(LogLine) /\ Len(Block("tsan", error)) = 5
         /\ Block("tsan", error)[1] = Line("marker", error)
         /\ Block("tsan", error)[2] = Line("WARNING: ", error)
         /\ Block("tsan", error)[3] = Line("frame", error)
         /\ Block("tsan", error)[4] = Line("SUMMARY", error)
         /\ Block("tsan", error)[5] = Line("marker", error)
<1> DEFINE a == Line("marker", error)
           b == Line("WARNING: ", error)
           c == Line("frame", error)
           d == Line("SUMMARY", error)
           block == Block("tsan", error)
<1>1. a \in LogLine /\ b \in LogLine /\ c \in LogLine /\ d \in LogLine
  BY DEF Line, LogLine, LineKinds
<1>2. block = <<a, b>> \o <<c>> \o (<<d>> \o <<a>>)
  BY DEF Block, Opening, Details, Closing, Line
<1>3. /\ block \in Seq(LogLine) /\ Len(block) = 5
      /\ block[1] = a /\ block[2] = b /\ block[3] = c /\ block[4] = d /\ block[5] = a
  <2> HIDE DEF a, b, c, d, block
  <2>1. LET t == <<a, b>> \o <<c>> \o (<<d>> \o <<a>>)
        IN  /\ t \in Seq(LogLine) /\ Len(t) = 5
            /\ t[1] = a /\ t[2] = b /\ t[3] = c /\ t[4] = d /\ t[5] = a
    BY <1>1, FiveLines
  <2> QED
    BY <1>2, <2>1, Zenon
<1> QED
  BY <1>3

-----------------------------------------------------------------------------
(* One line pushed.                                                        *)

\* The parsers, and a parser that no line has ended.
Modes == {"asan", "tsan"}

ParserAt(st, e, q) == [state |-> st, error |-> e, parsed |-> q, invalid |-> FALSE]

ErrorOf(header, name, trace) == [header |-> header, name |-> name, trace |-> trace]

\* Where the address sanitizer's parser takes a name from.
AsanNames == {"==ERROR:", "runtime error:"}

LEMMA NewErrorOf == NewError = ErrorOf(NoLine, NoLine, <<>>)
  BY DEF NewError, ErrorOf

\* What the results are to say of an error.
LEMMA EntryOf ==
  ASSUME NEW error
  PROVE  /\ Entry("asan", error)
              = ErrorOf(Line("SUMMARY", error), NameIn(Line("runtime error:", error)),
                        Append(<<>>, Line("frame", error)))
         /\ Entry("tsan", error)
              = ErrorOf(Line("SUMMARY", error), NameIn(Line("SUMMARY", error)),
                        Append(<<>>, Line("frame", error)))
<1> DEFINE a == Line("runtime error:", error)
           b == Line("frame", error)
           c == Line("SUMMARY", error)
           d == Line("marker", error)
<1>1. Opening("asan", error) = <<a>> /\ Closing("asan", error) = <<c>> \o <<>>
  BY DEF Opening, Closing, Line
<1>2. Closing("tsan", error) = <<c>> \o <<d>>
  BY DEF Closing, Line
<1>3. Details(error) = <<b>>
  BY DEF Details, Line
<1> HIDE DEF a, b, c, d
<1>4. <<a>>[1] = a /\ (<<c>> \o <<>>)[1] = c /\ (<<c>> \o <<d>>)[1] = c /\ Append(<<>>, b) = <<b>>
  BY FirstOf
<1>5. Opening("asan", error)[1] = a /\ Closing("asan", error)[1] = c /\ Closing("tsan", error)[1] = c
  BY <1>1, <1>2, <1>4, Zenon
<1>6. Details(error) = Append(<<>>, b)
  BY <1>3, <1>4, Zenon
<1>7. Entry("asan", error) = ErrorOf(c, NameIn(a), Append(<<>>, b))
  <2> DEFINE r == Entry("asan", error)
  <2>1. r = [header |-> Closing("asan", error)[1], trace |-> Details(error),
             name |-> NameIn(IF "asan" = "tsan" THEN Closing("asan", error)[1]
                            ELSE Opening("asan", error)[1])]
    BY Zenon DEF Entry
  <2> HIDE DEF r
  <2>2. r = [header |-> c, trace |-> Append(<<>>, b), name |-> NameIn(a)]
    BY <2>1, <1>5, <1>6
  <2> QED
    BY <2>2 DEF ErrorOf, r
<1>8. Entry("tsan", error) = ErrorOf(c, NameIn(c), Append(<<>>, b))
  <2> DEFINE r == Entry("tsan", error)
  <2>1. r = [header |-> Closing("tsan", error)[1], trace |-> Details(error),
             name |-> NameIn(IF "tsan" = "tsan" THEN Closing("tsan", error)[1]
                            ELSE Opening("tsan", error)[1])]
    BY Zenon DEF Entry
  <2> HIDE DEF r
  <2>2. r = [header |-> c, trace |-> Append(<<>>, b), name |-> NameIn(c)]
    BY <2>1, <1>5, <1>6
  <2> QED
    BY <2>2 DEF ErrorOf, r
<1> QED
  BY <1>7, <1>8 DEF a, b, c

\* SanError.parse: the header is replaced, the name where it matches.
LEMMA HeadedError ==
  ASSUME NEW h, NEW n, NEW t, NEW line, NEW names
  PROVE  Headed(ErrorOf(h, n, t), line, names)
           = ErrorOf(line, IF line.is \in names /\ line.of \notin Nameless THEN line ELSE n, t)
<1> DEFINE m == IF line.is \in names /\ line.of \notin Nameless THEN line ELSE n
<1>1. ErrorOf(h, n, t).name = n
  BY DEF ErrorOf
<1>2. Headed(ErrorOf(h, n, t), line, names)
        = [[ErrorOf(h, n, t) EXCEPT !.header = line] EXCEPT !.name = m]
  BY <1>1, Zenon DEF Headed
<1>3. [ErrorOf(h, n, t) EXCEPT !.header = line] = ErrorOf(line, n, t)
  BY DEF ErrorOf
<1> HIDE DEF m
<1>4. [ErrorOf(line, n, t) EXCEPT !.name = m] = ErrorOf(line, m, t)
  BY DEF ErrorOf
<1> QED
  BY <1>2, <1>3, <1>4 DEF m

LEMMA NewErrorHeaded ==
  ASSUME NEW line
  PROVE  Headed(ErrorOf(NoLine, NoLine, <<>>), line, {line.is}) = ErrorOf(line, NameIn(line), <<>>)
  BY HeadedError DEF NameIn

\* parse_details adds a line to the trace, and closes the error at its summary.
LEMMA TraceLine ==
  ASSUME NEW st, NEW h, NEW n, NEW t, NEW q, NEW line, line.is = "frame", NEW names, NEW end
  PROVE  parse_details(ParserAt(st, ErrorOf(h, n, t), q), line, names, end)
           = ParserAt(st, ErrorOf(h, n, Append(t, line)), q)
<1>1. parse_details(ParserAt(st, ErrorOf(h, n, t), q), line, names, end)
        = [ParserAt(st, ErrorOf(h, n, t), q) EXCEPT !.error.trace = Append(@, line)]
  BY DEF parse_details
<1> QED
  BY <1>1 DEF ParserAt, ErrorOf

LEMMA SummaryLine ==
  ASSUME NEW st, NEW h, NEW n, NEW t, NEW q, NEW line, line.is = "SUMMARY", NEW names, NEW end, NEW m,
         m = IF line.is \in names /\ line.of \notin Nameless THEN line ELSE n
  PROVE  parse_details(ParserAt(st, ErrorOf(h, n, t), q), line, names, end)
           = ParserAt(end, ErrorOf(line, m, t), Append(q, ErrorOf(line, m, t)))
<1> DEFINE p == ParserAt(st, ErrorOf(h, n, t), q)
<1>1. Headed(ErrorOf(h, n, t), line, names) = ErrorOf(line, m, t)
  BY HeadedError
<1>2. p.error = ErrorOf(h, n, t) /\ p.parsed = q
  BY DEF ParserAt
<1>3. parse_details(p, line, names, end)
        = [p EXCEPT !.state = end, !.error = Headed(p.error, line, names),
                    !.parsed = Append(p.parsed, Headed(p.error, line, names))]
  BY Zenon DEF parse_details
<1>4. parse_details(p, line, names, end)
        = [p EXCEPT !.state = end, !.error = ErrorOf(line, m, t), !.parsed = Append(q, ErrorOf(line, m, t))]
  BY <1>1, <1>2, <1>3
<1> QED
  BY <1>4 DEF ParserAt

\* create_checker goes on at the line it expects, and ends the program at any other.
LEMMA CheckedLine ==
  ASSUME NEW st, NEW e, NEW q, NEW line, NEW expected, NEW next, line.is = expected
  PROVE  create_checker(ParserAt(st, e, q), line, expected, next) = ParserAt(next, e, q)
<1>1. create_checker(ParserAt(st, e, q), line, expected, next) = [ParserAt(st, e, q) EXCEPT !.state = next]
  BY DEF create_checker
<1> QED
  BY <1>1 DEF ParserAt

LEMMA UncheckedLine ==
  ASSUME NEW st, NEW e, NEW q, NEW line, NEW expected, NEW next, line.is # expected
  PROVE  create_checker(ParserAt(st, e, q), line, expected, next).invalid = TRUE
  BY DEF create_checker, ParserAt

\* The first line of an error opens it; other lines are passed over between the errors.
LEMMA AsanOpens ==
  ASSUME NEW e, NEW q, NEW line, line.is = "runtime error:"
  PROVE  push("asan", ParserAt("START_MARKER", e, q), line)
           = ParserAt("CONTENTS", ErrorOf(line, NameIn(line), <<>>), q)
<1> DEFINE p == ParserAt("START_MARKER", e, q)
<1>1. p.state = "START_MARKER" /\ p.invalid = FALSE
  BY DEF ParserAt
<1> HIDE DEF p
<1>2. push("asan", p, line) = AsanPush(p, line)
  BY <1>1 DEF push
<1>3. AsanPush(p, line) = [p EXCEPT !.state = "CONTENTS", !.error = Headed(NewError, line, {line.is})]
  BY <1>1, Zenon DEF AsanPush
<1>4. NewError = ErrorOf(NoLine, NoLine, <<>>)
  BY DEF NewError, ErrorOf
<1>5. Headed(NewError, line, {line.is}) = ErrorOf(line, NameIn(line), <<>>)
  BY <1>4, NewErrorHeaded, Zenon
<1> QED
  BY <1>2, <1>3, <1>5 DEF p, ParserAt

LEMMA AsanIgnores ==
  ASSUME NEW e, NEW q, NEW line, line.is \in {"marker", "frame", "installed"}
  PROVE  push("asan", ParserAt("START_MARKER", e, q), line) = ParserAt("START_MARKER", e, q)
<1> DEFINE p == ParserAt("START_MARKER", e, q)
<1>1. p.state = "START_MARKER" /\ p.invalid = FALSE
  BY DEF ParserAt
<1> HIDE DEF p
<1>2. push("asan", p, line) = AsanPush(p, line)
  BY <1>1 DEF push
<1>3. line.is \notin {"==ERROR:", "runtime error:"}
  OBVIOUS
<1>4. AsanPush(p, line) = p
  BY <1>1, <1>3, Zenon DEF AsanPush
<1> QED
  BY <1>2, <1>4 DEF p

\* Within an error every line is one of its details.
LEMMA AsanContents ==
  ASSUME NEW e, NEW q, NEW line
  PROVE  push("asan", ParserAt("CONTENTS", e, q), line)
           = parse_details(ParserAt("CONTENTS", e, q), line, {"==ERROR:", "runtime error:"}, "START_MARKER")
<1> DEFINE p == ParserAt("CONTENTS", e, q)
<1>1. p.state = "CONTENTS" /\ p.invalid = FALSE
  BY DEF ParserAt
<1> HIDE DEF p
<1>2. push("asan", p, line) = AsanPush(p, line)
  BY <1>1 DEF push
<1>3. AsanPush(p, line) = parse_details(p, line, {"==ERROR:", "runtime error:"}, "START_MARKER")
  BY <1>1, Zenon DEF AsanPush
<1> QED
  BY <1>2, <1>3 DEF p

\* The marker opens an error, and what has to follow does.
LEMMA TsanOpens ==
  ASSUME NEW e, NEW q, NEW line, line.is = "marker"
  PROVE  push("tsan", ParserAt("START_MARKER", e, q), line) = ParserAt("WARNING", NewError, q)
<1> DEFINE p == ParserAt("START_MARKER", e, q)
<1>1. p.state = "START_MARKER" /\ p.invalid = FALSE
  BY DEF ParserAt
<1> HIDE DEF p
<1>2. push("tsan", p, line) = TsanPush(p, line)
  BY <1>1 DEF push
<1>3. TsanPush(p, line) = [p EXCEPT !.state = "WARNING", !.error = NewError]
  BY <1>1, Zenon DEF TsanPush
<1> QED
  BY <1>2, <1>3 DEF p, ParserAt

LEMMA TsanPushes ==
  ASSUME NEW st, NEW e, NEW q, NEW line
  PROVE  LET p == ParserAt(st, e, q)
         IN  /\ st = "START_MARKER" /\ line.is = "installed" => push("tsan", p, line) = p
             /\ st = "WARNING" => push("tsan", p, line) = create_checker(p, line, "WARNING: ", "DETAILS")
             /\ st = "DETAILS" => push("tsan", p, line) = parse_details(p, line, {"SUMMARY"}, "END_MARKER")
             /\ st = "END_MARKER" =>
                  push("tsan", p, line) = create_checker(p, line, "marker", "START_MARKER")
<1> DEFINE p == ParserAt(st, e, q)
<1>1. p.state = st /\ p.invalid = FALSE
  BY DEF ParserAt
<1> HIDE DEF p
<1>3. push("tsan", p, line) = TsanPush(p, line)
  BY <1>1 DEF push
<1>5. st = "START_MARKER" /\ line.is = "installed" => TsanPush(p, line) = p
  BY <1>1, Zenon DEF TsanPush
<1>6. st = "WARNING" => TsanPush(p, line) = create_checker(p, line, "WARNING: ", "DETAILS")
  BY <1>1, Zenon DEF TsanPush
<1>7. st = "DETAILS" => TsanPush(p, line) = parse_details(p, line, {"SUMMARY"}, "END_MARKER")
  BY <1>1, Zenon DEF TsanPush
<1>8. st = "END_MARKER" => TsanPush(p, line) = create_checker(p, line, "marker", "START_MARKER")
  BY <1>1, Zenon DEF TsanPush
<1> QED
  BY <1>3, <1>5, <1>6, <1>7, <1>8, Zenon DEF p

-----------------------------------------------------------------------------
(* One error read, and all of them.                                        *)

\* Between two errors, the lines of one error add its entry and lead between two errors
\* again.
LEMMA AsanBlockIsParsed ==
  ASSUME NEW error \in STRING, NEW s \in Seq(LogLine), NEW e, NEW q,
         parse_san_log("asan", s) = ParserAt("START_MARKER", e, q)
  PROVE  \E f : parse_san_log("asan", s \o Block("asan", error))
                  = ParserAt("START_MARKER", f, Append(q, Entry("asan", error)))
<1> DEFINE a == Line("runtime error:", error)
           b == Line("frame", error)
           c == Line("SUMMARY", error)
           u == Block("asan", error)
           none == <<>>
           m == NameIn(a)
           entry == ErrorOf(c, m, Append(none, b))
<1>1. u \in Seq(LogLine) /\ Len(u) = 3 /\ u[1] = a /\ u[2] = b /\ u[3] = c
  BY AsanBlock
<1>2. a.is = "runtime error:" /\ b.is = "frame" /\ c.is = "SUMMARY"
  BY LineFields
<1>3. Entry("asan", error) = entry
  BY EntryOf
<1> HIDE DEF a, b, c, u
<1>4. push("asan", ParserAt("START_MARKER", e, q), a) = ParserAt("CONTENTS", ErrorOf(a, m, none), q)
  BY <1>2, AsanOpens
<1> HIDE DEF none, m
<1>5. push("asan", ParserAt("CONTENTS", ErrorOf(a, m, none), q), b)
        = ParserAt("CONTENTS", ErrorOf(a, m, Append(none, b)), q)
  <2> DEFINE p == ParserAt("CONTENTS", ErrorOf(a, m, none), q)
  <2>1. push("asan", p, b) = parse_details(p, b, AsanNames, "START_MARKER")
    BY AsanContents, Zenon DEF AsanNames
  <2>2. b.is = "frame"
    BY <1>2
  <2>3. parse_details(p, b, AsanNames, "START_MARKER")
          = ParserAt("CONTENTS", ErrorOf(a, m, Append(none, b)), q)
    BY <2>2, TraceLine
  <2> QED
    BY <2>1, <2>3, Zenon
<1>6. push("asan", ParserAt("CONTENTS", ErrorOf(a, m, Append(none, b)), q), c)
        = ParserAt("START_MARKER", entry, Append(q, entry))
  <2> DEFINE p == ParserAt("CONTENTS", ErrorOf(a, m, Append(none, b)), q)
  <2>1. push("asan", p, c) = parse_details(p, c, AsanNames, "START_MARKER")
    BY AsanContents, Zenon DEF AsanNames
  <2>2. c.is \notin AsanNames
    BY <1>2 DEF AsanNames
  <2>3. m = IF c.is \in AsanNames /\ c.of \notin Nameless THEN c ELSE m
    BY <2>2
  <2>4. c.is = "SUMMARY"
    BY <1>2
  <2>5. parse_details(p, c, AsanNames, "START_MARKER")
          = ParserAt("START_MARKER", entry, Append(q, entry))
    BY <2>3, <2>4, SummaryLine
  <2> QED
    BY <2>1, <2>5, Zenon
<1> HIDE DEF entry
<1>7. parse_san_log("asan", s \o u)
        = push("asan", push("asan", push("asan", ParserAt("START_MARKER", e, q), a), b), c)
  <2>1. parse_san_log("asan", s \o u)
          = push("asan", push("asan", push("asan", parse_san_log("asan", s), u[1]), u[2]), u[3])
    BY <1>1, ThreeMoreLines, Zenon
  <2> QED
    BY <1>1, <2>1, Zenon
<1>8. parse_san_log("asan", s \o u) = ParserAt("START_MARKER", entry, Append(q, entry))
  BY <1>4, <1>5, <1>6, <1>7, Zenon
<1> QED
  BY <1>3, <1>8 DEF u

LEMMA TsanBlockIsParsed ==
  ASSUME NEW error \in STRING, NEW s \in Seq(LogLine), NEW e, NEW q,
         parse_san_log("tsan", s) = ParserAt("START_MARKER", e, q)
  PROVE  \E f : parse_san_log("tsan", s \o Block("tsan", error))
                  = ParserAt("START_MARKER", f, Append(q, Entry("tsan", error)))
<1> DEFINE a == Line("marker", error)
           w == Line("WARNING: ", error)
           b == Line("frame", error)
           c == Line("SUMMARY", error)
           u == Block("tsan", error)
           none == <<>>
           m == NameIn(c)
           entry == ErrorOf(c, m, Append(none, b))
<1>1. u \in Seq(LogLine) /\ Len(u) = 5 /\ u[1] = a /\ u[2] = w /\ u[3] = b /\ u[4] = c /\ u[5] = a
  BY TsanBlock
<1>2. a.is = "marker" /\ w.is = "WARNING: " /\ b.is = "frame" /\ c.is = "SUMMARY"
  BY LineFields
<1>3. Entry("tsan", error) = entry
  BY EntryOf
<1> HIDE DEF a, b, c, w, u, none
<1>4. push("tsan", ParserAt("START_MARKER", e, q), a)
        = ParserAt("WARNING", ErrorOf(NoLine, NoLine, none), q)
  <2>1. a.is = "marker"
    BY <1>2
  <2>2. push("tsan", ParserAt("START_MARKER", e, q), a) = ParserAt("WARNING", NewError, q)
    BY <2>1, TsanOpens
  <2> QED
    BY <2>2, NewErrorOf, Zenon DEF none
<1>5. push("tsan", ParserAt("WARNING", ErrorOf(NoLine, NoLine, none), q), w)
        = ParserAt("DETAILS", ErrorOf(NoLine, NoLine, none), q)
  <2> DEFINE p == ParserAt("WARNING", ErrorOf(NoLine, NoLine, none), q)
  <2>1. push("tsan", p, w) = create_checker(p, w, "WARNING: ", "DETAILS")
    BY TsanPushes
  <2>2. create_checker(p, w, "WARNING: ", "DETAILS") = ParserAt("DETAILS", ErrorOf(NoLine, NoLine, none), q)
    <3> DEFINE expected == "WARNING: "
    <3>1. w.is = expected
      BY <1>2
    <3> HIDE DEF expected
    <3>2. create_checker(p, w, expected, "DETAILS") = ParserAt("DETAILS", ErrorOf(NoLine, NoLine, none), q)
      BY <3>1, CheckedLine
    <3> QED
      BY <3>2 DEF expected
  <2> QED
    BY <2>1, <2>2, Zenon
<1>6. push("tsan", ParserAt("DETAILS", ErrorOf(NoLine, NoLine, none), q), b)
        = ParserAt("DETAILS", ErrorOf(NoLine, NoLine, Append(none, b)), q)
  <2> DEFINE p == ParserAt("DETAILS", ErrorOf(NoLine, NoLine, none), q)
  <2>1. push("tsan", p, b) = parse_details(p, b, {"SUMMARY"}, "END_MARKER")
    BY TsanPushes
  <2>2. parse_details(p, b, {"SUMMARY"}, "END_MARKER")
          = ParserAt("DETAILS", ErrorOf(NoLine, NoLine, Append(none, b)), q)
    <3>1. b.is = "frame"
      BY <1>2
    <3> QED
      BY <3>1, TraceLine
  <2> QED
    BY <2>1, <2>2, Zenon
<1>7. push("tsan", ParserAt("DETAILS", ErrorOf(NoLine, NoLine, Append(none, b)), q), c)
         = ParserAt("END_MARKER", entry, Append(q, entry))
  <2> DEFINE p == ParserAt("DETAILS", ErrorOf(NoLine, NoLine, Append(none, b)), q)
  <2>1. push("tsan", p, c) = parse_details(p, c, {"SUMMARY"}, "END_MARKER")
    BY TsanPushes
  <2>2. m = IF c.is \in {"SUMMARY"} /\ c.of \notin Nameless THEN c ELSE NoLine
    BY <1>2 DEF NameIn
  <2>3. parse_details(p, c, {"SUMMARY"}, "END_MARKER") = ParserAt("END_MARKER", entry, Append(q, entry))
    <3>1. c.is = "SUMMARY"
      BY <1>2
    <3> QED
      BY <2>2, <3>1, SummaryLine
  <2> QED
    BY <2>1, <2>3, Zenon
<1> HIDE DEF entry, m
<1>8. push("tsan", ParserAt("END_MARKER", entry, Append(q, entry)), a)
         = ParserAt("START_MARKER", entry, Append(q, entry))
  <2> DEFINE p == ParserAt("END_MARKER", entry, Append(q, entry))
  <2>1. push("tsan", p, a) = create_checker(p, a, "marker", "START_MARKER")
    BY TsanPushes
  <2>2. create_checker(p, a, "marker", "START_MARKER") = ParserAt("START_MARKER", entry, Append(q, entry))
    <3>1. a.is = "marker"
      BY <1>2
    <3> QED
      BY <3>1, CheckedLine
  <2> QED
    BY <2>1, <2>2, Zenon
<1>9. parse_san_log("tsan", s \o u)
         = push("tsan", push("tsan", push("tsan", push("tsan", push("tsan",
             ParserAt("START_MARKER", e, q), a), w), b), c), a)
  <2>1. parse_san_log("tsan", s \o u)
          = push("tsan", push("tsan", push("tsan", push("tsan", push("tsan",
              parse_san_log("tsan", s), u[1]), u[2]), u[3]), u[4]), u[5])
    BY <1>1, FiveMoreLines, Zenon
  <2> QED
    BY <1>1, <2>1, Zenon
<1>10. parse_san_log("tsan", s \o u) = ParserAt("START_MARKER", entry, Append(q, entry))
  BY <1>4, <1>5, <1>6, <1>7, <1>8, <1>9, Zenon
<1> QED
  BY <1>3, <1>10 DEF u

LEMMA BlockIsParsed ==
  ASSUME NEW mode \in Modes, NEW error \in STRING, NEW s \in Seq(LogLine), NEW e, NEW q,
         parse_san_log(mode, s) = ParserAt("START_MARKER", e, q)
  PROVE  \E f : parse_san_log(mode, s \o Block(mode, error))
                  = ParserAt("START_MARKER", f, Append(q, Entry(mode, error)))
<1>1. CASE mode = "asan"
  BY <1>1, AsanBlockIsParsed, Zenon
<1>2. CASE mode = "tsan"
  BY <1>2, TsanBlockIsParsed, Zenon
<1> QED
  BY <1>1, <1>2 DEF Modes

\* What has been read when the first errors of a log have been.
LEMMA WrittenIsParsed ==
  ASSUME NEW mode \in Modes, NEW errors \in Seq(STRING), NEW k \in 0..Len(errors)
  PROVE  /\ Written(mode, errors)[k] \in Seq(LogLine)
         /\ \E e, q : /\ parse_san_log(mode, Written(mode, errors)[k]) = ParserAt("START_MARKER", e, q)
                      /\ q = [j \in 1..k |-> Entry(mode, errors[j])]
<1> DEFINE W(i) == Written(mode, errors)[i]
           Good(i) == /\ W(i) \in Seq(LogLine)
                      /\ \E e, q : /\ parse_san_log(mode, W(i)) = ParserAt("START_MARKER", e, q)
                                   /\ q = [j \in 1..i |-> Entry(mode, errors[j])]
           S == {i \in Nat : i <= Len(errors) => Good(i)}
<1>0. Len(errors) \in Nat /\ \A i \in 1..Len(errors) : errors[i] \in STRING
  OBVIOUS
<1>1. 0 \in S
  <2> DEFINE first == Line("installed", "runtime")
             s == W(0)
  <2>1. first \in LogLine /\ first.is = "installed"
    BY DEF Line, LogLine, LineKinds
  <2>2. s = <<first>>
    BY <1>0, WrittenGrows DEF Line
  <2> HIDE DEF first, s
  <2>3. s \in Seq(LogLine) /\ Len(s) = 1 /\ s[1] = first
    BY <2>1, <2>2
  <2>4. /\ Parser(mode, s)[0] = NewParser
        /\ Parser(mode, s)[1] = push(mode, Parser(mode, s)[0], s[1])
    <3>1. Len(s) \in Nat /\ 1 \in 1..Len(s) /\ 1 - 1 = 0
      BY <2>3
    <3>2. Parser(mode, s)[1] = push(mode, Parser(mode, s)[1 - 1], s[1])
      BY <3>1, ParserIsPushed
    <3> QED
      BY <3>1, <3>2, ParserIsPushed
  <2>5. parse_san_log(mode, s) = push(mode, NewParser, first)
    BY <2>3, <2>4 DEF parse_san_log
  <2>6. NewParser = ParserAt("START_MARKER", NewError, <<>>)
    BY DEF NewParser, ParserAt
  <2>7. push(mode, ParserAt("START_MARKER", NewError, <<>>), first) = ParserAt("START_MARKER", NewError, <<>>)
    <3>1. CASE mode = "asan"
      BY <2>1, <3>1, AsanIgnores
    <3>2. CASE mode = "tsan"
      <4>1. first.is = "installed"
        BY <2>1
      <4> QED
        BY <4>1, <3>2, TsanPushes
    <3> QED
      BY <3>1, <3>2 DEF Modes
  <2>8. <<>> = [j \in 1..0 |-> Entry(mode, errors[j])]
    OBVIOUS
  <2>9. Good(0)
    BY <2>3, <2>5, <2>6, <2>7, <2>8, Zenon DEF s
  <2> QED
    BY <2>9
<1>2. ASSUME NEW i \in Nat, i \in S PROVE i + 1 \in S
  <2> SUFFICES ASSUME i + 1 <= Len(errors) PROVE Good(i + 1)
    OBVIOUS
  <2>1. i + 1 \in 1..Len(errors) /\ i + 1 - 1 = i
    BY <1>0
  <2>2. Good(i)
    BY <1>0, <1>2
  <2> DEFINE error == errors[i + 1]
             u == Block(mode, error)
  <2>3. error \in STRING
    BY <1>0, <2>1
  <2>4. W(i + 1) = W(i) \o u
    <3> DEFINE j == i + 1
    <3>1. j \in 1..Len(errors) /\ j - 1 = i
      BY <2>1
    <3> HIDE DEF j
    <3>2. Written(mode, errors)[j] = Written(mode, errors)[j - 1] \o Block(mode, errors[j])
      BY <1>0, <3>1, WrittenGrows
    <3> QED
      BY <3>1, <3>2 DEF j
  <2> HIDE DEF error
  <2>5. u \in Seq(LogLine)
    BY <2>3, AsanBlock, TsanBlock DEF Modes
  <2> HIDE DEF W
  <2>6. PICK e, q : /\ parse_san_log(mode, W(i)) = ParserAt("START_MARKER", e, q)
                    /\ q = [j \in 1..i |-> Entry(mode, errors[j])]
    BY <2>2
  <2>7. \E f : parse_san_log(mode, W(i) \o u) = ParserAt("START_MARKER", f, Append(q, Entry(mode, error)))
    <3> DEFINE s == W(i)
    <3>1. s \in Seq(LogLine) /\ parse_san_log(mode, s) = ParserAt("START_MARKER", e, q)
      BY <2>2, <2>6
    <3> HIDE DEF s
    <3>2. \E f : parse_san_log(mode, s \o u) = ParserAt("START_MARKER", f, Append(q, Entry(mode, error)))
      BY <2>3, <3>1, BlockIsParsed, Zenon
    <3> QED
      BY <3>2 DEF s
  <2>8. Append(q, Entry(mode, error)) = [j \in 1..(i + 1) |-> Entry(mode, errors[j])]
    BY <2>1, <2>6 DEF error
  <2>9. W(i) \o u \in Seq(LogLine)
    BY <2>2, <2>5, Lengths
  <2> QED
    BY <2>4, <2>7, <2>8, <2>9
<1>3. k \in S
  <2> HIDE DEF S
  <2> QED BY <1>0, <1>1, <1>2, CountingUp
<1> QED
  BY <1>0, <1>3

-----------------------------------------------------------------------------
(* The end of a log.                                                       *)

\* How logs end.
LEMMA Endings ==
  ASSUME NEW log
  PROVE  /\ log.ends = "garbled" =>
              \A mode \in Modes :
                 Ending(mode, log) = <<Line("marker", "garbled"), Line("frame", "garbled")>>
         /\ log.ends = "cut" =>
              /\ Ending("asan", log) = <<Line("runtime error:", "unfinished")>> \o <<Line("frame", "unfinished")>>
              /\ Ending("tsan", log) = <<Line("marker", "unfinished"), Line("WARNING: ", "unfinished")>>
                                          \o <<Line("frame", "unfinished")>>
         /\ log.ends # "garbled" /\ log.ends # "cut" =>
              \A mode \in Modes : Ending(mode, log) = <<>>
<1>1. /\ log.ends = "garbled" =>
              \A mode \in Modes :
                 Ending(mode, log) = <<Line("marker", "garbled"), Line("frame", "garbled")>>
      /\ log.ends = "cut" =>
              \A mode \in Modes :
                 Ending(mode, log) = Opening(mode, "unfinished") \o Details("unfinished")
      /\ log.ends # "garbled" /\ log.ends # "cut" =>
              \A mode \in Modes : Ending(mode, log) = <<>>
  BY Zenon DEF Ending, Line
<1>2. /\ Opening("asan", "unfinished") = <<Line("runtime error:", "unfinished")>>
      /\ Opening("tsan", "unfinished") = <<Line("marker", "unfinished"), Line("WARNING: ", "unfinished")>>
      /\ Details("unfinished") = <<Line("frame", "unfinished")>>
  BY Zenon DEF Opening, Details, Line
<1> QED
  BY <1>1, <1>2, Zenon DEF Modes

LEMMA EndingLines ==
  ASSUME NEW of \in {"garbled", "unfinished"}
  PROVE  /\ Line("marker", of) \in LogLine /\ Line("frame", of) \in LogLine
         /\ Line("runtime error:", of) \in LogLine /\ Line("WARNING: ", of) \in LogLine
  BY DEF Line, LogLine, LineKinds

\* A log that ends well, or in the middle of an error, adds no error to those read.
LEMMA AsanEnds ==
  ASSUME NEW log, NEW s \in Seq(LogLine), NEW e, NEW q,
         parse_san_log("asan", s) = ParserAt("START_MARKER", e, q)
  PROVE  \E st, f : parse_san_log("asan", s \o Ending("asan", log)) = ParserAt(st, f, q)
<1> DEFINE none == <<>>
<1>0. "asan" \in Modes
  BY DEF Modes
<1>1. CASE log.ends = "garbled"
  <2> DEFINE a == Line("marker", "garbled")
             b == Line("frame", "garbled")
             u == Ending("asan", log)
  <2>1. u = <<a, b>>
    BY <1>0, <1>1, Endings
  <2>2. a \in LogLine /\ b \in LogLine
    BY EndingLines
  <2>3. a.is = "marker" /\ b.is = "frame"
    BY LineFields
  <2> HIDE DEF a, b, u
  <2>4. u \in Seq(LogLine) /\ Len(u) = 2 /\ u[1] = a /\ u[2] = b
    BY <2>1, <2>2, FewLines
  <2>5. push("asan", ParserAt("START_MARKER", e, q), a) = ParserAt("START_MARKER", e, q)
    BY <2>3, AsanIgnores
  <2>6. push("asan", ParserAt("START_MARKER", e, q), b) = ParserAt("START_MARKER", e, q)
    BY <2>3, AsanIgnores
  <2>7. parse_san_log("asan", s \o u) = push("asan", push("asan", ParserAt("START_MARKER", e, q), a), b)
    BY <2>4, TwoMoreLines, Zenon
  <2>8. parse_san_log("asan", s \o u) = ParserAt("START_MARKER", e, q)
    BY <2>5, <2>6, <2>7, Zenon
  <2> QED
    BY <2>8 DEF u
<1>2. CASE log.ends = "cut"
  <2> DEFINE a == Line("runtime error:", "unfinished")
             b == Line("frame", "unfinished")
             m == NameIn(a)
             u == Ending("asan", log)
  <2>1. u = <<a>> \o <<b>>
    BY <1>2, Endings
  <2>2. a \in LogLine /\ b \in LogLine
    BY EndingLines
  <2>3. a.is = "runtime error:" /\ b.is = "frame"
    BY LineFields
  <2> HIDE DEF a, b, u
  <2>4. u \in Seq(LogLine) /\ Len(u) = 2 /\ u[1] = a /\ u[2] = b
    <3>1. LET t == <<a>> \o <<b>> IN t \in Seq(LogLine) /\ Len(t) = 2 /\ t[1] = a /\ t[2] = b
      BY <2>2, FewLines
    <3> QED
      BY <2>1, <3>1, Zenon
  <2>5. push("asan", ParserAt("START_MARKER", e, q), a) = ParserAt("CONTENTS", ErrorOf(a, m, none), q)
    BY <2>3, AsanOpens
  <2> HIDE DEF none, m
  <2>6. push("asan", ParserAt("CONTENTS", ErrorOf(a, m, none), q), b)
          = ParserAt("CONTENTS", ErrorOf(a, m, Append(none, b)), q)
    <3> DEFINE p == ParserAt("CONTENTS", ErrorOf(a, m, none), q)
    <3>1. push("asan", p, b) = parse_details(p, b, AsanNames, "START_MARKER")
      BY AsanContents, Zenon DEF AsanNames
    <3>2. b.is = "frame"
      BY <2>3
    <3>3. parse_details(p, b, AsanNames, "START_MARKER")
            = ParserAt("CONTENTS", ErrorOf(a, m, Append(none, b)), q)
      BY <3>2, TraceLine
    <3> QED
      BY <3>1, <3>3, Zenon
  <2>7. parse_san_log("asan", s \o u) = push("asan", push("asan", ParserAt("START_MARKER", e, q), a), b)
    BY <2>4, TwoMoreLines, Zenon
  <2>8. parse_san_log("asan", s \o u) = ParserAt("CONTENTS", ErrorOf(a, m, Append(none, b)), q)
    BY <2>5, <2>6, <2>7, Zenon
  <2> QED
    BY <2>8 DEF u
<1>3. CASE log.ends # "garbled" /\ log.ends # "cut"
  <2>1. Ending("asan", log) = <<>>
    BY <1>0, <1>3, Endings
  <2>2. s \o <<>> = s
    OBVIOUS
  <2> QED
    BY <2>1, <2>2
<1> QED
  BY <1>1, <1>2, <1>3

\* The log of the thread sanitizer: the same, unless the marker is not followed by a
\* warning.
LEMMA TsanEnds ==
  ASSUME NEW log, NEW s \in Seq(LogLine), NEW e, NEW q,
         parse_san_log("tsan", s) = ParserAt("START_MARKER", e, q)
  PROVE  LET p == parse_san_log("tsan", s \o Ending("tsan", log))
         IN  /\ log.ends = "garbled" => p.invalid = TRUE
             /\ log.ends # "garbled" => \E st, f : p = ParserAt(st, f, q)
<1> DEFINE none == <<>>
           blank == ErrorOf(NoLine, NoLine, none)
<1>0. "tsan" \in Modes
  BY DEF Modes
<1>9. ASSUME NEW a, a.is = "marker"
      PROVE  push("tsan", ParserAt("START_MARKER", e, q), a) = ParserAt("WARNING", blank, q)
  <2>1. push("tsan", ParserAt("START_MARKER", e, q), a) = ParserAt("WARNING", NewError, q)
    BY <1>9, TsanOpens
  <2> QED
    BY <2>1, NewErrorOf, Zenon
<1> HIDE DEF none
<1>1. CASE log.ends = "garbled"
  <2> DEFINE a == Line("marker", "garbled")
             b == Line("frame", "garbled")
             u == Ending("tsan", log)
             p == ParserAt("WARNING", blank, q)
             expected == "WARNING: "
  <2>1. u = <<a, b>>
    BY <1>0, <1>1, Endings
  <2>2. a \in LogLine /\ b \in LogLine
    BY EndingLines
  <2>3. a.is = "marker" /\ b.is = "frame"
    BY LineFields
  <2> HIDE DEF a, b, u
  <2>4. u \in Seq(LogLine) /\ Len(u) = 2 /\ u[1] = a /\ u[2] = b
    BY <2>1, <2>2, FewLines
  <2>5. push("tsan", ParserAt("START_MARKER", e, q), a) = p
    BY <1>9, <2>3
  <2>6. push("tsan", p, b) = create_checker(p, b, expected, "DETAILS")
    BY TsanPushes
  <2>7. b.is # expected
    BY <2>3
  <2> HIDE DEF expected
  <2>8. create_checker(p, b, expected, "DETAILS").invalid = TRUE
    BY <2>7, UncheckedLine
  <2>9. parse_san_log("tsan", s \o u) = push("tsan", push("tsan", ParserAt("START_MARKER", e, q), a), b)
    BY <2>4, TwoMoreLines, Zenon
  <2>10. parse_san_log("tsan", s \o u).invalid = TRUE
    BY <2>5, <2>6, <2>8, <2>9, Zenon
  <2> QED
    BY <1>1, <2>10 DEF u
<1>2. CASE log.ends = "cut"
  <2> DEFINE a == Line("marker", "unfinished")
             w == Line("WARNING: ", "unfinished")
             b == Line("frame", "unfinished")
             u == Ending("tsan", log)
             expected == "WARNING: "
  <2>1. u = <<a, w>> \o <<b>>
    BY <1>2, Endings
  <2>2. a \in LogLine /\ w \in LogLine /\ b \in LogLine
    BY EndingLines
  <2>3. a.is = "marker" /\ w.is = expected /\ b.is = "frame"
    BY LineFields
  <2> HIDE DEF a, w, b, u
  <2>4. u \in Seq(LogLine) /\ Len(u) = 3 /\ u[1] = a /\ u[2] = w /\ u[3] = b
    <3>1. LET t == <<a, w>> \o <<b>>
          IN  t \in Seq(LogLine) /\ Len(t) = 3 /\ t[1] = a /\ t[2] = w /\ t[3] = b
      BY <2>2, FewLines
    <3> QED
      BY <2>1, <3>1, Zenon
  <2>5. push("tsan", ParserAt("START_MARKER", e, q), a) = ParserAt("WARNING", blank, q)
    BY <1>9, <2>3
  <2>6. push("tsan", ParserAt("WARNING", blank, q), w) = ParserAt("DETAILS", blank, q)
    <3> DEFINE p == ParserAt("WARNING", blank, q)
    <3>1. push("tsan", p, w) = create_checker(p, w, expected, "DETAILS")
      BY TsanPushes
    <3>2. w.is = expected
      BY <2>3
    <3> HIDE DEF expected
    <3>3. create_checker(p, w, expected, "DETAILS") = ParserAt("DETAILS", blank, q)
      BY <3>2, CheckedLine
    <3> QED
      BY <3>1, <3>3, Zenon
  <2>7. push("tsan", ParserAt("DETAILS", blank, q), b)
          = ParserAt("DETAILS", ErrorOf(NoLine, NoLine, Append(none, b)), q)
    <3> DEFINE p == ParserAt("DETAILS", blank, q)
    <3>1. push("tsan", p, b) = parse_details(p, b, {"SUMMARY"}, "END_MARKER")
      BY TsanPushes
    <3>2. b.is = "frame"
      BY <2>3
    <3>3. parse_details(p, b, {"SUMMARY"}, "END_MARKER")
            = ParserAt("DETAILS", ErrorOf(NoLine, NoLine, Append(none, b)), q)
      BY <3>2, TraceLine
    <3> QED
      BY <3>1, <3>3, Zenon
  <2>8. parse_san_log("tsan", s \o u)
          = push("tsan", push("tsan", push("tsan", ParserAt("START_MARKER", e, q), a), w), b)
    BY <2>4, ThreeMoreLines, Zenon
  <2>9. parse_san_log("tsan", s \o u) = ParserAt("DETAILS", ErrorOf(NoLine, NoLine, Append(none, b)), q)
    BY <2>5, <2>6, <2>7, <2>8, Zenon
  <2>10. log.ends # "garbled"
    BY <1>2
  <2> QED
    BY <2>9, <2>10, Zenon DEF u
<1>3. CASE log.ends # "garbled" /\ log.ends # "cut"
  <2>1. Ending("tsan", log) = <<>>
    BY <1>0, <1>3, Endings
  <2>2. s \o <<>> = s
    OBVIOUS
  <2> QED
    BY <1>3, <2>1, <2>2
<1> QED
  BY <1>1, <1>2, <1>3

\* A log of the sanitizers is read as its complete errors and no others, each with its
\* header, its trace and, unless the pattern of the names misses its line, its name; only a
\* line that the log of the thread sanitizer never has ends the program (sanParser.py:
\* parse_san_log, SanError.parse), whatever the number of its errors.
THEOREM EveryCompleteErrorIsReported ==
  ASSUME NEW mode \in Modes, NEW log \in [errors : Seq(STRING), ends : STRING]
  PROVE  LET p == parse_san_log(mode, Lines(mode, log))
         IN  /\ p.invalid <=> mode = "tsan" /\ log.ends = "garbled"
             /\ ~ p.invalid => Range(p.parsed) = Entries(mode, log)
<1> DEFINE errors == log.errors
           n == Len(errors)
           s == Written(mode, errors)[n]
           p == parse_san_log(mode, s \o Ending(mode, log))
<1>1. errors \in Seq(STRING) /\ n \in Nat /\ n \in 0..n
  OBVIOUS
<1>2. Lines(mode, log) = s \o Ending(mode, log)
  BY DEF Lines
<1> HIDE DEF s
<1>3. PICK e, q : /\ s \in Seq(LogLine) /\ parse_san_log(mode, s) = ParserAt("START_MARKER", e, q)
                  /\ q = [j \in 1..n |-> Entry(mode, errors[j])]
  BY <1>1, WrittenIsParsed DEF s
<1>4. Range(q) = Entries(mode, log)
  <2>1. DOMAIN errors = 1..n
    BY <1>1
  <2> HIDE DEF n
  <2> QED
    BY <1>3, <2>1 DEF Range, Entries
<1> HIDE DEF n, errors
<1>5. CASE mode = "tsan" /\ log.ends = "garbled"
  <2>1. p.invalid = TRUE
    BY <1>3, <1>5, TsanEnds
  <2> QED
    BY <1>2, <1>5, <2>1
<1>6. CASE mode = "asan" \/ log.ends # "garbled"
  <2>1. \E st, f : p = ParserAt(st, f, q)
    <3>1. CASE mode = "asan"
      <4>1. s \in Seq(LogLine) /\ parse_san_log("asan", s) = ParserAt("START_MARKER", e, q)
        BY <1>3, <3>1
      <4>2. \E st, f : parse_san_log("asan", s \o Ending("asan", log)) = ParserAt(st, f, q)
        BY <4>1, AsanEnds
      <4> QED
        BY <3>1, <4>2
    <3>2. CASE mode = "tsan"
      BY <1>3, <1>6, <3>2, TsanEnds
    <3> QED
      BY <3>1, <3>2 DEF Modes
  <2>2. p.invalid = FALSE /\ p.parsed = q
    BY <2>1 DEF ParserAt
  <2>3. ~(mode = "tsan" /\ log.ends = "garbled")
    BY <1>6
  <2> QED
    BY <1>2, <1>4, <2>2, <2>3
<1> QED
  BY <1>5, <1>6 DEF Modes

-----------------------------------------------------------------------------
(* What holds between any two steps of the runner.                         *)

\* The logs the runner reads, and where it stands once the directories are prepared.
Kinds == {"tsanlog", "ubsanlog"}
Late == {"suites", "cores", "tsanlog", "ubsanlog"}
AllLogs == UNION {o.logs : o \in Outcomes}

\* The log files a suite left behind, and what has to be reported of some of them.
LogFiles(s) == {[kind |-> LogKind, log |-> log] : log \in did[s].logs}
ErrorsIn(files_read) == UNION {Entries(ParserOf[f.kind], f.log) : f \in files_read}

\* What a suite may have come to.
Ran(outcome) ==
    /\ outcome \in [failed : BOOLEAN, crashed : BOOLEAN, logs : SUBSET AllLogs]
    /\ outcome.crashed => outcome.failed
    /\ sanitizers = {} => outcome.logs = {}

TypesInv ==
    /\ point \in Points /\ prepared \in BOOLEAN /\ counter \in Nat
    /\ sanitizers \in {{}, {"thread"}, {"address", "undefined"}}
    /\ DOMAIN did \subseteq Suites /\ \A s \in DOMAIN did : Ran(did[s])
    /\ \A f \in logs : f.kind \in {"tsanlog", "ubsanlog", "asanlog"}

\* What is in the directories before they are prepared, and who wrote what is there after.
DirectoriesInv ==
    /\ ~ prepared => logs = {} /\ core_results = NoEntries /\ san_results = NoEntries
    /\ point = "prepare" => did = NoEntries /\ suite = NoSuite /\ failed_test_suites = {}
    /\ point \in Late =>
         /\ prepared = TRUE
         /\ left = Suites \ DOMAIN did
         /\ DOMAIN san_results \subseteq (DOMAIN did) \X Kinds \X Nat
         /\ DOMAIN core_results \subseteq {s \in DOMAIN did : did[s].failed}
         /\ failed_test_suites \subseteq DOMAIN did

\* What is reported of a suite is what it did.
JudgedRight(s) ==
    /\ s \in failed_test_suites <=> did[s].failed
    /\ did[s].crashed => s \in DOMAIN core_results
    /\ Reported(s) = Errors(did[s])

JudgedInv ==
    /\ point \in Late => \A s \in Judged : JudgedRight(s)
    /\ point = "succeeded" =>
         /\ DOMAIN did = Suites
         /\ \A s \in Suites : ~ did[s].failed /\ Reported(s) = Errors(did[s])

\* A suite that failed is dealt with before it is judged: its core files first,
SuitesInv ==
    /\ point = "suites" => suite = NoSuite /\ logs = {}
    /\ point \in Late \ {"suites"} => suite \in DOMAIN did
    /\ point = "cores" =>
         /\ did[suite].failed /\ suite \notin failed_test_suites
         /\ did[suite].crashed => paths # {} \/ suite \in DOMAIN core_results
         /\ logs = LogFiles(suite)
         /\ \A key \in DOMAIN san_results : key[1] # suite

\* then the logs of either kind, whose errors are what has been reported so far.
LogsInv ==
    /\ point \in Kinds =>
         /\ suite \in failed_test_suites <=> did[suite].failed
         /\ did[suite].crashed => suite \in DOMAIN core_results
         /\ paths = LogPaths(point, logs)
         /\ logs \subseteq LogFiles(suite)
         /\ Reported(suite) = ErrorsIn(LogFiles(suite) \ logs)
         /\ \A key \in DOMAIN san_results : key[1] = suite /\ key[2] = point => key[3] < counter
    /\ point = "tsanlog" => \A key \in DOMAIN san_results : key[1] = suite => key[2] = "tsanlog"
    /\ point = "ubsanlog" => LogPaths("tsanlog", logs) = {}

RunnerInv == TypesInv /\ DirectoriesInv /\ JudgedInv /\ SuitesInv /\ LogsInv

-----------------------------------------------------------------------------
(* Tables and results.                                                     *)

\* What a table holds once something is stored.
LEMMA StoreDomain ==
  ASSUME NEW table, NEW key, NEW stored
  PROVE  DOMAIN Store(table, key, stored) = {key} \cup DOMAIN table
  BY DEF Store

LEMMA StoreNew ==
  ASSUME NEW table, NEW key, NEW stored
  PROVE  Store(table, key, stored)[key] = stored
  BY DEF Store

LEMMA StoreOld ==
  ASSUME NEW table, NEW key, NEW stored
  PROVE  \A k \in DOMAIN table : k # key => Store(table, key, stored)[k] = table[k]
  BY DEF Store

\* What results there are of a suite.
Collected(results, s) == UNION {results[key] : key \in {k \in DOMAIN results : k[1] = s}}

\* A new results file adds its errors to those of its suite, and to no other's.
LEMMA StoredResult ==
  ASSUME NEW results, NEW key, key \notin DOMAIN results, NEW stored
  PROVE  /\ Collected(Store(results, key, stored), key[1]) = Collected(results, key[1]) \cup stored
         /\ \A t : t # key[1] => Collected(Store(results, key, stored), t) = Collected(results, t)
<1> DEFINE table == Store(results, key, stored)
<1>1. /\ DOMAIN table = {key} \cup DOMAIN results /\ table[key] = stored
      /\ \A k \in DOMAIN results : table[k] = results[k]
  <2>1. DOMAIN table = {key} \cup DOMAIN results
    BY StoreDomain
  <2>2. table[key] = stored
    BY StoreNew
  <2>3. \A k \in DOMAIN results : k # key => table[k] = results[k]
    BY StoreOld
  <2>4. \A k \in DOMAIN results : k # key
    OBVIOUS
  <2> QED
    BY <2>1, <2>2, <2>3, <2>4, Zenon
<1> HIDE DEF table
<1>2. Collected(table, key[1]) = Collected(results, key[1]) \cup stored
  BY <1>1 DEF Collected
<1>3. \A t : t # key[1] => Collected(table, t) = Collected(results, t)
  BY <1>1 DEF Collected
<1> QED
  BY <1>2, <1>3 DEF table

LEMMA EmptyResult == \A s : Collected(NoEntries, s) = {}
  BY DEF Collected, NoEntries

\* Nothing is stored yet.
LEMMA NoEntriesAtAll == DOMAIN NoEntries = {}
  BY DEF NoEntries

-----------------------------------------------------------------------------
(* The invariant.                                                          *)

\* The invariant holds at first, and where the runner does nothing.
LEMMA InitRunnerInv == RunnerInit => RunnerInv
<1> SUFFICES ASSUME RunnerInit PROVE RunnerInv
  OBVIOUS
<1>1. point = "off" /\ DOMAIN did = {} /\ sanitizers = {} /\ prepared = FALSE /\ counter = 1 /\ logs = {}
  BY NoEntriesAtAll DEF RunnerInit
<1>2. TypesInv
  BY <1>1 DEF TypesInv, Points
<1>3. DirectoriesInv
  BY <1>1 DEF RunnerInit, DirectoriesInv, Late
<1>4. JudgedInv /\ SuitesInv /\ LogsInv
  BY <1>1 DEF JudgedInv, SuitesInv, LogsInv, Late, Kinds
<1> QED
  BY <1>2, <1>3, <1>4 DEF RunnerInv

LEMMA StutterRunnerInv == RunnerInv /\ UNCHANGED runner_vars => RunnerInv'
<1> SUFFICES ASSUME RunnerInv, UNCHANGED runner_vars PROVE RunnerInv'
  OBVIOUS
<1> USE DEF runner_vars, working, files
<1>1. LogKind' = LogKind /\ Judged' = Judged
  BY DEF LogKind, Judged
<1>2. \A s : Reported(s)' = Reported(s)
  BY DEF Reported
<1>3. TypesInv'
  BY DEF RunnerInv, TypesInv, Ran
<1>4. DirectoriesInv'
  BY DEF RunnerInv, DirectoriesInv
<1>5. JudgedInv'
  BY <1>1 DEF RunnerInv, JudgedInv, JudgedRight, Reported, Errors
<1>6. SuitesInv'
  BY <1>1 DEF RunnerInv, SuitesInv, LogFiles
<1>7. LogsInv'
  BY <1>1 DEF RunnerInv, LogsInv, LogFiles, LogPaths, Reported
<1> QED
  BY <1>3, <1>4, <1>5, <1>6, <1>7 DEF RunnerInv

\* The container starts a runner: what is in the directories is what was there.
LEMMA StartRunnerInv ==
  ASSUME RunnerInv, NEW configured \in {{}, {"thread"}, {"address", "undefined"}},
         StartRunner(configured)
  PROVE  RunnerInv'
<1> USE DEF StartRunner, files
<1>1. point' = "prepare" /\ DOMAIN did' = {} /\ counter' = 1
  BY NoEntriesAtAll
<1>2. TypesInv'
  BY <1>1 DEF RunnerInv, TypesInv, Points, Active
<1>3. DirectoriesInv'
  BY <1>1 DEF RunnerInv, DirectoriesInv, Late
<1>4. JudgedInv' /\ SuitesInv' /\ LogsInv'
  BY <1>1 DEF JudgedInv, SuitesInv, LogsInv, Late, Kinds
<1> QED
  BY <1>2, <1>3, <1>4 DEF RunnerInv

\* prepare_tests leaves the directories prepared, and goes on only when they were not.
LEMMA PrepareInv ==
  ASSUME RunnerInv, prepare_tests
  PROVE  RunnerInv'
<1> USE DEF prepare_tests
<1>1. point = "prepare" /\ DOMAIN did = {} /\ suite = NoSuite /\ failed_test_suites = {}
  BY NoEntriesAtAll DEF RunnerInv, DirectoriesInv
<1>2. TypesInv'
  BY <1>1 DEF RunnerInv, TypesInv, Points, Active, Ran
<1>3. CASE point' = "failed"
  <2>1. DirectoriesInv' /\ JudgedInv' /\ SuitesInv' /\ LogsInv'
    BY <1>3 DEF DirectoriesInv, JudgedInv, SuitesInv, LogsInv, Late, Kinds
  <2> QED
    BY <1>2, <2>1 DEF RunnerInv
<1>4. CASE prepared = FALSE /\ point' = "suites" /\ left' = Suites
  <2>1. logs = {} /\ DOMAIN core_results = {} /\ DOMAIN san_results = {}
    BY <1>4, NoEntriesAtAll DEF RunnerInv, DirectoriesInv
  <2>2. DirectoriesInv'
    BY <1>1, <1>4, <2>1 DEF DirectoriesInv
  <2>3. JudgedInv'
    BY <1>1, <1>4 DEF JudgedInv, Judged
  <2>4. SuitesInv' /\ LogsInv'
    BY <1>1, <1>4, <2>1 DEF SuitesInv, LogsInv, Late, Kinds
  <2> QED
    BY <1>2, <2>2, <2>3, <2>4 DEF RunnerInv
<1> QED
  BY <1>3, <1>4

\* What a suite came to, as the session sees it.
Seen(outcome) == [failed |-> outcome.failed, crashed |-> outcome.crashed, errors |-> Errors(outcome)]

\* What a suite leaves behind once it was run.
LEMMA DispatchFacts ==
  ASSUME RunnerInv, NEW s \in Suites, dispatch_test_subprocess(s)
  PROVE  /\ point = "suites" /\ suite = NoSuite /\ s \notin DOMAIN did /\ logs = {}
         /\ suite' = s /\ DOMAIN did' = {s} \cup DOMAIN did /\ point' \in {"cores", "tsanlog"}
         /\ \A t \in DOMAIN did : did'[t] = did[t]
         /\ Ran(did[s])' /\ LogKind' = LogKind
         /\ logs' = LogFiles(s)'
         /\ did'[s].failed => point' = "cores" /\ paths' = cores'
         /\ ~ did'[s].failed => point' = "tsanlog" /\ paths' = LogPaths("tsanlog", logs')
         /\ did'[s].crashed => s \in cores'
         /\ Judged' = DOMAIN did /\ Judged = DOMAIN did
<1> USE DEF dispatch_test_subprocess
<1>1. point = "suites" /\ suite = NoSuite /\ s \notin DOMAIN did /\ logs = {} /\ suite' = s
  BY DEF RunnerInv, DirectoriesInv, SuitesInv, Late
<1>2. PICK outcome \in Outcomes :
        /\ did' = Store(did, s, [outcome EXCEPT !.logs = LogsOf(outcome)])
        /\ cores' = cores \cup (IF outcome.crashed THEN {s} ELSE {})
        /\ logs' = logs \cup {[kind |-> LogKind, log |-> log] : log \in LogsOf(outcome)}
        /\ point' = IF outcome.failed THEN "cores" ELSE "tsanlog"
        /\ paths' = IF outcome.failed THEN cores' ELSE LogPaths("tsanlog", logs')
  OBVIOUS
<1> DEFINE o == [outcome EXCEPT !.logs = LogsOf(outcome)]
<1>3. /\ outcome \in [failed : BOOLEAN, crashed : BOOLEAN, logs : SUBSET AllLogs]
      /\ outcome.crashed => outcome.failed
  BY OutcomesAssumption DEF AllLogs
<1>4. LogsOf(outcome) \subseteq outcome.logs /\ (sanitizers = {} => LogsOf(outcome) = {})
  BY DEF LogsOf
<1>5. /\ o \in [failed : BOOLEAN, crashed : BOOLEAN, logs : SUBSET AllLogs]
      /\ o.failed = outcome.failed /\ o.crashed = outcome.crashed /\ o.logs = LogsOf(outcome)
  BY <1>3, <1>4
<1> HIDE DEF o
<1>6. /\ DOMAIN did' = {s} \cup DOMAIN did /\ did'[s] = o
      /\ \A t \in DOMAIN did : did'[t] = did[t]
  <2>1. \A t \in DOMAIN did : t # s
    BY <1>1
  <2>2. did' = Store(did, s, o)
    BY <1>2 DEF o
  <2>3. DOMAIN Store(did, s, o) = {s} \cup DOMAIN did
    BY StoreDomain
  <2>4. Store(did, s, o)[s] = o
    BY StoreNew
  <2>5. \A t \in DOMAIN did : t # s => Store(did, s, o)[t] = did[t]
    BY StoreOld
  <2> QED
    BY <2>1, <2>2, <2>3, <2>4, <2>5, Zenon
<1>7. sanitizers' = sanitizers /\ LogKind' = LogKind
  BY DEF LogKind
<1>8. Ran(did[s])'
  <2>1. /\ did'[s] \in [failed : BOOLEAN, crashed : BOOLEAN, logs : SUBSET AllLogs]
        /\ did'[s].crashed => did'[s].failed
        /\ sanitizers' = {} => did'[s].logs = {}
    BY <1>3, <1>4, <1>5, <1>6, <1>7
  <2> QED
    BY <2>1 DEF Ran, AllLogs
<1>9. logs' = LogFiles(s)'
  BY <1>1, <1>2, <1>5, <1>6, <1>7 DEF LogFiles
<1>10. Judged' = DOMAIN did /\ Judged = DOMAIN did
  BY <1>1, <1>6, SuitesAssumption DEF Judged, RunnerInv, TypesInv
<1> QED
  BY <1>1, <1>2, <1>3, <1>5, <1>6, <1>7, <1>8, <1>9, <1>10

\* A suite stays rightly judged while nothing that is reported of it changes.
LEMMA JudgedStays ==
  ASSUME NEW t, JudgedRight(t), did'[t] = did[t], LogKind' = LogKind,
         t \in failed_test_suites' <=> t \in failed_test_suites,
         t \in DOMAIN core_results => t \in DOMAIN core_results',
         Reported(t)' = Reported(t)
  PROVE  JudgedRight(t)'
<1>1. Errors(did[t])' = Errors(did[t])
  BY DEF Errors
<1> QED
  BY <1>1 DEF JudgedRight

\* No log read, no error reported.
LEMMA NothingRead == ErrorsIn({}) = {}
  BY DEF ErrorsIn

\* A suite is run: it has no results yet, and its logs are the only ones.
LEMMA DispatchInv ==
  ASSUME RunnerInv, NEW s \in Suites, dispatch_test_subprocess(s)
  PROVE  RunnerInv'
<1>1. /\ point = "suites" /\ suite = NoSuite /\ s \notin DOMAIN did /\ logs = {}
      /\ suite' = s /\ DOMAIN did' = {s} \cup DOMAIN did /\ point' \in {"cores", "tsanlog"}
      /\ \A t \in DOMAIN did : did'[t] = did[t]
      /\ Ran(did[s])' /\ LogKind' = LogKind
      /\ logs' = LogFiles(s)'
      /\ did'[s].failed => point' = "cores" /\ paths' = cores'
      /\ ~ did'[s].failed => point' = "tsanlog" /\ paths' = LogPaths("tsanlog", logs')
      /\ did'[s].crashed => s \in cores'
      /\ Judged' = DOMAIN did /\ Judged = DOMAIN did
  BY DispatchFacts
<1>2. /\ left' = left \ {s} /\ counter' = 1 /\ sanitizers' = sanitizers /\ prepared' = prepared
      /\ failed_test_suites' = failed_test_suites
      /\ core_results' = core_results /\ san_results' = san_results
  BY DEF dispatch_test_subprocess
<1>3. /\ prepared = TRUE /\ left = Suites \ DOMAIN did
      /\ DOMAIN san_results \subseteq (DOMAIN did) \X Kinds \X Nat
      /\ DOMAIN core_results \subseteq {t \in DOMAIN did : did[t].failed}
      /\ failed_test_suites \subseteq DOMAIN did
      /\ \A t \in DOMAIN did : JudgedRight(t)
  BY <1>1 DEF RunnerInv, DirectoriesInv, JudgedInv, Late
<1>4. TypesInv'
  <2>1. \A t \in DOMAIN did : Ran(did[t])'
    BY <1>1, <1>2 DEF RunnerInv, TypesInv, Ran
  <2>2. \A t \in DOMAIN did' : Ran(did[t])'
    BY <1>1, <2>1
  <2>3. \A f \in logs' : f.kind \in {"tsanlog", "ubsanlog", "asanlog"}
    BY <1>1 DEF LogFiles, LogKind
  <2> QED
    BY <1>1, <1>2, <2>2, <2>3 DEF RunnerInv, TypesInv, Points, Active
<1>5. DirectoriesInv'
  <2>1. DOMAIN san_results' \subseteq (DOMAIN did') \X Kinds \X Nat
    BY <1>1, <1>2, <1>3
  <2>2. DOMAIN core_results' \subseteq {t \in DOMAIN did' : did'[t].failed}
    BY <1>1, <1>2, <1>3
  <2> QED
    BY <1>1, <1>2, <1>3, <2>1, <2>2 DEF DirectoriesInv, Late
<1>6. JudgedInv'
  <2>1. ASSUME NEW t \in DOMAIN did PROVE JudgedRight(t)'
    <3>1. Reported(t)' = Reported(t)
      BY <1>2 DEF Reported
    <3> QED
      BY <1>1, <1>2, <1>3, <3>1, JudgedStays
  <2> QED
    BY <1>1, <2>1 DEF JudgedInv
<1>7. \A key \in DOMAIN san_results' : key[1] # s
  BY <1>1, <1>2, <1>3
<1>8. SuitesInv'
  BY <1>1, <1>3, <1>2, <1>7 DEF SuitesInv, Late
<1>9. LogsInv'
  <2>1. point' \in Kinds => point' = "tsanlog" /\ ~ did'[s].failed
    BY <1>1 DEF Kinds
  <2>2. Reported(suite)' = {}
    BY <1>1, <1>7 DEF Reported
  <2>3. logs' = LogFiles(suite)' /\ ErrorsIn(LogFiles(suite) \ logs)' = {}
    BY <1>1 DEF LogFiles, ErrorsIn
  <2>4. ~ did'[s].failed => ~ did'[s].crashed /\ s \notin failed_test_suites'
    BY <1>1, <1>2, <1>3 DEF Ran
  <2>5. point' = "tsanlog" =>
          /\ suite' \in failed_test_suites' <=> did'[suite'].failed
          /\ ~ did'[suite'].crashed
          /\ paths' = LogPaths("tsanlog", logs')
    <3> SUFFICES ASSUME point' = "tsanlog"
                 PROVE  /\ suite' \in failed_test_suites' <=> did'[suite'].failed
                        /\ ~ did'[suite'].crashed
                        /\ paths' = LogPaths("tsanlog", logs')
      OBVIOUS
    <3>1. ~ did'[s].failed
      BY <2>1 DEF Kinds
    <3>2. suite' = s /\ paths' = LogPaths("tsanlog", logs')
      BY <1>1, <3>1
    <3> QED
      BY <2>4, <3>1, <3>2
  <2> QED
    BY <1>1, <1>7, <2>1, <2>2, <2>3, <2>5 DEF LogsInv, LogPaths
<1> QED
  BY <1>4, <1>5, <1>6, <1>8, <1>9 DEF RunnerInv

\* A runner that has ended, however.
LEMMA EndedInv ==
  ASSUME RunnerInv, point' \in {"failed", "off"}, UNCHANGED <<sanitizers, did>>, counter' \in Nat,
         prepared' \in BOOLEAN, logs' \subseteq logs,
         ~ prepared' => logs' = {} /\ core_results' = NoEntries /\ san_results' = NoEntries
  PROVE  RunnerInv'
<1>1. TypesInv'
  BY DEF RunnerInv, TypesInv, Ran, Points, Active
<1>2. DirectoriesInv' /\ JudgedInv' /\ SuitesInv' /\ LogsInv'
  BY DEF DirectoriesInv, JudgedInv, SuitesInv, LogsInv, Late, Kinds
<1> QED
  BY <1>1, <1>2 DEF RunnerInv

\* A core file: the results of the core are those of the suite that is dealt with.
LEMMA HandleCoreInv ==
  ASSUME RunnerInv, NEW c, handle_core_file(c)
  PROVE  RunnerInv'
<1> USE DEF handle_core_file
<1>1. CASE point' = "failed"
  BY <1>1, EndedInv DEF RunnerInv, TypesInv, DirectoriesInv, Late
<1>2. CASE point' = point /\ core_results' = Store(core_results, suite, c)
  <2>1. DOMAIN core_results' = {suite} \cup DOMAIN core_results
    BY <1>2, StoreDomain
  <2>2. LogKind' = LogKind /\ Judged' = Judged
    BY DEF LogKind, Judged
  <2>3. TypesInv'
    BY <1>2 DEF RunnerInv, TypesInv, Ran
  <2>4. suite \in DOMAIN did /\ did[suite].failed
    BY DEF RunnerInv, SuitesInv, Late
  <2>5. DirectoriesInv'
    BY <1>2, <2>1, <2>4 DEF RunnerInv, DirectoriesInv, Late
  <2>6. JudgedInv'
    <3>1. ASSUME NEW t \in Judged PROVE JudgedRight(t)'
      <4>1. Reported(t)' = Reported(t)
        BY DEF Reported
      <4> QED
        BY <2>1, <2>2, <4>1, JudgedStays DEF RunnerInv, JudgedInv, Late
    <3> QED
      BY <1>2, <2>2, <3>1 DEF JudgedInv
  <2>7. SuitesInv' /\ LogsInv'
    <3>1. LogFiles(suite)' = LogFiles(suite)
      BY <2>2 DEF LogFiles
    <3> QED
      BY <1>2, <2>1, <3>1 DEF RunnerInv, SuitesInv, LogsInv, Kinds
  <2> QED
    BY <2>3, <2>5, <2>6, <2>7 DEF RunnerInv
<1> QED
  BY <1>1, <1>2

\* The core files of a suite are dealt with, and it is counted among the failed ones.
LEMMA SuiteFailedInv ==
  ASSUME RunnerInv, SuiteFailed
  PROVE  RunnerInv'
<1> USE DEF SuiteFailed, files
<1>1. /\ suite \in DOMAIN did /\ did[suite].failed /\ suite \notin failed_test_suites
      /\ did[suite].crashed => suite \in DOMAIN core_results
      /\ logs = LogFiles(suite) /\ \A key \in DOMAIN san_results : key[1] # suite
  BY DEF RunnerInv, SuitesInv, Late
<1>2. LogKind' = LogKind /\ Judged' = Judged /\ LogFiles(suite)' = LogFiles(suite)
  BY DEF LogKind, Judged, LogFiles
<1>3. TypesInv'
  BY DEF RunnerInv, TypesInv, Ran, Points, Active
<1>4. DirectoriesInv'
  BY <1>1 DEF RunnerInv, DirectoriesInv, Late
<1>5. JudgedInv'
  <2>1. ASSUME NEW t \in Judged PROVE JudgedRight(t)'
    <3>1. Reported(t)' = Reported(t)
      BY DEF Reported
    <3>2. t # suite
      BY DEF Judged
    <3> QED
      BY <1>2, <3>1, <3>2, JudgedStays DEF RunnerInv, JudgedInv, Late
  <2> QED
    BY <1>2, <2>1 DEF JudgedInv
<1>6. SuitesInv'
  BY <1>1 DEF SuitesInv
<1>7. LogsInv'
  <2>1. Reported(suite)' = {} /\ ErrorsIn(LogFiles(suite) \ logs)' = {}
    BY <1>1, <1>2 DEF Reported, ErrorsIn
  <2>2. did'[suite].failed = TRUE
    BY <1>1 DEF RunnerInv, TypesInv, Ran
  <2> QED
    BY <1>1, <1>2, <2>1, <2>2 DEF LogsInv, LogPaths
<1> QED
  BY <1>3, <1>4, <1>5, <1>6, <1>7 DEF RunnerInv

\* The logs the runner reads are those of the suite it deals with.
LEMMA LogsOfRuns ==
  ASSUME RunnerInv, point \in Kinds, NEW f \in logs
  PROVE  /\ f.log \in [errors : Seq(STRING), ends : STRING] /\ f.kind = LogKind
         /\ f \in LogFiles(suite)
<1>1. suite \in DOMAIN did /\ logs \subseteq LogFiles(suite)
  BY DEF RunnerInv, SuitesInv, LogsInv, Late, Kinds
<1>2. did[suite].logs \subseteq AllLogs
  BY <1>1 DEF RunnerInv, TypesInv, Ran
<1>3. AllLogs \subseteq [errors : Seq(STRING), ends : STRING]
  <2>1. \A o \in Outcomes : o.logs \subseteq [errors : Seq(STRING), ends : STRING]
    BY OutcomesAssumption
  <2> QED
    BY <2>1 DEF AllLogs
<1>4. PICK log \in did[suite].logs : f = [kind |-> LogKind, log |-> log]
  BY <1>1 DEF LogFiles
<1>5. f.log = log /\ f.kind = LogKind
  BY <1>4
<1> QED
  BY <1>1, <1>2, <1>3, <1>4, <1>5

\* A log is read as its complete errors, or ends the runner and changes nothing.
LEMMA LogIsRead ==
  ASSUME RunnerInv, NEW f \in logs, process_sanitizer_log(f)
  PROVE  \/ point' = "failed" /\ UNCHANGED <<logs, san_results, counter>>
         \/ /\ point' = point /\ counter' = counter + 1
            /\ paths' = paths \ {f} /\ logs' = logs \ {f}
            /\ san_results' = Store(san_results, <<suite, point, counter>>,
                                    Entries(ParserOf[f.kind], f.log))
<1> DEFINE p == parse_san_log(ParserOf[f.kind], Lines(ParserOf[f.kind], f.log))
<1>1. point = f.kind /\ f \in paths
  BY DEF process_sanitizer_log
<1>2. point \in Kinds
  BY <1>1 DEF RunnerInv, TypesInv, Points, Active, Kinds
<1>3. f.log \in [errors : Seq(STRING), ends : STRING] /\ ParserOf[f.kind] \in Modes
  BY <1>1, <1>2, LogsOfRuns DEF ParserOf, Kinds, Modes
<1> HIDE DEF p
<1>4. CASE p.invalid
  BY <1>4 DEF process_sanitizer_log, p
<1>5. CASE ~ p.invalid
  <2>1. /\ san_results' = Store(san_results, <<suite, f.kind, counter>>, Range(p.parsed))
        /\ paths' = paths \ {f} /\ logs' = logs \ {f}
        /\ counter' = counter + 1 /\ point' = point
    BY <1>5 DEF process_sanitizer_log, p
  <2>2. Range(p.parsed) = Entries(ParserOf[f.kind], f.log)
    BY <1>3, <1>5, EveryCompleteErrorIsReported DEF p
  <2> QED
    BY <1>1, <2>1, <2>2
<1> QED
  BY <1>4, <1>5

\* The errors of one log more.
LEMMA ReadOneMore ==
  ASSUME NEW files_read, NEW f
  PROVE  ErrorsIn(files_read \cup {f}) = ErrorsIn(files_read) \cup Entries(ParserOf[f.kind], f.log)
  BY DEF ErrorsIn

\* A log: its errors become results of the suite under a number that is new.
LEMMA ProcessLogInv ==
  ASSUME RunnerInv, NEW f \in logs, process_sanitizer_log(f)
  PROVE  RunnerInv'
<1>0. point = f.kind /\ f \in paths
  BY DEF process_sanitizer_log
<1>1. point \in Kinds
  BY <1>0 DEF RunnerInv, TypesInv, Points, Active, Kinds
<1>2. UNCHANGED <<sanitizers, left, suite, failed_test_suites, prepared, cores, core_results, did>>
  BY DEF process_sanitizer_log
<1>3. prepared = TRUE /\ suite \in DOMAIN did /\ counter \in Nat
  BY <1>1 DEF RunnerInv, TypesInv, DirectoriesInv, SuitesInv, Late, Kinds
<1>4. CASE point' = "failed" /\ UNCHANGED <<logs, san_results, counter>>
  BY <1>2, <1>3, <1>4, EndedInv
<1>5. CASE /\ point' = point /\ counter' = counter + 1
           /\ paths' = paths \ {f} /\ logs' = logs \ {f}
           /\ san_results' = Store(san_results, <<suite, point, counter>>,
                                   Entries(ParserOf[f.kind], f.log))
  <2> DEFINE key == <<suite, point, counter>>
             errors == Entries(ParserOf[f.kind], f.log)
  <2>1. key \notin DOMAIN san_results /\ key[1] = suite /\ key[2] = point /\ key[3] = counter
    BY <1>1, <1>3 DEF RunnerInv, LogsInv
  <2>2. key \in (DOMAIN did) \X Kinds \X Nat
    BY <1>1, <1>3
  <2>3. san_results' = Store(san_results, key, errors)
    BY <1>5
  <2> HIDE DEF key, errors
  <2>4. DOMAIN san_results' = {key} \cup DOMAIN san_results
    BY <2>3, StoreDomain
  <2>5. Collected(san_results', suite) = Collected(san_results, suite) \cup errors
    <3>1. Collected(Store(san_results, key, errors), key[1]) = Collected(san_results, key[1]) \cup errors
      BY <2>1, StoredResult
    <3> QED
      BY <2>1, <2>3, <3>1
  <2>6. ASSUME NEW t, t # suite PROVE Collected(san_results', t) = Collected(san_results, t)
    <3>1. \A u : u # key[1] => Collected(Store(san_results, key, errors), u) = Collected(san_results, u)
      BY <2>1, StoredResult
    <3> QED
      BY <2>1, <2>3, <2>6, <3>1
  <2>7. LogKind' = LogKind /\ Judged' = Judged /\ LogFiles(suite)' = LogFiles(suite)
    BY <1>2 DEF LogKind, Judged, LogFiles
  <2>8. TypesInv'
    BY <1>2, <1>3, <1>5 DEF RunnerInv, TypesInv, Ran
  <2>9. DirectoriesInv'
    BY <1>1, <1>2, <1>5, <2>2, <2>4 DEF RunnerInv, DirectoriesInv, Late, Kinds
  <2>10. JudgedInv'
    <3>1. ASSUME NEW t \in Judged PROVE JudgedRight(t)'
      <4>1. t # suite
        BY DEF Judged
      <4>2. Reported(t)' = Reported(t)
        BY <2>6, <4>1 DEF Reported, Collected
      <4>3. JudgedRight(t)
        BY <1>1 DEF RunnerInv, JudgedInv, Late, Kinds
      <4>4. did'[t] = did[t] /\ t \in failed_test_suites' <=> t \in failed_test_suites
        BY <1>2
      <4> QED
        BY <1>2, <2>7, <4>2, <4>3, JudgedStays
    <3> QED
      BY <1>1, <1>5, <2>7, <3>1 DEF JudgedInv, Kinds
  <2>11. SuitesInv'
    BY <1>1, <1>2, <1>3, <1>5 DEF SuitesInv, Kinds
  <2>12. LogsInv'
    <3>1. f \in LogFiles(suite) /\ logs \subseteq LogFiles(suite)
      BY <1>1, LogsOfRuns DEF RunnerInv, LogsInv
    <3>2. Reported(suite)' = ErrorsIn(LogFiles(suite) \ logs) \cup errors
      BY <1>1, <1>2, <2>5 DEF RunnerInv, LogsInv, Reported, Collected
    <3>3. LogFiles(suite) \ logs' = (LogFiles(suite) \ logs) \cup {f}
      BY <1>5, <3>1
    <3>4. ErrorsIn(LogFiles(suite) \ logs') = ErrorsIn(LogFiles(suite) \ logs) \cup errors
      BY <3>3, ReadOneMore DEF errors
    <3>5. ErrorsIn(LogFiles(suite) \ logs)' = ErrorsIn(LogFiles(suite) \ logs')
      BY <2>7 DEF ErrorsIn
    <3>6. Reported(suite)' = ErrorsIn(LogFiles(suite) \ logs)'
      BY <3>2, <3>4, <3>5
    <3>7. paths' = LogPaths(point', logs')
      BY <1>1, <1>5 DEF RunnerInv, LogsInv, LogPaths
    <3>8. \A k \in DOMAIN san_results' : k[1] = suite /\ k[2] = point => k[3] < counter'
      BY <1>1, <1>3, <1>5, <2>1, <2>4 DEF RunnerInv, LogsInv, DirectoriesInv, Late, Kinds
    <3>9. point = "tsanlog" => \A k \in DOMAIN san_results' : k[1] = suite => k[2] = "tsanlog"
      BY <2>1, <2>4 DEF RunnerInv, LogsInv
    <3>10. point = "ubsanlog" => LogPaths("tsanlog", logs') = {}
      BY <1>5 DEF RunnerInv, LogsInv, LogPaths
    <3>11. /\ suite \in failed_test_suites <=> did[suite].failed
           /\ did[suite].crashed => suite \in DOMAIN core_results
      BY <1>1 DEF RunnerInv, LogsInv
    <3> QED
      BY <1>1, <1>2, <1>5, <2>7, <3>1, <3>6, <3>7, <3>8, <3>9, <3>10, <3>11 DEF LogsInv
  <2> QED
    BY <2>8, <2>9, <2>10, <2>11, <2>12 DEF RunnerInv
<1> QED
  BY <1>4, <1>5, LogIsRead

\* When no log of the second kind is left, none is, and the suite is judged right.
LEMMA AllRead ==
  ASSUME RunnerInv, LogsDone, point = "ubsanlog"
  PROVE  logs = {} /\ suite \in DOMAIN did /\ JudgedRight(suite)
<1>1. /\ point \in Kinds /\ paths = {} /\ suite \in DOMAIN did
      /\ LogPaths("tsanlog", logs) = {} /\ LogPaths("ubsanlog", logs) = {}
      /\ logs \subseteq LogFiles(suite)
  BY DEF LogsDone, RunnerInv, SuitesInv, LogsInv, Late, Kinds
<1>2. \A f \in LogFiles(suite) : f.kind \in Kinds
  <2>1. did[suite].logs = {} \/ sanitizers \in {{"thread"}, {"address", "undefined"}}
    BY <1>1 DEF RunnerInv, TypesInv, Ran
  <2>2. sanitizers \in {{"thread"}, {"address", "undefined"}} => LogKind \in Kinds
    BY DEF LogKind, Kinds
  <2> QED
    BY <2>1, <2>2 DEF LogFiles
<1>3. logs = {}
  BY <1>1, <1>2 DEF LogPaths, Kinds
<1>4. Reported(suite) = ErrorsIn(LogFiles(suite))
  <2>1. LogFiles(suite) \ logs = LogFiles(suite)
    BY <1>3
  <2> QED
    BY <1>1, <2>1 DEF RunnerInv, LogsInv
<1>5. ErrorsIn(LogFiles(suite)) = Errors(did[suite])
  <2> DEFINE file(log) == [kind |-> LogKind, log |-> log]
  <2>1. \A log : file(log).kind = LogKind /\ file(log).log = log
    OBVIOUS
  <2>2. LogFiles(suite) = {file(log) : log \in did[suite].logs}
    BY DEF LogFiles
  <2> HIDE DEF file
  <2>3. {Entries(ParserOf[f.kind], f.log) : f \in LogFiles(suite)}
          = {Entries(ParserOf[LogKind], log) : log \in did[suite].logs}
    BY <2>1, <2>2
  <2> QED
    BY <2>3 DEF ErrorsIn, Errors
<1> QED
  BY <1>1, <1>3, <1>4, <1>5 DEF RunnerInv, LogsInv, JudgedRight

\* The logs of a kind are read: on to the next kind, or to the next suite.
LEMMA LogsDoneInv ==
  ASSUME RunnerInv, LogsDone
  PROVE  RunnerInv'
<1> USE DEF LogsDone, files
<1>1. point \in Kinds /\ paths = {} /\ suite \in DOMAIN did /\ prepared = TRUE
  BY DEF RunnerInv, SuitesInv, DirectoriesInv, Late, Kinds
<1>2. LogKind' = LogKind
  BY DEF LogKind
<1>3. TypesInv'
  BY DEF RunnerInv, TypesInv, Ran, Points, Active
<1>4. DirectoriesInv'
  BY DEF RunnerInv, DirectoriesInv, Late
<1>5. CASE point = "tsanlog"
  <2>1. Judged' = Judged /\ LogFiles(suite)' = LogFiles(suite) /\ Reported(suite)' = Reported(suite)
    BY <1>2, <1>5 DEF Judged, LogFiles, Reported
  <2>2. JudgedInv'
    <3>1. ASSUME NEW t \in Judged PROVE JudgedRight(t)'
      <4>1. Reported(t)' = Reported(t)
        BY DEF Reported
      <4> QED
        BY <1>2, <1>5, <4>1, JudgedStays DEF RunnerInv, JudgedInv, Late
    <3> QED
      BY <1>5, <2>1, <3>1 DEF JudgedInv
  <2>3. SuitesInv'
    BY <1>1, <1>5 DEF SuitesInv
  <2>4. LogsInv'
    <3>1. \A key \in DOMAIN san_results : key[1] = suite => key[2] # "ubsanlog"
      BY <1>5 DEF RunnerInv, LogsInv
    <3>2. LogPaths("tsanlog", logs) = {}
      BY <1>1, <1>5 DEF RunnerInv, LogsInv, Kinds
    <3>3. ErrorsIn(LogFiles(suite) \ logs)' = ErrorsIn(LogFiles(suite) \ logs)
      BY <2>1 DEF ErrorsIn
    <3> QED
      BY <1>1, <1>5, <2>1, <3>1, <3>2, <3>3 DEF RunnerInv, LogsInv, LogPaths
  <2> QED
    BY <1>3, <1>4, <2>2, <2>3, <2>4 DEF RunnerInv
<1>6. CASE point = "ubsanlog"
  <2>1. logs = {} /\ JudgedRight(suite)
    BY <1>6, AllRead
  <2>2. point' = "suites" /\ suite' = NoSuite
    BY <1>6
  <2>3. JudgedInv'
    <3>1. ASSUME NEW t \in DOMAIN did PROVE JudgedRight(t)'
      <4>1. Reported(t)' = Reported(t)
        BY DEF Reported
      <4>2. JudgedRight(t)
        BY <1>6, <2>1 DEF RunnerInv, JudgedInv, Judged, Late
      <4> QED
        BY <1>2, <4>1, <4>2, JudgedStays
    <3> QED
      BY <2>2, <3>1 DEF JudgedInv, Judged
  <2>4. SuitesInv' /\ LogsInv'
    BY <2>1, <2>2 DEF SuitesInv, LogsInv, Kinds
  <2> QED
    BY <1>3, <1>4, <2>3, <2>4 DEF RunnerInv
<1> QED
  BY <1>1, <1>5, <1>6 DEF Kinds

\* There are fewer suites than exit codes.
LEMMA FewerThanCodes ==
  ASSUME NEW n \in Nat, NEW m \in Nat, n < m
  PROVE  n % m = n
  OBVIOUS

\* The runner exits with 0 only when it ran every suite and none failed (main).
LEMMA FailedAreCounted ==
  ASSUME RunnerInv, ExitRunner
  PROVE  /\ DOMAIN did = Suites /\ Judged = Suites
         /\ point' = IF failed_test_suites = {} THEN "succeeded" ELSE "failed"
<1>1. point = "suites" /\ left = {} /\ suite = NoSuite
  BY DEF ExitRunner, RunnerInv, SuitesInv
<1>2. DOMAIN did = Suites /\ failed_test_suites \subseteq Suites
  BY <1>1 DEF RunnerInv, TypesInv, DirectoriesInv, Late
<1>3. Judged = Suites
  BY <1>1, <1>2, SuitesAssumption DEF Judged
<1>4. IsFiniteSet(failed_test_suites) /\ Cardinality(failed_test_suites) <= Cardinality(Suites)
  BY <1>2, SuitesAssumption, FS_Subset
<1> DEFINE n == Cardinality(failed_test_suites)
<1>5. n \in Nat /\ Cardinality(Suites) \in Nat /\ (n = 0 <=> failed_test_suites = {})
  BY <1>4, SuitesAssumption, FS_CardinalityType, FS_EmptySet
<1> HIDE DEF n
<1>6. n < ExitCodes
  BY <1>4, <1>5, SuitesAssumption DEF n
<1>7. n % ExitCodes = n
  BY <1>5, <1>6, SuitesAssumption, FewerThanCodes
<1>8. point' = IF n % ExitCodes = 0 THEN "succeeded" ELSE "failed"
  BY DEF ExitRunner, n
<1> QED
  BY <1>2, <1>3, <1>5, <1>7, <1>8

\* The runner exits.
LEMMA ExitInv ==
  ASSUME RunnerInv, ExitRunner
  PROVE  RunnerInv'
<1> USE DEF ExitRunner, working, files
<1>1. DOMAIN did = Suites /\ Judged = Suites /\ point = "suites" /\ prepared = TRUE
  BY FailedAreCounted DEF RunnerInv, DirectoriesInv, Late
<1>2. CASE failed_test_suites = {} /\ point' = "succeeded"
  <2>1. TypesInv' /\ DirectoriesInv'
    BY <1>1, <1>2 DEF RunnerInv, TypesInv, DirectoriesInv, Ran, Points, Active, Late
  <2>2. JudgedInv'
    <3>1. ASSUME NEW s \in Suites PROVE ~ did[s].failed /\ Reported(s) = Errors(did[s])
      BY <1>1, <1>2 DEF RunnerInv, JudgedInv, JudgedRight, Late
    <3>2. \A s \in Suites : Reported(s)' = Reported(s) /\ Errors(did[s])' = Errors(did[s])
      BY DEF Reported, Errors, LogKind
    <3> QED
      BY <1>1, <1>2, <3>1, <3>2 DEF JudgedInv, Late
  <2>3. SuitesInv' /\ LogsInv'
    BY <1>2 DEF SuitesInv, LogsInv, Late, Kinds
  <2> QED
    BY <2>1, <2>2, <2>3 DEF RunnerInv
<1>3. CASE point' = "failed"
  BY <1>1, <1>3, EndedInv DEF RunnerInv, TypesInv
<1> QED
  BY <1>2, <1>3, FailedAreCounted

\* Every step of the runner keeps the invariant.
LEMMA RunnerNextInv ==
  ASSUME RunnerInv, RunnerNext
  PROVE  RunnerInv'
  BY PrepareInv, SuiteFailedInv, LogsDoneInv, ExitInv, DispatchInv, HandleCoreInv, ProcessLogInv
     DEF RunnerNext

-----------------------------------------------------------------------------
(* The session.                                                            *)

\* What is reported of a suite.
Spoken(s) == [failed |-> s \in failed_test_suites, crashed |-> s \in DOMAIN core_results,
              errors |-> Reported(s)]

\* The session is running while the runner is, and green only when it succeeded.
LEMMA StatusIs ==
  /\ Status = "running" <=> point \in Active
  /\ point = "off" => Status = "none"
  /\ point = "failed" => Status = "red"
  /\ point = "succeeded" => Status = "green"
  BY Zenon DEF Status, Active

LEMMA StatusWillBe ==
  /\ Status' = "running" <=> point' \in Active
  /\ point' = "off" => Status' = "none"
  /\ point' = "failed" => Status' = "red"
  /\ point' = "succeeded" => Status' = "green"
  BY Zenon DEF Status, Active

\* What the session is told of the suites.
LEMMA TruthIs == DOMAIN Truth = DOMAIN did /\ \A s \in DOMAIN did : Truth[s] = Seen(did[s])
  BY DEF Truth, Seen

LEMMA VerdictIs == DOMAIN Verdict = Judged /\ \A s \in Judged : Verdict[s] = Spoken(s)
  BY DEF Verdict, Spoken

\* It changes only as the suites are run, and as they are judged.
LEMMA TruthStays == UNCHANGED <<did, sanitizers>> => Truth' = Truth
  BY DEF Truth, Errors, LogKind

LEMMA VerdictStays ==
  ASSUME Judged' = Judged,
         \A s \in Judged : /\ (s \in failed_test_suites') = (s \in failed_test_suites)
                           /\ (s \in DOMAIN core_results') = (s \in DOMAIN core_results)
                           /\ Reported(s)' = Reported(s)
  PROVE  Verdict' = Verdict
<1>1. \A s \in Judged : Spoken(s)' = Spoken(s)
  BY DEF Spoken
<1>2. Verdict = [s \in Judged |-> Spoken(s)] /\ Verdict' = [s \in Judged' |-> Spoken(s)']
  BY DEF Verdict, Spoken
<1> QED
  BY <1>1, <1>2

\* The runner that starts is the session that begins.
LEMMA StartIsBegin ==
  ASSUME NEW configured, StartRunner(configured)
  PROVE  Session!Begin
<1>1. point \notin Active /\ point' \in Active /\ did' = NoEntries
  BY DEF StartRunner, Active
<1>2. DOMAIN did' = {}
  BY <1>1, NoEntriesAtAll
<1>3. Truth' = Session!NoEntries /\ Verdict' = Session!NoEntries
  BY <1>2 DEF Truth, Verdict, Judged, Session!NoEntries
<1>4. Status # "running" /\ Status' = "running"
  BY <1>1, StatusIs, StatusWillBe
<1> QED
  BY <1>3, <1>4 DEF Session!Begin

\* A runner that fails abandons the session.
LEMMA AbandonSteps ==
  ASSUME point \in Active, point' = "failed", UNCHANGED <<did, sanitizers>>, Verdict' = Verdict
  PROVE  Session!Abandon
  BY StatusIs, StatusWillBe, TruthStays DEF Session!Abandon

\* The steps between, of which the session sees nothing unless they fail.
LEMMA PrepareSteps ==
  ASSUME RunnerInv, prepare_tests
  PROVE  [Session!Next]_(Session!vars)
<1> USE DEF prepare_tests
<1>1. point \in Active /\ UNCHANGED <<did, sanitizers>>
  BY DEF Active
<1>2. Verdict' = Verdict
  <2>1. Judged' = Judged /\ \A s : Reported(s)' = Reported(s)
    BY DEF Judged, Reported
  <2> QED
    BY <2>1, VerdictStays
<1>3. CASE point' = "failed"
  BY <1>1, <1>2, <1>3, AbandonSteps DEF Session!Next
<1>4. CASE point' = "suites"
  <2>1. Status' = Status
    BY <1>1, <1>4, StatusIs, StatusWillBe DEF Active
  <2> QED
    BY <1>1, <1>2, <2>1, TruthStays DEF Session!vars
<1> QED
  BY <1>3, <1>4

LEMMA HandleCoreSteps ==
  ASSUME RunnerInv, NEW c, handle_core_file(c)
  PROVE  [Session!Next]_(Session!vars)
<1> USE DEF handle_core_file
<1>1. point \in Active /\ UNCHANGED <<did, sanitizers>>
  BY DEF Active
<1>2. Verdict' = Verdict
  <2>1. Judged' = Judged /\ \A s : Reported(s)' = Reported(s)
    BY DEF Judged, Reported
  <2>2. ASSUME NEW s \in Judged PROVE (s \in DOMAIN core_results') = (s \in DOMAIN core_results)
    <3>1. s # suite
      BY DEF Judged
    <3>2. CASE core_results' = Store(core_results, suite, c)
      <4>1. DOMAIN core_results' = {suite} \cup DOMAIN core_results
        BY <3>2, StoreDomain
      <4> QED
        BY <3>1, <4>1
    <3> QED
      BY <3>2
  <2> QED
    BY <2>1, <2>2, VerdictStays
<1>3. CASE point' = "failed"
  BY <1>1, <1>2, <1>3, AbandonSteps DEF Session!Next
<1>4. CASE point' = point
  <2>1. Status' = Status
    BY <1>4 DEF Status
  <2> QED
    BY <1>1, <1>2, <2>1, TruthStays DEF Session!vars
<1> QED
  BY <1>3, <1>4

LEMMA SuiteFailedSteps ==
  ASSUME RunnerInv, SuiteFailed
  PROVE  UNCHANGED Session!vars
<1> USE DEF SuiteFailed, files
<1>1. Judged' = Judged /\ \A s : Reported(s)' = Reported(s)
  BY DEF Judged, Reported
<1>2. \A s \in Judged : (s \in failed_test_suites') = (s \in failed_test_suites)
  BY DEF Judged
<1>3. Status' = Status
  BY StatusIs, StatusWillBe DEF Active
<1> QED
  BY <1>1, <1>2, <1>3, TruthStays, VerdictStays DEF Session!vars

LEMMA ProcessLogSteps ==
  ASSUME RunnerInv, NEW f \in logs, process_sanitizer_log(f)
  PROVE  [Session!Next]_(Session!vars)
<1>1. point \in Kinds /\ point \in Active
  BY DEF process_sanitizer_log, RunnerInv, TypesInv, Points, Active, Kinds
<1>2. UNCHANGED <<sanitizers, suite, failed_test_suites, core_results, did>>
  BY DEF process_sanitizer_log
<1>3. Judged' = Judged
  BY <1>2 DEF Judged
<1>4. CASE point' = "failed" /\ UNCHANGED <<logs, san_results, counter>>
  <2>1. \A s : Reported(s)' = Reported(s)
    BY <1>4 DEF Reported
  <2>2. Verdict' = Verdict
    BY <1>2, <1>3, <2>1, VerdictStays
  <2> QED
    BY <1>1, <1>2, <1>4, <2>2, AbandonSteps DEF Session!Next
<1>5. CASE /\ point' = point /\ counter' = counter + 1
           /\ paths' = paths \ {f} /\ logs' = logs \ {f}
           /\ san_results' = Store(san_results, <<suite, point, counter>>,
                                   Entries(ParserOf[f.kind], f.log))
  <2> DEFINE key == <<suite, point, counter>>
             errors == Entries(ParserOf[f.kind], f.log)
  <2>1. key \notin DOMAIN san_results /\ key[1] = suite
    BY <1>1 DEF RunnerInv, TypesInv, LogsInv
  <2>2. san_results' = Store(san_results, key, errors)
    BY <1>5
  <2> HIDE DEF key, errors
  <2>3. \A s \in Judged : Reported(s)' = Reported(s)
    <3>1. \A s : s # key[1] => Collected(Store(san_results, key, errors), s) = Collected(san_results, s)
      BY <2>1, StoredResult
    <3> QED
      BY <2>1, <2>2, <3>1 DEF Judged, Reported, Collected
  <2>4. Verdict' = Verdict
    BY <1>2, <1>3, <2>3, VerdictStays
  <2>5. Status' = Status
    BY <1>5 DEF Status
  <2> QED
    BY <1>2, <2>4, <2>5, TruthStays DEF Session!vars
<1> QED
  BY <1>4, <1>5, LogIsRead

\* What a suite does is an outcome of the session.
LEMMA ErrorsOfRuns ==
  ASSUME NEW outcome, Ran(outcome), sanitizers \in {{}, {"thread"}, {"address", "undefined"}}
  PROVE  Seen(outcome) \in [failed : BOOLEAN, crashed : BOOLEAN, errors : SUBSET AllErrors]
<1>1. /\ outcome.failed \in BOOLEAN /\ outcome.crashed \in BOOLEAN
      /\ outcome.logs \subseteq AllLogs /\ (sanitizers = {} => outcome.logs = {})
  BY DEF Ran
<1>2. Errors(outcome) \subseteq AllErrors
  <2> SUFFICES ASSUME NEW log \in outcome.logs
               PROVE  Entries(ParserOf[LogKind], log) \subseteq AllErrors
    BY DEF Errors
  <2>1. ParserOf[LogKind] \in {"tsan", "asan"}
    BY <1>1 DEF LogKind, ParserOf
  <2>2. log \in UNION {o.logs : o \in Outcomes}
    BY <1>1 DEF AllLogs
  <2> QED
    BY <2>1, <2>2 DEF AllErrors
<1> QED
  BY <1>1, <1>2 DEF Seen

\* A table that differs from another by one entry is that table with the entry stored.
LEMMA StoredSeen ==
  ASSUME NEW table, NEW key, NEW stored, NEW next,
         next = [k \in DOMAIN next |-> next[k]], DOMAIN next = {key} \cup DOMAIN table,
         next[key] = stored, \A k \in DOMAIN table : k # key => next[k] = table[k]
  PROVE  next = Session!Store(table, key, stored)
<1>1. \A k \in DOMAIN next : next[k] = IF k = key THEN stored ELSE table[k]
  OBVIOUS
<1> QED
  BY <1>1 DEF Session!Store

\* Running a suite is the session's Run.
LEMMA DispatchIsRun ==
  ASSUME RunnerInv, NEW s \in Suites, dispatch_test_subprocess(s)
  PROVE  Session!Run(s)
<1>1. /\ point = "suites" /\ s \notin DOMAIN did
      /\ suite' = s /\ DOMAIN did' = {s} \cup DOMAIN did /\ point' \in {"cores", "tsanlog"}
      /\ \A t \in DOMAIN did : did'[t] = did[t]
      /\ Ran(did[s])' /\ LogKind' = LogKind
      /\ Judged' = DOMAIN did /\ Judged = DOMAIN did
  BY DispatchFacts
<1>2. UNCHANGED <<sanitizers, failed_test_suites, core_results, san_results>>
  BY DEF dispatch_test_subprocess
<1> DEFINE outcome == Seen(did[s])'
<1>3. outcome \in [failed : BOOLEAN, crashed : BOOLEAN, errors : SUBSET AllErrors]
  <2>1. sanitizers \in {{}, {"thread"}, {"address", "undefined"}}
    BY DEF RunnerInv, TypesInv
  <2>2. Ran(did'[s])
    BY <1>1, <1>2 DEF Ran, AllLogs
  <2>3. Seen(did'[s]) \in [failed : BOOLEAN, crashed : BOOLEAN, errors : SUBSET AllErrors]
    BY <2>1, <2>2, ErrorsOfRuns
  <2>4. outcome = Seen(did'[s])
    BY <1>1 DEF Seen, Errors
  <2> QED
    BY <2>3, <2>4
<1>4. Truth' = Session!Store(Truth, s, outcome)
  <2>1. Truth' = [t \in DOMAIN did' |-> Seen(did[t])']
    BY DEF Truth, Seen
  <2>2. DOMAIN Truth = DOMAIN did /\ \A t \in DOMAIN did : Truth[t] = Seen(did[t])
    BY TruthIs
  <2>3. \A t \in DOMAIN did : Seen(did[t])' = Seen(did[t])
    BY <1>1 DEF Seen, Errors
  <2> HIDE DEF outcome
  <2>4. Truth'[s] = outcome
    BY <1>1, <2>1 DEF outcome
  <2> QED
    BY <1>1, <2>1, <2>2, <2>3, <2>4, StoredSeen
<1>5. Verdict' = Verdict
  <2>1. \A t \in Judged : Reported(t)' = Reported(t)
    BY <1>2 DEF Reported
  <2> QED
    BY <1>1, <1>2, <2>1, VerdictStays
<1>6. Status = "running" /\ Status' = Status
  BY <1>1, StatusIs, StatusWillBe DEF Active
<1>7. s \notin DOMAIN Truth
  BY <1>1, TruthIs
<1> HIDE DEF outcome
<1> QED
  BY <1>3, <1>4, <1>5, <1>6, <1>7 DEF Session!Run

\* The last log read is the session's Judge.
LEMMA LogsDoneSteps ==
  ASSUME RunnerInv, LogsDone
  PROVE  [Session!Next]_(Session!vars)
<1> USE DEF LogsDone, files
<1>1. /\ point \in Active /\ point' \in Active /\ UNCHANGED <<did, sanitizers>>
      /\ suite \in DOMAIN did /\ point \in Late
  BY DEF Active, RunnerInv, SuitesInv, Late
<1>2. Status = "running" /\ Status' = Status /\ Truth' = Truth
  BY <1>1, StatusIs, StatusWillBe, TruthStays
<1>3. \A s : Reported(s)' = Reported(s)
  BY DEF Reported
<1>4. CASE point = "tsanlog"
  <2>1. Judged' = Judged
    BY <1>4 DEF Judged
  <2>2. Verdict' = Verdict
    BY <1>3, <2>1, VerdictStays
  <2> QED
    BY <1>2, <2>2 DEF Session!vars
<1>5. CASE point = "ubsanlog"
  <2>1. JudgedRight(suite) /\ Ran(did[suite])
    BY <1>1, <1>5, AllRead DEF RunnerInv, TypesInv
  <2>2. suite \in Suites /\ suite' = NoSuite
    BY <1>1, <1>5 DEF RunnerInv, TypesInv
  <2>3. DOMAIN did = {suite} \cup Judged /\ Judged' = {suite} \cup Judged /\ suite \notin Judged
    BY <1>1, <2>2, SuitesAssumption DEF Judged, RunnerInv, TypesInv
  <2> DEFINE crash == suite \in DOMAIN core_results
             verdict == [failed |-> did[suite].failed, crashed |-> crash, errors |-> Errors(did[suite])]
  <2>4. /\ crash \in BOOLEAN /\ (did[suite].crashed => crash) /\ (crash => did[suite].failed)
    BY <1>1, <2>1 DEF RunnerInv, DirectoriesInv, JudgedRight
  <2>5. (suite \in failed_test_suites) = did[suite].failed
    BY <2>1 DEF JudgedRight, Ran
  <2>6. Spoken(suite) = verdict /\ \A t : Spoken(t)' = Spoken(t)
    <3>1. Reported(suite) = Errors(did[suite])
      BY <2>1 DEF JudgedRight
    <3> QED
      BY <1>3, <2>5, <3>1 DEF Spoken
  <2> HIDE DEF crash
  <2>7. Verdict' = Session!Store(Verdict, suite, verdict)
    <3>1. Verdict' = [t \in Judged' |-> Spoken(t)']
      BY DEF Verdict, Spoken
    <3>2. DOMAIN Verdict = Judged /\ \A t \in Judged : Verdict[t] = Spoken(t)
      BY VerdictIs
    <3> HIDE DEF verdict
    <3>3. Verdict'[suite] = verdict /\ \A t \in Judged : Verdict'[t] = Verdict[t]
      BY <2>3, <2>6, <3>1, <3>2
    <3> QED
      BY <2>3, <3>1, <3>2, <3>3, StoredSeen
  <2>8. Truth[suite].crashed = did[suite].crashed /\ Truth[suite].failed = did[suite].failed
        /\ Truth[suite].errors = Errors(did[suite])
    BY <1>1 DEF Truth
  <2>9. suite \in DOMAIN Truth \ DOMAIN Verdict
    BY <1>1, <2>3, TruthIs, VerdictIs
  <2>10. Session!Judge(suite)
    BY <1>2, <2>4, <2>7, <2>8, <2>9 DEF Session!Judge
  <2> QED
    BY <2>2, <2>10 DEF Session!Next
<1> QED
  BY <1>1, <1>4, <1>5

\* The exit of the runner is the session's Conclude.
LEMMA ExitIsConclude ==
  ASSUME RunnerInv, ExitRunner
  PROVE  Session!Conclude
<1> USE DEF ExitRunner, working, files
<1>1. /\ DOMAIN did = Suites /\ Judged = Suites
      /\ point' = IF failed_test_suites = {} THEN "succeeded" ELSE "failed"
  BY FailedAreCounted
<1>2. failed_test_suites \subseteq Suites
  BY <1>1 DEF RunnerInv, DirectoriesInv, Late
<1>3. DOMAIN Verdict = Suites /\ \A s \in Suites : Verdict[s].failed = (s \in failed_test_suites)
  BY <1>1 DEF Verdict
<1>4. Truth' = Truth /\ Verdict' = Verdict
  <2>1. Judged' = Judged /\ \A s : Reported(s)' = Reported(s)
    BY DEF Judged, Reported
  <2> QED
    BY <2>1, TruthStays, VerdictStays
<1>5. Status = "running"
  BY StatusIs DEF Active
<1>6. CASE failed_test_suites = {}
  <2>1. Status' = "green" /\ ~ \E s \in Suites : Verdict[s].failed
    BY <1>1, <1>3, <1>6, StatusWillBe
  <2> QED
    BY <1>3, <1>4, <1>5, <2>1 DEF Session!Conclude
<1>7. CASE failed_test_suites # {}
  <2>1. Status' = "red" /\ \E s \in Suites : Verdict[s].failed
    BY <1>1, <1>2, <1>3, <1>7, StatusWillBe
  <2> QED
    BY <1>3, <1>4, <1>5, <2>1 DEF Session!Conclude
<1> QED
  BY <1>6, <1>7

\* No runner, no session.
LEMMA InitIsInit == RunnerInit => Session!Init
<1> SUFFICES ASSUME RunnerInit PROVE Session!Init
  OBVIOUS
<1>1. point = "off" /\ DOMAIN did = {}
  BY NoEntriesAtAll DEF RunnerInit
<1>2. Truth = Session!NoEntries /\ Verdict = Session!NoEntries
  BY <1>1 DEF Truth, Verdict, Judged, Session!NoEntries
<1> QED
  BY <1>1, <1>2, StatusIs DEF Session!Init

LEMMA StutterIsStutter == UNCHANGED runner_vars => UNCHANGED Session!vars
<1> SUFFICES ASSUME UNCHANGED runner_vars PROVE UNCHANGED Session!vars
  OBVIOUS
<1> USE DEF runner_vars, working, files
<1>1. Judged' = Judged /\ \A s : Reported(s)' = Reported(s)
  BY DEF Judged, Reported
<1>2. Status' = Status
  BY DEF Status
<1> QED
  BY <1>1, <1>2, TruthStays, VerdictStays DEF Session!vars

\* Every step of the runner is a step of the session, or one it does not see.
LEMMA RunnerNextSteps ==
  ASSUME RunnerInv, RunnerNext
  PROVE  [Session!Next]_(Session!vars)
<1>1. CASE prepare_tests
  BY <1>1, PrepareSteps
<1>2. CASE SuiteFailed
  BY <1>2, SuiteFailedSteps
<1>3. CASE LogsDone
  BY <1>3, LogsDoneSteps
<1>4. CASE ExitRunner
  BY <1>4, ExitIsConclude DEF Session!Next
<1>5. ASSUME NEW s \in Suites, dispatch_test_subprocess(s) PROVE Session!Next
  BY <1>5, DispatchIsRun DEF Session!Next
<1>6. ASSUME NEW c \in cores, handle_core_file(c) PROVE [Session!Next]_(Session!vars)
  BY <1>6, HandleCoreSteps
<1>7. ASSUME NEW f \in logs, process_sanitizer_log(f) PROVE [Session!Next]_(Session!vars)
  BY <1>7, ProcessLogSteps
<1> QED
  BY <1>1, <1>2, <1>3, <1>4, <1>5, <1>6, <1>7 DEF RunnerNext

-----------------------------------------------------------------------------
(* Where a job stands, and what it has made so far.                        *)

\* The stages of a job, in their order.
LintStages == {"shellcheck", "pylint", "pycodestyle", "isort"}
BuildStages == {"cpp linters"} \cup LintStages \cup {"output", "directory", "build", "image", "commit"}
TestStages == {"pull tests", "test", "bench"}
Stages == {"idle", "pull", "push", "post", "end"} \cup BuildStages \cup TestStages

\* Where a job may stand, given what it was started with.
StageInv ==
    /\ plan \in Plans
    /\ jobs \in Seq(JobKinds)
    /\ stage \in Stages /\ failing \in BOOLEAN
    /\ stage # "idle" => number > 0
    /\ stage \notin {"idle", "post", "end"} => ~ failing
    /\ stage = "test" => job.mode = "test"
    /\ stage = "bench" => job.mode # "test"
    /\ stage \in {"pull", "push"} \cup BuildStages => job.disposition # "none"
    /\ stage \in TestStages => ~ IsRelease(job)

\* The runner is at work in the test stage only.
SessionInv == stage # "test" => point \notin Active

\* The content of the image of a layer.
LayerContents(configuration, layer) ==
    CASE layer = "os"    -> Generated("os", configuration)
      [] layer = "boost" -> Generated("boost", configuration) \cup Generated("os", configuration)
      [] layer = "deps"  -> Generated("deps", configuration) \cup
                               (Generated("boost", configuration) \cup Generated("os", configuration))
      [] layer = "test"  -> Generated("test", configuration) \cup
                               (Generated("deps", configuration) \cup
                                  (Generated("boost", configuration) \cup Generated("os", configuration)))
      [] layer = "conan" -> Generated("conan", configuration) \cup Generated("os", configuration)

\* The layers there are.
Layers == {"os", "boost", "deps", "test", "conan"}

\* Every layer in the registry has its own content, whatever job pushed it last.
RegistryInv ==
    /\ layers_left \in [plan.base -> Seq(Layers)]
    /\ \A os \in OperatingSystems, configuration \in Configurations, layer \in Layers :
          LET name == layer_image_name(os, configuration, layer)
          IN  name \in DOMAIN registry => registry[name] = LayerContents(configuration, layer)

\* What a job builds.
Product(n) == [part : Parts(jobs[n]), by : {n},
               from : {Contents(jobs[n].configuration, jobs[n].conan)}]

\* What the stages of the build have made of the product when they are through.
OutputInv ==
    /\ stage \in BuildStages => base = Contents(job.configuration, job.conan)
    /\ stage = "directory" => binaries = {}
    /\ stage = "build" => binaries \subseteq Product(number)
    /\ stage = "image" => binaries = Product(number)
    /\ stage = "commit" => containers[Label(number)] = Product(number)

\* Every committed image is a whole product, and the one under test is that of the job.
CommittedInv ==
    /\ \A name \in DOMAIN images : \E n \in DOMAIN jobs : name = ImageName(n) /\ images[name] = Product(n)
    /\ stage = "push" \/ (stage \in TestStages /\ job.disposition # "none") =>
          images[ImageName(number)] = Product(number)

\* The linters that have run when another is to run.
Done == [shellcheck |-> {}, pylint |-> {"shellcheck"}, pycodestyle |-> {"shellcheck", "pylint"},
         isort |-> {"shellcheck", "pylint", "pycodestyle"}]

\* Some linters have replaced their logs, the logs of the others are those of earlier jobs.
LintedBy(done) ==
    /\ done \X {number} \subseteq lint_logs
    /\ \A log \in lint_logs : IF log[1] \in done THEN log[2] = number ELSE log[2] < number

\* Whether the job is one that got past its linters.
GotPast ==
    /\ stage \notin {"idle", "pull", "cpp linters", "end"} \cup Linters
    /\ stage = "post" => ~ failing
    /\ Lints(job)

\* Which linters have, by the stage of the job.
LintInv ==
    /\ lint_logs \subseteq Linters \X (0..number)
    /\ stage \in {"pull", "cpp linters"} => LintedBy({})
    /\ stage \in Linters => LintedBy(Done[stage])
    /\ stage # "idle" => LintedBy(Linters) \/ \E scope \in Linters : LintedBy(Done[scope])
    /\ GotPast => LintedBy(Linters)

\* The suites that are run are those of the image of the job, and a job that comes to its
\* end without a failure has seen its runner succeed.
TestedInv ==
    /\ stage = "test" /\ job.disposition # "none" /\ ~ IsCustom(job) =>
          tested = images[ImageName(number)]
    /\ stage = "post" /\ ~ failing /\ job.mode = "test" =>
          /\ point = "succeeded"
          /\ job.disposition # "none" /\ ~ IsCustom(job) =>
               tested = images[ImageName(number)] /\ tested = Product(number)

\* The linters of a job, by name.
LEMMA StageNames ==
  /\ Linters = LintStages
  /\ \A scope \in Linters : AfterLinter[scope] \in {"pylint", "pycodestyle", "isort", "output"}
  BY DEF LintStages, Linters, AfterLinter

\* While a job runs there is one, of a kind the plan may hold.
LEMMA JobIsKind ==
  ASSUME StageInv, stage # "idle"
  PROVE  job \in JobKinds /\ number \in DOMAIN jobs /\ number \in Nat
  BY DEF StageInv, number, job

\* No job has been started at first.
LEMMA InitStage == Init => StageInv
<1> SUFFICES ASSUME Init PROVE StageInv
  OBVIOUS
<1>1. plan \in Plans /\ jobs = <<>> /\ stage = "idle" /\ failing = FALSE
  BY DEF Init, BaseInit, JobInit
<1>2. jobs \in Seq(JobKinds)
  BY <1>1
<1> QED
  BY <1>1, <1>2 DEF StageInv, Stages, BuildStages, TestStages, LintStages

\* A job that is started is numbered after the jobs before it, which stay what they were.
LEMMA NewJob ==
  ASSUME StageInv, NEW j, StartJob(j)
  PROVE  /\ j \in JobKinds /\ number \in Nat
         /\ number' = number + 1 /\ job' = j
         /\ jobs' \in Seq(JobKinds)
         /\ \A n \in DOMAIN jobs : jobs'[n] = jobs[n] /\ n \in DOMAIN jobs'
<1>1. jobs \in Seq(JobKinds) /\ number \in Nat /\ plan.jobs \in Seq(SUBSET JobKinds)
  BY JobPlansAssumption DEF StageInv, number
<1>2. number < Len(plan.jobs) /\ j \in plan.jobs[number + 1] /\ jobs' = Append(jobs, j)
  BY DEF StartJob
<1>3. j \in JobKinds
  BY <1>1, <1>2
<1> QED
  BY <1>1, <1>2, <1>3 DEF number, job

\* Every step leads to a stage the job may stand in: no build without an image to build,
\* no test of a release, and no stage but the last after one that failed.
LEMMA StageNext ==
  ASSUME StageInv, [Next]_vars
  PROVE  StageInv'
<1>1. CASE UNCHANGED vars
  BY <1>1 DEF StageInv, vars, job_vars, stage_vars, base_vars, number, job
<1>2. ASSUME NEW j, StartJob(j) PROVE StageInv'
  <2>1. /\ j \in JobKinds /\ number' > 0 /\ job' = j /\ jobs' \in Seq(JobKinds)
    BY <1>2, NewJob
  <2>4. /\ plan' = plan /\ failing' = FALSE
        /\ stage' = IF j.disposition = "none" THEN AfterBuild(j) ELSE "pull"
    BY <1>2 DEF StartJob, base_vars
  <2>2. CASE j.disposition = "none"
    <3>1. stage' \in {"post", "pull tests"} /\ ~ IsRelease(j)
      BY <2>2, <2>4 DEF AfterBuild, IsRelease
    <3> QED
      BY <2>1, <2>4, <3>1 DEF StageInv, Stages, BuildStages, TestStages, LintStages, IsRelease
  <2>3. CASE j.disposition # "none"
    BY <2>1, <2>3, <2>4 DEF StageInv, Stages, BuildStages, TestStages, LintStages, IsRelease
  <2> QED
    BY <2>2, <2>3
<1>3. ASSUME UNCHANGED <<jobs, plan>>, stage # "idle",
             \/ stage' \in {"idle", "post", "end"} /\ failing' \in BOOLEAN
             \/ stage' = stage /\ failing' = failing
             \/ stage \in BuildStages \cup {"pull"} /\ stage' \in BuildStages \cup {"push"} /\ failing' = failing
             \/ stage' \in {"pull tests", "test", "bench"} /\ failing' = failing
                   /\ stage \notin {"post", "end"} /\ ~ IsRelease(job)
                   /\ (stage' = "test" => job.mode = "test") /\ (stage' = "bench" => job.mode # "test")
      PROVE  StageInv'
  <2>1. number' = number /\ job' = job
    BY <1>3 DEF number, job
  <2>2. IsRelease(job)' <=> IsRelease(job)
    BY <2>1 DEF IsRelease
  <2>3. /\ plan' \in Plans /\ jobs' \in Seq(JobKinds) /\ number' > 0
    BY <1>3, <2>1 DEF StageInv
  <2>4. CASE stage' \in {"idle", "post", "end"} /\ failing' \in BOOLEAN
    BY <2>3, <2>4 DEF StageInv, Stages, BuildStages, TestStages, LintStages
  <2>5. CASE stage' = stage /\ failing' = failing
    BY <1>3, <2>1, <2>2, <2>3, <2>5 DEF StageInv
  <2>6. CASE stage \in BuildStages \cup {"pull"} /\ stage' \in BuildStages \cup {"push"} /\ failing' = failing
    BY <2>1, <2>3, <2>6 DEF StageInv, Stages, BuildStages, TestStages, LintStages
  <2>7. CASE /\ stage' \in {"pull tests", "test", "bench"} /\ failing' = failing
             /\ stage \notin {"post", "end"} /\ ~ IsRelease(job)
             /\ (stage' = "test" => job.mode = "test") /\ (stage' = "bench" => job.mode # "test")
    BY <1>3, <2>1, <2>2, <2>3, <2>7 DEF StageInv, Stages, BuildStages, TestStages, LintStages
  <2> QED
    BY <1>3, <2>4, <2>5, <2>6, <2>7
<1> USE DEF GoTo, JobFails, base_vars, runner_vars, working, files, disk, Stages, BuildStages,
            TestStages, LintStages
<1>4. CASE PullDependencies \/ run_cpp_linters \/ PrepareOutput \/ _prepare_directory
  BY <1>3, <1>4, StageNames DEF PullDependencies, run_cpp_linters, PrepareOutput, _prepare_directory, StageInv
<1>5. ASSUME NEW scope \in Linters, LinterRun(scope) PROVE StageInv'
  BY <1>3, <1>5, StageNames DEF LinterRun, StageInv
<1>6. CASE BuildStep \/ PrepareContainer \/ Commit
  BY <1>3, <1>6 DEF BuildStep, BuildFails, PrepareContainer, Commit, StageInv
<1>7. CASE PushImage
  <2>1. stage = "push" /\ UNCHANGED <<jobs, plan>> /\ failing \in BOOLEAN
    BY <1>7 DEF PushImage, StageInv
  <2>2. \/ stage' \in {"end", "post"} /\ failing' \in BOOLEAN
        \/ stage' = "pull tests" /\ failing' = failing /\ ~ IsRelease(job)
    BY <1>7, <2>1 DEF PushImage, AfterBuild
  <2> QED
    BY <1>3, <2>1, <2>2
<1>8. CASE RunDockerTests \/ RunBench \/ TestsEnd
  BY <1>3, <1>8 DEF RunDockerTests, RunBench, TestsEnd, StageInv
<1>9. CASE RunnerStep \/ ContainerAborted
  BY <1>3, <1>9 DEF RunnerStep, ContainerAborted, StageInv, job_vars, stage_vars
<1>10. CASE Post \/ EndRelease \/ AgentDies
  BY <1>3, <1>10 DEF Post, EndRelease, AgentDies, StageInv
<1>11. CASE BaseNext /\ UNCHANGED <<runner_vars, job_vars>>
  <2>1. UNCHANGED <<jobs, plan, stage, failing>>
    BY <1>11 DEF BaseNext, build_and_push_layer, LayerFails, job_vars, stage_vars
  <2> QED
    BY <2>1 DEF StageInv, number, job
<1> QED
  BY <1>1, <1>2, <1>4, <1>5, <1>6, <1>7, <1>8, <1>9, <1>10, <1>11 DEF Next

-----------------------------------------------------------------------------
(* The runner and the job.                                                 *)

\* A runner that is stopped keeps its invariant, and its session is abandoned.
LEMMA AbortedRunner ==
  ASSUME RunnerInv, point \in Active, point' = "failed",
         UNCHANGED <<sanitizers, working, files, did>>
  PROVE  RunnerInv' /\ Session!Abandon
<1> USE DEF working, files
<1>1. counter \in Nat /\ prepared \in BOOLEAN
      /\ (~ prepared => logs = {} /\ core_results = NoEntries /\ san_results = NoEntries)
  BY DEF RunnerInv, TypesInv, DirectoriesInv
<1>2. RunnerInv'
  BY <1>1, EndedInv
<1>3. Verdict' = Verdict
  <2>1. Judged' = Judged /\ \A s : Reported(s)' = Reported(s)
    BY DEF Judged, Reported
  <2> QED
    BY <2>1, VerdictStays
<1> QED
  BY <1>2, <1>3, AbandonSteps

\* Once the results are collected the session is closed, and the directories are as
\* the next runner needs them.
LEMMA PostSession ==
  ASSUME RunnerInv, point \notin Active, Post
  PROVE  RunnerInv' /\ Session!Close
<1>1. /\ point' = "off" /\ DOMAIN did' = {} /\ logs' = {} /\ prepared' = FALSE
      /\ core_results' = NoEntries /\ san_results' = NoEntries
      /\ counter' = counter /\ sanitizers' = sanitizers
  BY NoEntriesAtAll DEF Post, working
<1>2. TypesInv'
  BY <1>1 DEF RunnerInv, TypesInv, Points, Active
<1>3. DirectoriesInv' /\ JudgedInv' /\ SuitesInv' /\ LogsInv'
  BY <1>1 DEF DirectoriesInv, JudgedInv, SuitesInv, LogsInv, Late, Kinds
<1>4. Truth' = Session!NoEntries /\ Verdict' = Session!NoEntries
  BY <1>1 DEF Truth, Verdict, Judged, Session!NoEntries
<1>5. Status # "running" /\ Status' = "none"
  BY <1>1, StatusIs, StatusWillBe
<1> QED
  BY <1>2, <1>3, <1>4, <1>5 DEF RunnerInv, Session!Close

\* The runner is started by the test stage alone, and every step of a job is a step of
\* the test session or leaves it alone.
LEMMA SessionNext ==
  ASSUME StageInv, SessionInv, RunnerInv, [Next]_vars
  PROVE  SessionInv' /\ RunnerInv' /\ [Session!Next]_(Session!vars)
<1>1. ASSUME UNCHANGED runner_vars, stage # "test" \/ stage' = "test" \/ point \notin Active
      PROVE  SessionInv' /\ RunnerInv' /\ [Session!Next]_(Session!vars)
  BY <1>1, StutterRunnerInv, StutterIsStutter DEF SessionInv, runner_vars
<1>2. CASE UNCHANGED vars
  BY <1>1, <1>2 DEF vars, job_vars, stage_vars
<1>3. ASSUME NEW j, StartJob(j) PROVE UNCHANGED runner_vars /\ stage # "test"
  BY <1>3 DEF StartJob
<1>4. CASE PullDependencies \/ run_cpp_linters \/ PrepareOutput \/ _prepare_directory
           \/ BuildStep \/ PrepareContainer \/ Commit \/ PushImage \/ RunBench \/ EndRelease
  <2>1. UNCHANGED runner_vars /\ stage # "test"
    BY <1>4 DEF PullDependencies, run_cpp_linters, PrepareOutput, _prepare_directory, BuildStep,
                PrepareContainer, Commit, PushImage, RunBench, EndRelease
  <2> QED
    BY <1>1, <2>1
<1>5. ASSUME NEW scope \in Linters, LinterRun(scope) PROVE UNCHANGED runner_vars /\ stage # "test"
  BY <1>5, StageNames DEF LinterRun, LintStages
<1>6. CASE RunDockerTests
  <2>1. stage = "pull tests"
    BY <1>6 DEF RunDockerTests
  <2>2. CASE UNCHANGED runner_vars
    BY <1>1, <2>1, <2>2
  <2>3. CASE stage' = "test" /\ StartRunner(SanitizersOf(job.configuration))
    <3>1. job \in JobKinds
      BY <2>1, JobIsKind
    <3>2. SanitizersOf(job.configuration) \in {{}, {"thread"}, {"address", "undefined"}}
      BY <3>1, SanitizersAssumption DEF JobKinds
    <3>3. RunnerInv' /\ Session!Begin
      BY <2>3, <3>2, StartRunnerInv, StartIsBegin
    <3> QED
      BY <2>3, <3>3 DEF SessionInv, Session!Next
  <2> QED
    BY <1>6, <2>2, <2>3 DEF RunDockerTests, GoTo, JobFails
<1>7. CASE RunnerStep
  BY <1>7, RunnerNextInv, RunnerNextSteps DEF RunnerStep, SessionInv, job_vars, stage_vars
<1>8. CASE ContainerAborted
  BY <1>8, AbortedRunner DEF ContainerAborted, SessionInv, job_vars, stage_vars, Active, Session!Next
<1>9. CASE TestsEnd
  <2>1. UNCHANGED runner_vars /\ point \notin Active
    BY <1>9 DEF TestsEnd, Active
  <2> QED
    BY <1>1, <2>1
<1>10. CASE Post
  <2>1. RunnerInv' /\ Session!Close /\ point' = "off"
    BY <1>10, PostSession DEF Post, SessionInv
  <2> QED
    BY <2>1 DEF SessionInv, Active, Session!Next
<1>11. CASE AgentDies
  <2>1. CASE point \in Active
    <3>1. point' = "failed" /\ UNCHANGED <<sanitizers, working, files, did>>
      BY <1>11, <2>1 DEF AgentDies
    <3>2. RunnerInv' /\ Session!Abandon
      BY <2>1, <3>1, AbortedRunner
    <3> QED
      BY <3>1, <3>2 DEF SessionInv, Active, Session!Next
  <2>2. CASE point \notin Active
    <3>1. UNCHANGED runner_vars
      BY <1>11, <2>2 DEF AgentDies, runner_vars
    <3> QED
      BY <1>1, <2>2, <3>1
  <2> QED
    BY <2>1, <2>2
<1>12. CASE BaseNext /\ UNCHANGED <<runner_vars, job_vars>>
  BY <1>1, <1>12 DEF job_vars, stage_vars
<1> QED
  BY <1>1, <1>2, <1>3, <1>4, <1>5, <1>6, <1>7, <1>8, <1>9, <1>10, <1>11, <1>12 DEF Next

-----------------------------------------------------------------------------
(* The names of the layers, element by element.                            *)

\* What tells the images of the layers apart.
Tags == {"preimage1", "preimage2", "preimage3", "conan"}

\* The elements of a name that starts with two more.
LEMMA NameElements ==
  ASSUME NEW a, NEW b, NEW S, NEW s \in Seq(S)
  PROVE  /\ Len(<<a, b>> \o s) = 2 + Len(s)
         /\ (<<a, b>> \o s)[1] = a /\ (<<a, b>> \o s)[2] = b
         /\ \A i \in 1..Len(s) : (<<a, b>> \o s)[2 + i] = s[i]
         /\ <<a, b>> \o s \in Seq({a, b} \cup S)
<1> DEFINE front == <<a, b>>  all == {a, b} \cup S
<1>1. front \in Seq(all) /\ Len(front) = 2 /\ front[1] = a /\ front[2] = b
  OBVIOUS
<1>2. s \in Seq(all)
  OBVIOUS
<1> HIDE DEF front, all
<1>3. /\ front \o s \in Seq(all)
      /\ Len(front \o s) = 2 + Len(s)
      /\ \A i \in 1 .. 2 + Len(s) : (front \o s)[i] = IF i <= 2 THEN front[i] ELSE s[i - 2]
  <2>1. /\ front \o s \in Seq(all) /\ Len(front \o s) = Len(front) + Len(s)
        /\ \A i \in 1 .. Len(front) + Len(s) :
              (front \o s)[i] = IF i <= Len(front) THEN front[i] ELSE s[i - Len(front)]
    BY <1>1, <1>2, ConcatProperties
  <2> QED
    BY <1>1, <2>1
<1>4. Len(s) \in Nat
  BY <1>2
<1>5. /\ (front \o s)[1] = a /\ (front \o s)[2] = b
  BY <1>1, <1>3, <1>4
<1>6. \A i \in 1..Len(s) : (front \o s)[2 + i] = s[i]
  <2> SUFFICES ASSUME NEW i \in 1..Len(s) PROVE (front \o s)[2 + i] = s[i]
    OBVIOUS
  <2>1. 2 + i \in 1 .. 2 + Len(s) /\ ~ (2 + i <= 2) /\ (2 + i) - 2 = i
    BY <1>4
  <2> QED
    BY <1>3, <2>1
<1> QED
  BY <1>3, <1>5, <1>6 DEF front, all

\* The elements of a name that ends with one more.
LEMMA Appended ==
  ASSUME NEW S, NEW s \in Seq(S), NEW x
  PROVE  /\ s \o <<x>> \in Seq(S \cup {x})
         /\ Len(s \o <<x>>) = Len(s) + 1
         /\ (s \o <<x>>)[Len(s) + 1] = x
         /\ \A i \in 1..Len(s) : (s \o <<x>>)[i] = s[i]
<1> DEFINE all == S \cup {x}  last == <<x>>
<1>1. s \in Seq(all) /\ last \in Seq(all) /\ Len(last) = 1 /\ last[1] = x
  OBVIOUS
<1> HIDE DEF all, last
<1>2. /\ s \o last \in Seq(all) /\ Len(s \o last) = Len(s) + 1
      /\ \A i \in 1 .. Len(s) + 1 : (s \o last)[i] = IF i <= Len(s) THEN s[i] ELSE last[i - Len(s)]
  BY <1>1, ConcatProperties
<1>3. Len(s) \in Nat
  BY <1>1
<1> QED
  BY <1>1, <1>2, <1>3 DEF all, last

\* The name of the image of a layer that carries the configuration, its tag left out.
Untagged(os, configuration) ==
    <<os, configuration.compiler>> \o (configuration.sanitizers \o <<configuration.architecture>>)

\* Operating system, compiler, sanitizers, architecture.
LEMMA UntaggedElements ==
  ASSUME NEW os, NEW configuration \in Configurations
  PROVE  LET name == Untagged(os, configuration)
             s    == configuration.sanitizers
         IN  /\ name \in Seq({os, configuration.compiler} \cup (STRING \cup {configuration.architecture}))
             /\ Len(name) = 3 + Len(s)
             /\ name[1] = os /\ name[2] = configuration.compiler
             /\ \A i \in 1..Len(s) : name[2 + i] = s[i]
             /\ name[3 + Len(s)] = configuration.architecture
<1> DEFINE s == configuration.sanitizers  arch == configuration.architecture
           front == <<os, configuration.compiler>>
           body == s \o <<arch>>  size == Len(s)
<1>1. s \in Seq(STRING) /\ size \in Nat
  BY ConfigurationsAssumption
<1>2. /\ body \in Seq(STRING \cup {arch}) /\ Len(body) = size + 1
      /\ body[size + 1] = arch /\ \A i \in 1..size : body[i] = s[i]
  BY <1>1, Appended
<1> HIDE DEF body, s, arch
<1>3. /\ Len(front \o body) = 2 + Len(body)
      /\ (front \o body)[1] = os /\ (front \o body)[2] = configuration.compiler
      /\ \A i \in 1..Len(body) : (front \o body)[2 + i] = body[i]
      /\ front \o body \in Seq({os, configuration.compiler} \cup (STRING \cup {arch}))
  BY <1>2, NameElements
<1> HIDE DEF front, size
<1>4. (front \o body)[2 + (size + 1)] = arch
  BY <1>1, <1>2, <1>3
<1>5. 2 + (size + 1) = 3 + size /\ 2 + Len(body) = 3 + size
  BY <1>1, <1>2
<1>6. \A i \in 1..size : (front \o body)[2 + i] = s[i]
  BY <1>1, <1>2, <1>3
<1> QED
  BY <1>3, <1>4, <1>5, <1>6 DEF Untagged, front, body, s, arch, size

\* A name of three elements.
LEMMA TwoAndOne ==
  ASSUME NEW a, NEW b, NEW c
  PROVE  <<a, b>> \o <<c>> = <<a, b, c>>
<1> DEFINE front == <<a, b>>  last == <<c>>  all == {a, b, c}
<1>1. /\ front \in Seq(all) /\ Len(front) = 2 /\ front[1] = a /\ front[2] = b
      /\ last \in Seq(all) /\ Len(last) = 1 /\ last[1] = c
  OBVIOUS
<1> HIDE DEF front, last, all
<1>2. /\ front \o last \in Seq(all) /\ Len(front \o last) = Len(front) + Len(last)
      /\ \A i \in 1 .. Len(front) + Len(last) :
           (front \o last)[i] = IF i <= Len(front) THEN front[i] ELSE last[i - Len(front)]
  BY <1>1, ConcatProperties
<1> DEFINE joined == front \o last
<1>3. joined \in Seq(all) /\ Len(joined) = 3 /\ joined[1] = a /\ joined[2] = b /\ joined[3] = c
  BY <1>1, <1>2
<1> HIDE DEF joined
<1>4. joined = <<a, b, c>>
  BY <1>3
<1> QED
  BY <1>4 DEF joined, front, last

\* The three forms a name of a layer has.
LEMMA NameOfLayer ==
  ASSUME NEW os, NEW configuration \in Configurations, NEW layer \in Layers
  PROVE  layer_image_name(os, configuration, layer) =
           IF layer = "conan" THEN <<os, configuration.compiler, "conan">>
           ELSE IF layer = "test" THEN Untagged(os, configuration)
           ELSE Untagged(os, configuration) \o <<LAYER_TO_IMAGE_TAG_MAP[layer][1]>>
<1>1. CASE layer = "conan"
  <2>1. LAYER_TO_IMAGE_TAG_MAP[layer] = <<"conan">>
    BY <1>1 DEF LAYER_TO_IMAGE_TAG_MAP
  <2>2. layer_image_name(os, configuration, layer) = <<os, configuration.compiler>> \o <<>> \o <<"conan">>
    BY <1>1, <2>1, Zenon DEF layer_image_name
  <2>3. <<os, configuration.compiler>> \o <<>> = <<os, configuration.compiler>>
    OBVIOUS
  <2>4. <<os, configuration.compiler>> \o <<"conan">> = <<os, configuration.compiler, "conan">>
    BY TwoAndOne
  <2> QED
    BY <1>1, <2>2, <2>3, <2>4
<1>2. CASE layer = "test"
  <2>1. LAYER_TO_IMAGE_TAG_MAP[layer] = <<>>
    BY <1>2 DEF LAYER_TO_IMAGE_TAG_MAP
  <2>2. layer_image_name(os, configuration, layer) = Untagged(os, configuration) \o <<>>
    BY <1>2, <2>1, Zenon DEF layer_image_name, Untagged
  <2>3. Untagged(os, configuration) \o <<>> = Untagged(os, configuration)
    BY UntaggedElements
  <2> QED
    BY <1>2, <2>2, <2>3
<1>3. CASE layer \in {"os", "boost", "deps"}
  <2>1. LAYER_TO_IMAGE_TAG_MAP[layer] = <<LAYER_TO_IMAGE_TAG_MAP[layer][1]>>
    BY <1>3 DEF LAYER_TO_IMAGE_TAG_MAP
  <2>2. layer # "conan" /\ layer # "test"
    BY <1>3
  <2>3. layer_image_name(os, configuration, layer) =
          Untagged(os, configuration) \o LAYER_TO_IMAGE_TAG_MAP[layer]
    BY <2>2, Zenon DEF layer_image_name, Untagged
  <2> QED
    BY <2>1, <2>2, <2>3, Zenon
<1> QED
  BY <1>1, <1>2, <1>3 DEF Layers

\* The last element tells the layers apart: an architecture is no tag.
LEMMA LastOfName ==
  ASSUME NEW os, NEW configuration \in Configurations, NEW layer \in Layers
  PROVE  LET name == layer_image_name(os, configuration, layer)
         IN  IF layer = "test" THEN name[Len(name)] \notin Tags
             ELSE name[Len(name)] = LAYER_TO_IMAGE_TAG_MAP[layer][1]
<1> DEFINE name == layer_image_name(os, configuration, layer)
           untagged == Untagged(os, configuration)
           tag == LAYER_TO_IMAGE_TAG_MAP[layer][1]
           size == Len(configuration.sanitizers)
<1>1. /\ untagged \in Seq({os, configuration.compiler} \cup (STRING \cup {configuration.architecture}))
      /\ Len(untagged) = 3 + size /\ untagged[3 + size] = configuration.architecture
  BY UntaggedElements
<1>2. name = IF layer = "conan" THEN <<os, configuration.compiler, "conan">>
             ELSE IF layer = "test" THEN untagged ELSE untagged \o <<tag>>
  BY NameOfLayer
<1>3. configuration.architecture \notin Tags
  BY ConfigurationsAssumption DEF Tags
<1>4. layer = "conan" => tag = "conan"
  BY DEF LAYER_TO_IMAGE_TAG_MAP
<1> HIDE DEF name, untagged, tag
<1>5. CASE layer = "conan"
  BY <1>2, <1>4, <1>5 DEF name, tag
<1>6. CASE layer = "test"
  BY <1>1, <1>2, <1>3, <1>6 DEF name
<1>7. CASE layer \notin {"conan", "test"}
  <2>1. Len(untagged \o <<tag>>) = Len(untagged) + 1 /\ (untagged \o <<tag>>)[Len(untagged) + 1] = tag
    BY <1>1, Appended
  <2> QED
    BY <1>2, <1>7, <2>1 DEF name, tag
<1> QED
  BY <1>5, <1>6, <1>7

\* What else the name of a layer with a configuration says.
LEMMA ElementsOfName ==
  ASSUME NEW os, NEW configuration \in Configurations, NEW layer \in Layers \ {"conan"}
  PROVE  LET name == layer_image_name(os, configuration, layer)
             s    == configuration.sanitizers
         IN  /\ Len(name) = IF layer = "test" THEN 3 + Len(s) ELSE 4 + Len(s)
             /\ name[1] = os /\ name[2] = configuration.compiler
             /\ \A i \in 1..Len(s) : name[2 + i] = s[i]
             /\ name[3 + Len(s)] = configuration.architecture
<1> DEFINE name == layer_image_name(os, configuration, layer)
           untagged == Untagged(os, configuration)
           tag == LAYER_TO_IMAGE_TAG_MAP[layer][1]
           s == configuration.sanitizers  size == Len(s)
<1>1. /\ untagged \in Seq({os, configuration.compiler} \cup (STRING \cup {configuration.architecture}))
      /\ Len(untagged) = 3 + size
      /\ untagged[1] = os /\ untagged[2] = configuration.compiler
      /\ \A i \in 1..size : untagged[2 + i] = s[i]
      /\ untagged[3 + size] = configuration.architecture
  BY UntaggedElements
<1>2. name = IF layer = "test" THEN untagged ELSE untagged \o <<tag>>
  BY NameOfLayer
<1>3. size \in Nat
  BY ConfigurationsAssumption
<1> HIDE DEF name, untagged, tag, s, size
<1>4. CASE layer = "test"
  BY <1>1, <1>2, <1>4 DEF name, s, size
<1>5. CASE layer # "test"
  <2>1. Len(untagged \o <<tag>>) = Len(untagged) + 1
        /\ \A i \in 1..Len(untagged) : (untagged \o <<tag>>)[i] = untagged[i]
    BY <1>1, Appended
  <2>2. name = untagged \o <<tag>>
    BY <1>2, <1>5
  <2>3. Len(name) = 4 + size /\ \A i \in 1 .. 3 + size : name[i] = untagged[i]
    BY <1>1, <1>3, <2>1, <2>2
  <2>4. /\ name[1] = os /\ name[2] = configuration.compiler /\ name[3 + size] = configuration.architecture
    BY <1>1, <1>3, <2>3
  <2>5. \A i \in 1..size : name[2 + i] = s[i]
    BY <1>1, <1>3, <2>3
  <2> QED
    BY <1>5, <2>3, <2>4, <2>5 DEF name, s, size
<1> QED
  BY <1>4, <1>5

\* Layers with one name are one layer.
LEMMA SameLayer ==
  ASSUME NEW os, NEW configuration \in Configurations, NEW layer \in Layers,
         NEW os2, NEW configuration2 \in Configurations, NEW layer2 \in Layers,
         layer_image_name(os, configuration, layer) = layer_image_name(os2, configuration2, layer2)
  PROVE  layer = layer2
<1> DEFINE name == layer_image_name(os, configuration, layer)
<1>1. ASSUME NEW o, NEW c \in Configurations, NEW l \in Layers,
             layer_image_name(o, c, l) = name
      PROVE  /\ l = "test" => name[Len(name)] \notin Tags
             /\ l # "test" => name[Len(name)] = LAYER_TO_IMAGE_TAG_MAP[l][1]
  BY <1>1, LastOfName
<1>2. \A l \in Layers : l # "test" => LAYER_TO_IMAGE_TAG_MAP[l][1] \in Tags
  BY DEF Layers, LAYER_TO_IMAGE_TAG_MAP, Tags
<1>3. \A l, m \in Layers \ {"test"} :
         LAYER_TO_IMAGE_TAG_MAP[l][1] = LAYER_TO_IMAGE_TAG_MAP[m][1] => l = m
  BY DEF Layers, LAYER_TO_IMAGE_TAG_MAP
<1>4. /\ layer = "test" => name[Len(name)] \notin Tags
      /\ layer # "test" => name[Len(name)] = LAYER_TO_IMAGE_TAG_MAP[layer][1]
  BY <1>1
<1>5. /\ layer2 = "test" => name[Len(name)] \notin Tags
      /\ layer2 # "test" => name[Len(name)] = LAYER_TO_IMAGE_TAG_MAP[layer2][1]
  BY <1>1
<1> HIDE DEF name
<1> QED
  BY <1>2, <1>3, <1>4, <1>5

\* The name says all that the content depends on (conan is installed alike for all).
LEMMA SameConfiguration ==
  ASSUME NEW os, NEW configuration \in Configurations, NEW layer \in Layers,
         NEW os2, NEW configuration2 \in Configurations,
         layer_image_name(os, configuration, layer) = layer_image_name(os2, configuration2, layer),
         layer # "conan"
  PROVE  /\ configuration.compiler = configuration2.compiler
         /\ configuration.sanitizers = configuration2.sanitizers
         /\ configuration.architecture = configuration2.architecture
<1> DEFINE name == layer_image_name(os, configuration, layer)
           s == configuration.sanitizers  s2 == configuration2.sanitizers
<1>1. s \in Seq(STRING) /\ s2 \in Seq(STRING) /\ Len(s) \in Nat /\ Len(s2) \in Nat
  BY ConfigurationsAssumption
<1>2. /\ name[2] = configuration.compiler
      /\ \A i \in 1..Len(s) : name[2 + i] = s[i]
      /\ name[3 + Len(s)] = configuration.architecture
      /\ Len(name) = IF layer = "test" THEN 3 + Len(s) ELSE 4 + Len(s)
  BY ElementsOfName
<1>3. /\ name[2] = configuration2.compiler
      /\ \A i \in 1..Len(s2) : name[2 + i] = s2[i]
      /\ name[3 + Len(s2)] = configuration2.architecture
      /\ Len(name) = IF layer = "test" THEN 3 + Len(s2) ELSE 4 + Len(s2)
  BY ElementsOfName
<1> HIDE DEF name, s, s2
<1>4. Len(s) = Len(s2)
  BY <1>1, <1>2, <1>3
<1>5. \A i \in 1..Len(s) : s[i] = s2[i]
  BY <1>2, <1>3, <1>4
<1>6. s = s2
  BY <1>1, <1>4, <1>5
<1> QED
  BY <1>2, <1>3, <1>4, <1>6 DEF s, s2

\* Images with one name have one content.
LEMMA SameNameSameContents ==
  ASSUME NEW os, NEW configuration \in Configurations, NEW layer \in Layers,
         NEW os2, NEW configuration2 \in Configurations, NEW layer2 \in Layers,
         layer_image_name(os, configuration, layer) = layer_image_name(os2, configuration2, layer2)
  PROVE  layer = layer2 /\ LayerContents(configuration, layer) = LayerContents(configuration2, layer2)
<1>1. layer = layer2
  BY SameLayer
<1>2. CASE layer = "conan"
  BY <1>1, <1>2 DEF LayerContents, Generated
<1>3. CASE layer # "conan"
  <2>1. /\ configuration.compiler = configuration2.compiler
        /\ configuration.sanitizers = configuration2.sanitizers
        /\ configuration.architecture = configuration2.architecture
    BY <1>1, <1>3, SameConfiguration
  <2>2. ArchAndStl(configuration) = ArchAndStl(configuration2)
    BY <2>1, Zenon DEF ArchAndStl, IsClang
  <2>3. SanitizersOf(configuration) = SanitizersOf(configuration2)
    BY <2>1, Zenon DEF SanitizersOf
  <2>4. IsClang(configuration) <=> IsClang(configuration2)
    BY <2>1 DEF IsClang
  <2>5. ZmqFlags(configuration) = ZmqFlags(configuration2)
    BY <2>2, <2>3, Zenon DEF ZmqFlags
  <2>6. OpensslFlags(configuration) = OpensslFlags(configuration2)
    BY <2>1, <2>3, Zenon DEF OpensslFlags
  <2>7. Generated("boost", configuration) = Generated("boost", configuration2)
    <3>1. generate_phase_boost(configuration) = generate_phase_boost(configuration2)
      BY <2>2, Zenon DEF generate_phase_boost
    <3> QED
      BY <3>1 DEF Generated
  <2>8. Generated("deps", configuration) = Generated("deps", configuration2)
    <3>1. (IF IsClang(configuration) THEN {"no-avx"} ELSE {}) = (IF IsClang(configuration2) THEN {"no-avx"} ELSE {})
      BY <2>4
    <3>2. generate_phase_deps(configuration) = generate_phase_deps(configuration2)
      BY <2>2, <2>3, <2>5, <3>1, Zenon DEF generate_phase_deps
    <3> QED
      BY <3>2 DEF Generated
  <2>9. Generated("test", configuration) = Generated("test", configuration2)
    <3>1. generate_phase_test(configuration) = generate_phase_test(configuration2)
      BY <2>1, <2>2, <2>3, <2>6, Zenon DEF generate_phase_test
    <3> QED
      BY <3>1 DEF Generated
  <2>10. Generated("os", configuration) = Generated("os", configuration2)
    BY DEF Generated
  <2> QED
    BY <1>1, <1>3, <2>7, <2>8, <2>9, <2>10 DEF LayerContents, Layers
<1> QED
  BY <1>1, <1>2, <1>3

-----------------------------------------------------------------------------
(* The registry.                                                           *)

\* The layer whose image builds are made in.
LastLayer(use_conan) == IF use_conan THEN "conan" ELSE "test"

\* The image of a configuration holds what its last layer does.
LEMMA ContentsOfLayers ==
  ASSUME NEW configuration, NEW use_conan \in BOOLEAN
  PROVE  Contents(configuration, use_conan) = LayerContents(configuration, LastLayer(use_conan))
<1> DEFINE G(layer) == Generated(layer, configuration)
<1>1. CASE use_conan
  <2>1. Contents(configuration, use_conan) = UNION {G(layer) : layer \in {"os", "conan"}}
    BY <1>1, Zenon DEF Contents
  <2>2. LayerContents(configuration, LastLayer(use_conan)) = G("conan") \cup G("os")
    BY <1>1 DEF LayerContents, LastLayer
  <2> HIDE DEF G
  <2> QED
    BY <2>1, <2>2
<1>2. CASE ~ use_conan
  <2>1. Contents(configuration, use_conan) = UNION {G(layer) : layer \in {"os", "boost", "deps", "test"}}
    BY <1>2, Zenon DEF Contents
  <2>2. LayerContents(configuration, LastLayer(use_conan)) = G("test") \cup (G("deps") \cup (G("boost") \cup G("os")))
    BY <1>2 DEF LayerContents, LastLayer
  <2> HIDE DEF G
  <2> QED
    BY <2>1, <2>2
<1> QED
  BY <1>1, <1>2

\* The image a build asks for is named as that layer is.
LEMMA BaseName ==
  ASSUME NEW os, NEW configuration \in Configurations, NEW use_conan \in BOOLEAN
  PROVE  /\ LastLayer(use_conan) \in Layers
         /\ build_base_image_name(os, configuration, use_conan) =
              layer_image_name(os, configuration, LastLayer(use_conan))
<1>1. CASE use_conan
  <2>1. build_base_image_name(os, configuration, use_conan) = <<os, configuration.compiler>> \o <<"conan">>
    BY <1>1, Zenon DEF build_base_image_name
  <2>2. LastLayer(use_conan) = "conan"
    BY <1>1 DEF LastLayer
  <2>3. layer_image_name(os, configuration, "conan") = <<os, configuration.compiler, "conan">>
    BY NameOfLayer DEF Layers
  <2> QED
    BY <2>1, <2>2, <2>3, TwoAndOne DEF Layers
<1>2. CASE ~ use_conan
  <2>1. build_base_image_name(os, configuration, use_conan) = Untagged(os, configuration)
    BY <1>2, Zenon DEF build_base_image_name, Untagged
  <2>2. LastLayer(use_conan) = "test"
    BY <1>2 DEF LastLayer
  <2>3. layer_image_name(os, configuration, "test") = Untagged(os, configuration)
    BY NameOfLayer DEF Layers
  <2> QED
    BY <2>1, <2>2, <2>3 DEF Layers
<1> QED
  BY <1>1, <1>2

\* The invariant of the registry implies the property.
LEMMA RegistryIsTheirOwn ==
  ASSUME RegistryInv
  PROVE  BaseImagesAreTheirOwn
<1> SUFFICES ASSUME NEW os \in OperatingSystems, NEW configuration \in Configurations,
                    NEW use_conan \in BOOLEAN,
                    build_base_image_name(os, configuration, use_conan) \in DOMAIN registry
             PROVE  registry[build_base_image_name(os, configuration, use_conan)]
                      = Contents(configuration, use_conan)
  BY DEF BaseImagesAreTheirOwn
<1> DEFINE layer == LastLayer(use_conan)
<1>1. layer \in Layers
      /\ build_base_image_name(os, configuration, use_conan) = layer_image_name(os, configuration, layer)
  BY BaseName
<1>2. registry[layer_image_name(os, configuration, layer)] = LayerContents(configuration, layer)
  BY <1>1 DEF RegistryInv
<1> QED
  BY <1>1, <1>2, ContentsOfLayers

\* The images that were pushed before are their own.
LEMMA InitRegistry ==
  ASSUME BaseInit
  PROVE  RegistryInv
<1> DEFINE Name(p) == build_base_image_name(p.os, p.configuration, p.conan)
           Pushed(name) == CHOOSE p \in plan.pushed : name = Name(p)
<1>1. plan.base \subseteq BaseJobs /\ plan.pushed \subseteq BaseJobs
  BY BasePlansAssumption DEF BaseInit
<1>2. layers_left \in [plan.base -> Seq(Layers)]
  <2>1. layers_left = [base_job \in plan.base |-> LayersOf(base_job)]
    BY DEF BaseInit
  <2>2. ASSUME NEW base_job PROVE LayersOf(base_job) \in Seq(Layers)
    <3> DEFINE four == <<"os", "boost", "deps", "test">>
    <3>1. four \in Seq(Layers) /\ <<"conan">> \in Seq(Layers) /\ <<>> \in Seq(Layers)
      BY DEF Layers
    <3>2. (IF base_job.conan THEN <<"conan">> ELSE <<>>) \in Seq(Layers)
      BY <3>1
    <3>3. LayersOf(base_job) = four \o (IF base_job.conan THEN <<"conan">> ELSE <<>>)
      BY Zenon DEF LayersOf
    <3> HIDE DEF four
    <3> QED
      BY <3>1, <3>2, <3>3, ConcatProperties
  <2> QED
    BY <2>1, <2>2
<1>3. registry = [name \in {Name(p) : p \in plan.pushed} |->
                    Contents(Pushed(name).configuration, Pushed(name).conan)]
  BY Zenon DEF BaseInit
<1>4. ASSUME NEW os \in OperatingSystems, NEW configuration \in Configurations, NEW layer \in Layers,
             layer_image_name(os, configuration, layer) \in DOMAIN registry
      PROVE  registry[layer_image_name(os, configuration, layer)] = LayerContents(configuration, layer)
  <2> DEFINE name == layer_image_name(os, configuration, layer)
  <2> HIDE DEF name
  <2>1. PICK q \in plan.pushed : name = Name(q)
    BY <1>3, <1>4 DEF name
  <2>2. Pushed(name) \in plan.pushed /\ name = Name(Pushed(name))
    BY <2>1
  <2> DEFINE p == Pushed(name)
  <2> HIDE DEF Pushed
  <2>3. p.os \in OperatingSystems /\ p.configuration \in Configurations /\ p.conan \in BOOLEAN
    BY <1>1, <2>2 DEF BaseJobs
  <2>4. registry[name] = Contents(p.configuration, p.conan)
    BY <1>3, <2>1
  <2>5. name = layer_image_name(p.os, p.configuration, LastLayer(p.conan))
    BY <2>2, <2>3, BaseName
  <2> HIDE DEF p
  <2>6. LayerContents(configuration, layer) = LayerContents(p.configuration, LastLayer(p.conan))
    BY <2>3, <2>5, BaseName, SameNameSameContents DEF name
  <2> QED
    BY <2>3, <2>4, <2>6, ContentsOfLayers DEF name
<1> QED
  BY <1>2, <1>4 DEF RegistryInv

\* The image of a project is named as no layer is.
LEMMA NotALayer ==
  ASSUME NEW os, NEW configuration \in Configurations, NEW layer \in Layers, NEW a, NEW b
  PROVE  layer_image_name(os, configuration, layer) # <<a, b>>
<1> DEFINE name == layer_image_name(os, configuration, layer)
           size == Len(configuration.sanitizers)
<1>1. size \in Nat
  BY ConfigurationsAssumption
<1>2. layer = "conan" => name = <<os, configuration.compiler, "conan">>
  BY NameOfLayer
<1>3. layer # "conan" => Len(name) = IF layer = "test" THEN 3 + size ELSE 4 + size
  BY ElementsOfName
<1>4. Len(name) > 2
  <2>1. CASE layer = "conan"
    <3>1. Len(<<os, configuration.compiler, "conan">>) = 3
      OBVIOUS
    <3> HIDE DEF name
    <3>2. Len(name) = 3
      BY <1>2, <2>1, <3>1, Zenon
    <3> QED
      BY <3>2
  <2>2. CASE layer # "conan"
    <3> HIDE DEF name, size
    <3> QED
      BY <1>1, <1>3, <2>2
  <2> QED
    BY <2>1, <2>2
<1>5. Len(<<a, b>>) = 2
  OBVIOUS
<1> HIDE DEF name
<1>6. ASSUME name = <<a, b>> PROVE FALSE
  <2>1. Len(name) = 2
    BY <1>5, <1>6, Zenon
  <2> QED
    BY <1>4, <2>1
<1> QED
  BY <1>6 DEF name

\* Every layer is built on its own lower layer, whoever pushed that, and pushing it
\* replaces nothing but an image of the same content.
LEMMA RegistryNext ==
  ASSUME StageInv, RegistryInv, [Next]_vars
  PROVE  RegistryInv'
<1>1. ASSUME UNCHANGED base_vars PROVE RegistryInv'
  BY <1>1 DEF RegistryInv, base_vars
<1>2. CASE UNCHANGED vars
  BY <1>1, <1>2 DEF vars
<1>3. ASSUME NEW j, StartJob(j) PROVE RegistryInv'
  BY <1>1, <1>3 DEF StartJob
<1>4. CASE \/ PullDependencies \/ run_cpp_linters \/ PrepareOutput \/ _prepare_directory
           \/ BuildStep \/ PrepareContainer \/ Commit \/ RunDockerTests \/ RunBench
           \/ RunnerStep \/ ContainerAborted \/ TestsEnd \/ Post \/ EndRelease \/ AgentDies
  BY <1>1, <1>4 DEF PullDependencies, run_cpp_linters, PrepareOutput, _prepare_directory, BuildStep,
      PrepareContainer, Commit, RunDockerTests, RunBench, RunnerStep, ContainerAborted, TestsEnd,
      Post, EndRelease, AgentDies
<1>5. ASSUME NEW scope \in Linters, LinterRun(scope) PROVE RegistryInv'
  BY <1>1, <1>5 DEF LinterRun
<1>6. ASSUME UNCHANGED <<plan, layers_left>>, NEW content, NEW a, NEW b,
             registry' = Store(registry, <<a, b>>, content)
      PROVE  RegistryInv'
  <2>1. ASSUME NEW os \in OperatingSystems, NEW configuration \in Configurations, NEW layer \in Layers,
               layer_image_name(os, configuration, layer) \in DOMAIN registry'
        PROVE  registry'[layer_image_name(os, configuration, layer)] = LayerContents(configuration, layer)
    <3> DEFINE name == layer_image_name(os, configuration, layer)  image == <<a, b>>
    <3>1. name # image
      BY NotALayer
    <3> HIDE DEF name, image
    <3>2. registry' = Store(registry, image, content) /\ name \in DOMAIN registry'
      BY <1>6, <2>1 DEF image, name
    <3>3. name \in DOMAIN registry
      <4>1. DOMAIN registry' = {image} \cup DOMAIN registry
        BY <3>2, StoreDomain, Zenon
      <4> QED
        BY <3>1, <3>2, <4>1
    <3>4. registry'[name] = registry[name]
      BY <3>1, <3>2, <3>3, StoreOld
    <3> QED
      BY <3>3, <3>4 DEF RegistryInv, name
  <2> QED
    BY <1>6, <2>1 DEF RegistryInv
<1>7. CASE PushImage
  <2>1. UNCHANGED <<plan, layers_left>>
    BY <1>7 DEF PushImage
  <2>2. UNCHANGED registry \/ registry' = Store(registry, ImageName(number), images[ImageName(number)])
    BY <1>7 DEF PushImage
  <2> QED
    BY <1>1, <1>6, <2>1, <2>2 DEF base_vars, ImageName
<1>8. ASSUME NEW base_job \in plan.base, LayerFails(base_job) PROVE RegistryInv'
  <2>1. layers_left' \in [plan.base -> Seq(Layers)]
    BY <1>8 DEF LayerFails, RegistryInv
  <2> QED
    BY <1>8, <2>1 DEF LayerFails, RegistryInv
<1>9. ASSUME NEW base_job \in plan.base, build_and_push_layer(base_job) PROVE RegistryInv'
  <2> DEFINE lower == Head(layers_left[base_job])  c == base_job.configuration
             pushed == layer_image_name(base_job.os, c, lower)
             from == IF lower \in DOMAIN Below THEN layer_image_name(base_job.os, c, Below[lower]) ELSE <<>>
             content == Generated(lower, c) \cup (IF lower \in DOMAIN Below THEN registry[from] ELSE {})
  <2>1. base_job.os \in OperatingSystems /\ c \in Configurations
    BY BasePlansAssumption DEF StageInv, BaseJobs
  <2>2. layers_left[base_job] \in Seq(Layers) /\ layers_left[base_job] # <<>>
    BY <1>9 DEF build_and_push_layer, RegistryInv
  <2>3. lower \in Layers /\ Tail(layers_left[base_job]) \in Seq(Layers)
    BY <2>2
  <2>4. layers_left' \in [plan.base -> Seq(Layers)] /\ plan' = plan
    BY <1>9, <2>3 DEF build_and_push_layer, RegistryInv
  <2>5. /\ lower \in DOMAIN Below => from \in DOMAIN registry
        /\ registry' = Store(registry, pushed, content)
    BY <1>9, Zenon DEF build_and_push_layer
  <2> HIDE DEF lower, c, pushed
  <2>6. content = LayerContents(c, lower)
    <3>1. ASSUME lower \in DOMAIN Below, Below[lower] \in Layers
          PROVE  content = Generated(lower, c) \cup LayerContents(c, Below[lower])
      <4>1. from = layer_image_name(base_job.os, c, Below[lower]) /\ from \in DOMAIN registry
        BY <2>5, <3>1
      <4>2. registry[from] = LayerContents(c, Below[lower])
        BY <2>1, <3>1, <4>1 DEF RegistryInv
      <4> HIDE DEF from
      <4> QED
        BY <3>1, <4>2
    <3>2. CASE lower = "os"
      <4>1. lower \notin DOMAIN Below
        BY <3>2 DEF Below
      <4>2. content = Generated(lower, c) \cup {}
        BY <4>1
      <4>3. LayerContents(c, "os") = Generated("os", c)
        BY DEF LayerContents
      <4> HIDE DEF content
      <4> QED
        BY <3>2, <4>2, <4>3
    <3>3. CASE lower # "os"
      <4>1. lower \in DOMAIN Below /\ Below[lower] \in Layers
        BY <2>3, <3>3 DEF Below, Layers
      <4>2. content = Generated(lower, c) \cup LayerContents(c, Below[lower])
        BY <3>1, <4>1
      <4>3. LayerContents(c, lower) = Generated(lower, c) \cup LayerContents(c, Below[lower])
        <5>1. CASE lower = "boost"
          BY <5>1 DEF Below, LayerContents
        <5>2. CASE lower = "deps"
          BY <5>2 DEF Below, LayerContents
        <5>3. CASE lower = "test"
          BY <5>3 DEF Below, LayerContents
        <5>4. CASE lower = "conan"
          BY <5>4 DEF Below, LayerContents
        <5> QED
          BY <2>3, <3>3, <5>1, <5>2, <5>3, <5>4 DEF Layers
      <4> QED
        BY <4>2, <4>3
    <3> QED
      BY <3>2, <3>3
  <2> HIDE DEF content
  <2>7. ASSUME NEW os \in OperatingSystems, NEW configuration \in Configurations, NEW layer \in Layers,
               layer_image_name(os, configuration, layer) \in DOMAIN registry'
        PROVE  registry'[layer_image_name(os, configuration, layer)] = LayerContents(configuration, layer)
    <3> DEFINE name == layer_image_name(os, configuration, layer)
    <3>1. CASE name = pushed
      <4>1. registry'[pushed] = content
        BY <2>5, StoreNew
      <4>2. LayerContents(c, lower) = LayerContents(configuration, layer)
        BY <2>1, <2>3, <3>1, SameNameSameContents DEF pushed
      <4> QED
        BY <2>6, <3>1, <4>1, <4>2
    <3>2. CASE name # pushed
      <4> HIDE DEF name
      <4>1. name \in DOMAIN registry
        <5>1. DOMAIN registry' = {pushed} \cup DOMAIN registry
          BY <2>5, StoreDomain, Zenon
        <5> QED
          BY <2>7, <3>2, <5>1 DEF name
      <4>2. registry'[name] = registry[name]
        BY <2>5, <3>2, <4>1, StoreOld
      <4> QED
        BY <4>1, <4>2 DEF RegistryInv, name
    <3> QED
      BY <3>1, <3>2
  <2> QED
    BY <2>4, <2>7 DEF RegistryInv
<1> QED
  BY <1>2, <1>3, <1>4, <1>5, <1>7, <1>8, <1>9 DEF Next, BaseNext

-----------------------------------------------------------------------------
(* Products and images.                                                    *)

\* What there is of the product, on the disk and under the names of images.
ProductInv == OutputInv /\ CommittedInv

\* Nothing has been built at first.
LEMMA InitProduct ==
  ASSUME Init
  PROVE  ProductInv
<1>1. stage = "idle" /\ images = NoEntries
  BY DEF Init, JobInit
<1> QED
  BY <1>1, NoEntriesAtAll DEF ProductInv, OutputInv, CommittedInv, BuildStages, TestStages, LintStages

\* As long as no job is started, what the jobs are to build stays.
LEMMA SameJobs ==
  ASSUME UNCHANGED jobs
  PROVE  /\ number' = number /\ job' = job
         /\ \A n : Product(n)' = Product(n) /\ ImageName(n)' = ImageName(n)
  BY DEF number, job, Product, ImageName, Label

\* Steps that touch neither binaries nor containers nor images.
LEMMA ProductKeeps ==
  ASSUME ProductInv, UNCHANGED <<jobs, disk>>,
         \/ stage' = stage
         \/ stage' \in {"idle", "pull", "post", "end"}
         \/ stage \in BuildStages /\ stage' \in {"cpp linters", "output"} \cup LintStages
         \/ stage' \in TestStages /\ stage \in {"push"} \cup TestStages
  PROVE  ProductInv'
<1>1. /\ number' = number /\ job' = job
      /\ \A n : Product(n)' = Product(n) /\ ImageName(n)' = ImageName(n)
  BY SameJobs
<1>2. Product(number)' = Product(number) /\ ImageName(number)' = ImageName(number) /\ Label(number)' = Label(number)
  BY DEF Product, ImageName, Label, number
<1>3. OutputInv'
  <2>1. stage' \in BuildStages => base' = Contents(job'.configuration, job'.conan)
    BY <1>1 DEF ProductInv, OutputInv, disk, BuildStages, LintStages, TestStages
  <2>2. stage' \in {"directory", "build", "image", "commit"} => stage' = stage
    BY DEF BuildStages, LintStages, TestStages
  <2>3. /\ stage' = "directory" => binaries' = {}
        /\ stage' = "build" => binaries' \subseteq Product(number)'
    BY <1>2, <2>2 DEF ProductInv, OutputInv, disk
  <2>4. /\ stage' = "image" => binaries' = Product(number)'
        /\ stage' = "commit" => containers'[Label(number)'] = Product(number)'
    BY <1>2, <2>2 DEF ProductInv, OutputInv, disk
  <2> QED
    BY <2>1, <2>3, <2>4 DEF OutputInv
<1>4. CommittedInv'
  <2>1. \A name \in DOMAIN images' : \E n \in DOMAIN jobs' : name = ImageName(n)' /\ images'[name] = Product(n)'
    BY <1>1 DEF ProductInv, CommittedInv, disk
  <2>2. stage' = "push" \/ (stage' \in TestStages /\ job'.disposition # "none") =>
          stage = "push" \/ (stage \in TestStages /\ job.disposition # "none")
    BY <1>1 DEF BuildStages, LintStages, TestStages
  <2>3. stage' = "push" \/ (stage' \in TestStages /\ job'.disposition # "none") =>
          images'[ImageName(number)'] = Product(number)'
    BY <1>2, <2>2 DEF ProductInv, CommittedInv, disk
  <2> QED
    BY <2>1, <2>3 DEF CommittedInv
<1> QED
  BY <1>3, <1>4 DEF ProductInv

\* A new job leaves the images of the earlier ones with their jobs.
LEMMA ProductNew ==
  ASSUME StageInv, ProductInv, NEW j, StartJob(j)
  PROVE  ProductInv'
<1>1. /\ j \in JobKinds /\ number' = number + 1 /\ job' = j
      /\ \A n \in DOMAIN jobs : jobs'[n] = jobs[n] /\ n \in DOMAIN jobs'
  BY NewJob
<1>2. UNCHANGED disk /\ stage' = IF j.disposition = "none" THEN AfterBuild(j) ELSE "pull"
  BY DEF StartJob
<1>3. \A n \in DOMAIN jobs : Product(n)' = Product(n) /\ ImageName(n)' = ImageName(n)
  BY <1>1 DEF Product, ImageName, Label
<1>4. stage' \in {"post", "pull tests", "pull"} /\ (stage' # "pull" => job'.disposition = "none")
  BY <1>1, <1>2 DEF AfterBuild
<1>5. OutputInv'
  BY <1>4 DEF OutputInv, BuildStages, LintStages
<1>6. \A name \in DOMAIN images' : \E n \in DOMAIN jobs' : name = ImageName(n)' /\ images'[name] = Product(n)'
  BY <1>1, <1>2, <1>3 DEF ProductInv, CommittedInv, disk
<1>7. CommittedInv'
  BY <1>4, <1>6 DEF CommittedInv, TestStages
<1> QED
  BY <1>5, <1>7 DEF ProductInv

\* Binaries of a job with every part of it are all there is to build.
LEMMA WholeProduct ==
  ASSUME NEW n, NEW S, S \subseteq Product(n)
  PROVE  /\ {b.part : b \in S} = Parts(jobs[n]) => S = Product(n)
         /\ {b \in S : b.part \in Parts(jobs[n])} = S
<1> DEFINE parts == Parts(jobs[n])  content == Contents(jobs[n].configuration, jobs[n].conan)
<1>1. Product(n) = [part : parts, by : {n}, from : {content}]
  BY DEF Product
<1> HIDE DEF parts, content
<1>2. \A b \in S : b.part \in parts
  BY <1>1
<1>3. ASSUME {b.part : b \in S} = parts PROVE Product(n) \subseteq S
  <2> SUFFICES ASSUME NEW p \in Product(n) PROVE p \in S
    OBVIOUS
  <2>1. PICK b \in S : b.part = p.part
    BY <1>1, <1>3
  <2>2. b \in Product(n)
    OBVIOUS
  <2>3. b = p
    BY <1>1, <2>1, <2>2
  <2> QED
    BY <2>3
<1> QED
  BY <1>2, <1>3 DEF parts

\* The base image that is pulled is that of the configuration.
LEMMA ProductPull ==
  ASSUME StageInv, RegistryInv, ProductInv, PullDependencies
  PROVE  ProductInv'
<1>1. /\ number' = number /\ job' = job
      /\ \A n : Product(n)' = Product(n) /\ ImageName(n)' = ImageName(n)
  BY SameJobs DEF PullDependencies
<1>2. UNCHANGED <<jobs, images>> /\ stage = "pull"
  BY DEF PullDependencies
<1>3. stage' \in {"output", "cpp linters", "end", "post"}
  BY DEF PullDependencies, GoTo, JobFails
<1>4. stage' \in {"output", "cpp linters"} => base' = Contents(job.configuration, job.conan)
  <2>1. job \in JobKinds
    BY <1>2, JobIsKind
  <2>2. job.os \in OperatingSystems /\ job.configuration \in Configurations /\ job.conan \in BOOLEAN
    BY <2>1 DEF JobKinds
  <2> DEFINE name == build_base_image_name(job.os, job.configuration, job.conan)
  <2>3. name \in DOMAIN registry => registry[name] = Contents(job.configuration, job.conan)
    BY <2>2, RegistryIsTheirOwn DEF BaseImagesAreTheirOwn
  <2>4. stage' \in {"output", "cpp linters"} => name \in DOMAIN registry /\ base' = registry[name]
    BY DEF PullDependencies, JobFails
  <2> QED
    BY <2>3, <2>4
<1>5. OutputInv'
  BY <1>1, <1>3, <1>4 DEF OutputInv, BuildStages, LintStages
<1>6. CommittedInv'
  BY <1>1, <1>2, <1>3 DEF ProductInv, CommittedInv, TestStages
<1> QED
  BY <1>5, <1>6 DEF ProductInv

\* Steps between the output directory and the commit.
LEMMA ProductBuilt ==
  ASSUME StageInv, ProductInv, stage \in BuildStages, UNCHANGED <<jobs, base, images>>,
         stage' \in BuildStages \cup {"end", "post"},
         stage' = "directory" => binaries' = {},
         stage' = "build" => binaries' \subseteq Product(number),
         stage' = "image" => binaries' = Product(number),
         stage' = "commit" => containers'[Label(number)] = Product(number)
  PROVE  ProductInv'
<1>1. /\ number' = number /\ job' = job
      /\ \A n : Product(n)' = Product(n) /\ ImageName(n)' = ImageName(n)
  BY SameJobs
<1>2. Product(number)' = Product(number) /\ Label(number)' = Label(number)
  BY DEF Product, Label, number
<1>3. stage' \in BuildStages => base' = Contents(job'.configuration, job'.conan)
  BY <1>1 DEF ProductInv, OutputInv
<1>4. OutputInv'
  BY <1>2, <1>3 DEF OutputInv
<1>5. CommittedInv'
  BY <1>1 DEF ProductInv, CommittedInv, TestStages, BuildStages, LintStages
<1> QED
  BY <1>4, <1>5 DEF ProductInv

\* The image that is committed is the product of the job, and no other is touched.
LEMMA ProductCommit ==
  ASSUME StageInv, ProductInv, Commit
  PROVE  ProductInv'
<1>1. /\ number' = number /\ job' = job
      /\ \A n : Product(n)' = Product(n) /\ ImageName(n)' = ImageName(n)
  BY SameJobs DEF Commit
<1>2. Product(number)' = Product(number) /\ ImageName(number)' = ImageName(number)
  BY <1>1 DEF Commit, Product, ImageName, Label, number
<1>3. number \in DOMAIN jobs
  BY JobIsKind DEF Commit
<1>4. UNCHANGED jobs /\ stage' \in {"push", "end", "post"}
  BY DEF Commit, GoTo, JobFails
<1>5. OutputInv'
  BY <1>4 DEF OutputInv, BuildStages, LintStages
<1>6. CASE images' = images /\ stage' # "push"
  BY <1>1, <1>4, <1>5, <1>6 DEF ProductInv, CommittedInv, TestStages
<1>7. CASE images' = Store(images, ImageName(number), containers[Label(number)])
  <2> DEFINE image == ImageName(number)  product == Product(number)
  <2>1. containers[Label(number)] = product
    BY DEF Commit, ProductInv, OutputInv
  <2> HIDE DEF image, product
  <2>2. images' = Store(images, image, product)
    BY <1>7, <2>1 DEF image
  <2>3. DOMAIN images' = {image} \cup DOMAIN images
    BY <2>2, StoreDomain, Zenon
  <2>4. images'[image] = product
    <3>1. Store(images, image, product)[image] = product
      BY StoreNew
    <3> QED
      BY <2>2, <3>1
  <2>5. \A name \in DOMAIN images : name # image => images'[name] = images[name]
    BY <2>2, StoreOld, Zenon
  <2>6. ASSUME NEW name \in DOMAIN images'
        PROVE  \E n \in DOMAIN jobs' : name = ImageName(n)' /\ images'[name] = Product(n)'
    <3>1. CASE name = image
      BY <1>1, <1>3, <1>4, <2>4, <3>1 DEF image, product
    <3>2. CASE name # image
      <4>1. PICK n \in DOMAIN jobs : name = ImageName(n) /\ images[name] = Product(n)
        BY <2>3, <3>2 DEF ProductInv, CommittedInv
      <4>2. images'[name] = images[name]
        BY <2>3, <2>5, <3>2
      <4> QED
        BY <1>1, <1>4, <4>1, <4>2
    <3> QED
      BY <3>1, <3>2
  <2>7. CommittedInv'
    BY <1>2, <1>4, <2>4, <2>6 DEF CommittedInv, TestStages, image, product
  <2> QED
    BY <1>5, <2>7 DEF ProductInv
<1> QED
  BY <1>6, <1>7 DEF Commit, GoTo, JobFails

\* Whatever the step, committed images are whole products.
LEMMA ProductNext ==
  ASSUME StageInv, RegistryInv, ProductInv, [Next]_vars
  PROVE  ProductInv'
<1>1. CASE UNCHANGED vars
  BY <1>1, ProductKeeps DEF vars, job_vars, stage_vars
<1>2. ASSUME NEW j, StartJob(j) PROVE ProductInv'
  BY <1>2, ProductNew
<1>3. CASE PullDependencies
  BY <1>3, ProductPull
<1>4. CASE run_cpp_linters
  <2>1. /\ UNCHANGED <<jobs, disk>> /\ stage = "cpp linters"
        /\ stage' \in {"shellcheck", "end", "post"}
    BY <1>4 DEF run_cpp_linters, GoTo, JobFails
  <2> QED
    BY <2>1, ProductKeeps DEF BuildStages, LintStages
<1>5. ASSUME NEW scope \in Linters, LinterRun(scope) PROVE ProductInv'
  <2>1. /\ UNCHANGED <<jobs, disk>> /\ stage \in LintStages
        /\ stage' \in {"output", "end", "post"} \cup LintStages
    BY <1>5, StageNames DEF LinterRun, GoTo, JobFails, LintStages
  <2> QED
    BY <2>1, ProductKeeps DEF BuildStages
<1>6. CASE PrepareOutput
  <2>1. /\ UNCHANGED <<jobs, base, images>> /\ stage = "output"
        /\ stage' \in {"directory", "end", "post"} /\ (stage' = "directory" => binaries' = {})
    BY <1>6 DEF PrepareOutput, GoTo, JobFails
  <2> QED
    BY <2>1, ProductBuilt DEF BuildStages
<1>7. CASE _prepare_directory
  <2>1. /\ UNCHANGED <<jobs, base, images, binaries>> /\ stage = "directory"
        /\ stage' \in {"build", "end", "post"}
    BY <1>7 DEF _prepare_directory, GoTo, JobFails
  <2>2. binaries = {}
    BY <2>1 DEF ProductInv, OutputInv
  <2> QED
    BY <2>1, <2>2, ProductBuilt DEF BuildStages
<1>8. CASE BuildStep
  <2>1. UNCHANGED <<jobs, base, images>> /\ stage = "build"
    BY <1>8 DEF BuildStep
  <2>2. /\ binaries \subseteq Product(number) /\ base = Contents(job.configuration, job.conan)
    <3>1. stage \in BuildStages
      BY <2>1 DEF BuildStages
    <3>2. stage = "build" => binaries \subseteq Product(number)
      BY DEF ProductInv, OutputInv
    <3>3. stage \in BuildStages => base = Contents(job.configuration, job.conan)
      BY DEF ProductInv, OutputInv
    <3> QED
      BY <2>1, <3>1, <3>2, <3>3
  <2>0. PICK parts \in {{"bin", "lib"}, {"deps"}, {"tests"}} :
          /\ parts \subseteq Parts(job)
          /\ \E made \in SUBSET parts :
               /\ binaries' = binaries \cup {[part |-> p, by |-> number, from |-> base] : p \in made}
               /\ IF made # parts THEN BuildFails
                  ELSE GoTo(IF {b.part : b \in binaries'} = Parts(job) THEN "image" ELSE "build")
    BY <1>8, Zenon DEF BuildStep
  <2>3. PICK made \in SUBSET parts :
          /\ parts \subseteq Parts(job)
          /\ binaries' = binaries \cup {[part |-> p, by |-> number, from |-> base] : p \in made}
          /\ IF made # parts THEN BuildFails
             ELSE GoTo(IF {b.part : b \in binaries'} = Parts(job) THEN "image" ELSE "build")
    BY <2>0, Zenon
  <2>4. binaries' \subseteq Product(number)
    <3>1. Product(number) = [part : Parts(job), by : {number}, from : {base}]
      BY <2>2 DEF Product, job
    <3>2. ASSUME NEW p \in made
          PROVE  [part |-> p, by |-> number, from |-> base] \in [part : Parts(job), by : {number}, from : {base}]
      BY <2>3
    <3> QED
      BY <2>2, <2>3, <3>1, <3>2
  <2>5. stage' \in {"build", "image", "end", "post"}
    BY <2>3 DEF BuildFails, GoTo, JobFails
  <2>6. stage' = "image" => binaries' = Product(number)
    <3>1. stage' = "image" => {b.part : b \in binaries'} = Parts(jobs[number])
      BY <2>3 DEF BuildFails, GoTo, JobFails, job
    <3> QED
      BY <2>4, <3>1, WholeProduct
  <2> QED
    BY <2>1, <2>4, <2>5, <2>6, ProductBuilt DEF BuildStages
<1>9. CASE PrepareContainer
  <2>1. UNCHANGED <<jobs, base, images>> /\ stage = "image"
    BY <1>9 DEF PrepareContainer
  <2>2. binaries = Product(number)
    BY <2>1 DEF ProductInv, OutputInv
  <2>3. PICK copied : /\ containers' = Store(containers, Label(number), copied)
                      /\ \/ copied = {b \in binaries : b.part \in Parts(job)} /\ GoTo("commit")
                         \/ JobFails
    BY <1>9, Zenon DEF PrepareContainer
  <2>4. stage' \in {"commit", "end", "post"}
    BY <2>3 DEF GoTo, JobFails
  <2>5. stage' = "commit" => copied = Product(number)
    <3>1. stage' = "commit" => copied = {b \in binaries : b.part \in Parts(jobs[number])}
      BY <2>3 DEF JobFails, job
    <3>2. {b \in binaries : b.part \in Parts(jobs[number])} = binaries
      BY <2>2, WholeProduct
    <3> QED
      BY <2>2, <3>1, <3>2
  <2>6. containers'[Label(number)] = copied
    <3>1. Store(containers, Label(number), copied)[Label(number)] = copied
      BY StoreNew
    <3> QED
      BY <2>3, <3>1
  <2> QED
    BY <2>1, <2>4, <2>5, <2>6, ProductBuilt DEF BuildStages
<1>10. CASE Commit
  BY <1>10, ProductCommit
<1>11. CASE PushImage
  <2>1. UNCHANGED <<jobs, disk>> /\ stage = "push" /\ stage' \in {"end", "post", "pull tests"}
    BY <1>11 DEF PushImage, GoTo, JobFails, AfterBuild
  <2> QED
    BY <2>1, ProductKeeps DEF TestStages
<1>12. CASE RunDockerTests
  <2>1. /\ UNCHANGED <<jobs, disk>> /\ stage = "pull tests"
        /\ stage' \in {"end", "post", "test", "bench"}
    BY <1>12 DEF RunDockerTests, GoTo, JobFails
  <2> QED
    BY <2>1, ProductKeeps DEF TestStages
<1>13. CASE RunBench \/ TestsEnd
  <2>1. UNCHANGED <<jobs, disk>> /\ stage' \in {"end", "post"}
    BY <1>13 DEF RunBench, TestsEnd, GoTo, JobFails
  <2> QED
    BY <2>1, ProductKeeps
<1>14. CASE RunnerStep \/ ContainerAborted
  <2>1. UNCHANGED <<jobs, disk>> /\ stage' = stage
    BY <1>14 DEF RunnerStep, ContainerAborted, job_vars, stage_vars
  <2> QED
    BY <2>1, ProductKeeps
<1>15. CASE Post \/ EndRelease \/ AgentDies
  <2>1. UNCHANGED <<jobs, disk>> /\ stage' = "idle"
    BY <1>15 DEF Post, EndRelease, AgentDies, GoTo
  <2> QED
    BY <2>1, ProductKeeps
<1>16. CASE BaseNext /\ UNCHANGED <<runner_vars, job_vars>>
  BY <1>16, ProductKeeps DEF job_vars, stage_vars
<1> QED
  BY <1>1, <1>2, <1>3, <1>4, <1>5, <1>6, <1>7, <1>8, <1>9, <1>10, <1>11, <1>12, <1>13, <1>14, <1>15,
     <1>16 DEF Next

-----------------------------------------------------------------------------
(* The logs of the linters.                                                *)

\* The logs of a first part of the linters are those of the job.
LEMMA LintedInOrder ==
  ASSUME NEW done, LintedBy(done), number \in Nat, done = Linters \/ \E s \in Linters : done = Done[s],
         NEW scope \in Linters \ {"isort"}, <<AfterLinter[scope], number>> \in lint_logs
  PROVE  <<scope, number>> \in lint_logs
<1>1. Linters = LintStages
  BY StageNames
<1>2. AfterLinter[scope] \in done
  <2>1. CASE AfterLinter[scope] \notin done
    <3> HIDE DEF number
    <3>1. <<AfterLinter[scope], number>>[2] < number
      BY <2>1 DEF LintedBy
    <3> QED
      BY <3>1
  <2> QED
    BY <2>1
<1>3. scope \in done
  <2>1. CASE done = Linters
    BY <2>1
  <2>2. ASSUME NEW s \in Linters, done = Done[s] PROVE scope \in done
    <3>0. scope \in {"shellcheck", "pylint", "pycodestyle"}
      BY <1>1 DEF LintStages
    <3>1. \/ scope = "shellcheck" /\ AfterLinter[scope] = "pylint"
          \/ scope = "pylint" /\ AfterLinter[scope] = "pycodestyle"
          \/ scope = "pycodestyle" /\ AfterLinter[scope] = "isort"
      BY <3>0 DEF AfterLinter
    <3>2. s \in LintStages
      BY <1>1, <2>2
    <3> QED
      BY <1>2, <2>2, <3>1, <3>2 DEF Done, LintStages
  <2> QED
    BY <2>1, <2>2
<1> QED
  BY <1>3 DEF LintedBy

\* A pair is made of its parts.
LEMMA PairIsPair ==
  ASSUME NEW S, NEW T, NEW l \in S \X T
  PROVE  l[1] \in S /\ l[2] \in T /\ l = <<l[1], l[2]>>
  OBVIOUS

\* The invariant of the logs implies the property.
LEMMA LintsReport ==
  ASSUME StageInv, LintInv
  PROVE  EveryLinterReports
<1> SUFFICES ASSUME stage \notin {"idle", "pull", "cpp linters", "end"}, Lints(job)
             PROVE  /\ stage \notin Linters \cup {"post"} \/ (stage = "post" /\ ~failing) =>
                         lint_logs = Linters \X {number}
                    /\ \A scope \in Linters \ {"isort"} :
                         <<AfterLinter[scope], number>> \in lint_logs => <<scope, number>> \in lint_logs
  BY DEF EveryLinterReports
<1>1. lint_logs \subseteq Linters \X (0..number)
  BY DEF LintInv
<1>2. stage \notin Linters \cup {"post", "end"} \/ (stage = "post" /\ ~failing) =>
        lint_logs = Linters \X {number}
  <2> SUFFICES ASSUME stage \notin Linters \cup {"post", "end"} \/ (stage = "post" /\ ~failing)
               PROVE  lint_logs = Linters \X {number}
    OBVIOUS
  <2>0. Linters = LintStages
    BY StageNames
  <2>1. GotPast
    BY <2>0 DEF GotPast, LintStages
  <2>2. LintedBy(Linters)
    BY <2>1 DEF LintInv
  <2>3. ASSUME NEW l \in lint_logs
        PROVE  l[1] \in Linters /\ l[2] = number /\ l = <<l[1], l[2]>>
    <3>1. l \in Linters \X (0..number)
      BY <1>1
    <3>2. l[1] \in Linters /\ l = <<l[1], l[2]>>
      BY <3>1, PairIsPair
    <3>3. l[2] = number
      BY <2>2, <3>2 DEF LintedBy
    <3> QED
      BY <3>2, <3>3
  <2>4. Linters \X {number} \subseteq lint_logs
    BY <2>2 DEF LintedBy
  <2>5. lint_logs \subseteq Linters \X {number}
    <3> SUFFICES ASSUME NEW l \in lint_logs PROVE l \in Linters \X {number}
      OBVIOUS
    <3>1. l[1] \in Linters /\ l[2] = number /\ l = <<l[1], l[2]>>
      BY <2>3
    <3>2. l = <<l[1], number>>
      BY <3>1, Zenon
    <3>3. <<l[1], number>> \in Linters \X {number}
      BY <3>1
    <3> QED
      BY <3>2, <3>3, Zenon
  <2> QED
    BY <2>4, <2>5
<1>4. number \in Nat
  BY JobIsKind DEF StageInv
<1>5. ASSUME NEW scope \in Linters \ {"isort"}, <<AfterLinter[scope], number>> \in lint_logs
      PROVE  <<scope, number>> \in lint_logs
  <2>1. LintedBy(Linters) \/ \E s \in Linters : LintedBy(Done[s])
    BY DEF LintInv
  <2>2. CASE LintedBy(Linters)
    BY <1>4, <1>5, <2>2, LintedInOrder
  <2>3. ASSUME NEW s \in Linters, LintedBy(Done[s]) PROVE <<scope, number>> \in lint_logs
    BY <1>4, <1>5, <2>3, LintedInOrder
  <2> QED
    BY <2>1, <2>2, <2>3
<1> QED
  BY <1>2, <1>5

\* There is no log at first.
LEMMA InitLint ==
  ASSUME Init
  PROVE  LintInv
<1>1. stage = "idle" /\ lint_logs = {}
  BY DEF Init, JobInit
<1> QED
  BY <1>1, StageNames DEF LintInv, LintStages, GotPast

\* Steps that write no log.
LEMMA LintKeeps ==
  ASSUME StageInv, LintInv, UNCHANGED <<jobs, lint_logs>>,
         \/ UNCHANGED stage_vars
         \/ stage' = "idle"
         \/ stage \notin {"idle", "pull", "cpp linters", "post", "end"} \cup LintStages
              /\ stage' \notin {"idle", "pull", "cpp linters"} \cup LintStages
         \/ stage \in {"pull", "cpp linters"} /\ stage' = "output" /\ IsRelease(job)
         \/ stage \in {"pull", "cpp linters"} /\ JobFails
         \/ stage = "pull" /\ stage' = "cpp linters"
         \/ stage = "cpp linters" /\ stage' = "shellcheck"
  PROVE  LintInv'
<1>1. number' = number /\ job' = job
  BY DEF number, job
<1>2. \A done : LintedBy(done)' <=> LintedBy(done)
  BY <1>1 DEF LintedBy
<1>3. lint_logs' \subseteq Linters \X (0..number')
  BY <1>1 DEF LintInv
<1>4. Linters = LintStages
  BY StageNames
<1>5. Lints(job)' <=> Lints(job)
  BY <1>1 DEF Lints, IsRelease
<1>6. CASE UNCHANGED stage_vars
  <2>0. stage' = stage /\ failing' = failing
    BY <1>6 DEF stage_vars
  <2>1. stage \in Linters => LintedBy(Done[stage])'
    BY <1>1, <2>0 DEF LintInv, LintedBy
  <2>2. /\ stage \in {"pull", "cpp linters"} => LintedBy({})'
        /\ stage # "idle" => LintedBy(Linters)' \/ \E scope \in Linters : LintedBy(Done[scope])'
    BY <1>1 DEF LintInv, LintedBy
  <2>3. GotPast' => LintedBy(Linters)'
    BY <1>2, <1>5, <2>0 DEF LintInv, GotPast
  <2> QED
    BY <1>3, <2>0, <2>1, <2>2, <2>3 DEF LintInv
<1>7. CASE stage' = "idle"
  BY <1>3, <1>4, <1>7 DEF LintInv, LintStages, GotPast
<1>8. CASE stage \notin {"idle", "pull", "cpp linters", "post", "end"} \cup LintStages
           /\ stage' \notin {"idle", "pull", "cpp linters"} \cup LintStages
  <2>1. LintedBy(Linters)' \/ \E scope \in Linters : LintedBy(Done[scope])'
    BY <1>1, <1>8 DEF LintInv, LintedBy
  <2>2. GotPast' => GotPast
    BY <1>4, <1>5, <1>8 DEF GotPast, LintStages
  <2>3. GotPast' => LintedBy(Linters)'
    BY <1>2, <2>2 DEF LintInv
  <2> QED
    BY <1>3, <1>4, <1>8, <2>1, <2>3 DEF LintInv
<1>9. CASE stage \in {"pull", "cpp linters"}
  <2>1. LintedBy({})'
    BY <1>2, <1>9 DEF LintInv
  <2>2. Done["shellcheck"] = {} /\ "shellcheck" \in Linters
    BY <1>4 DEF Done, LintStages
  <2>3. \E scope \in Linters : LintedBy(Done[scope])'
    BY <2>1, <2>2
  <2>4. CASE stage' = "output" /\ IsRelease(job)
    BY <1>3, <1>4, <1>5, <2>3, <2>4 DEF LintInv, LintStages, GotPast, Lints
  <2>5. CASE JobFails
    BY <1>3, <1>4, <2>3, <2>5 DEF LintInv, LintStages, GotPast, JobFails
  <2>6. CASE stage' = "cpp linters"
    BY <1>3, <1>4, <2>1, <2>3, <2>6 DEF LintInv, LintStages, GotPast
  <2>7. CASE stage' = "shellcheck"
    BY <1>3, <1>4, <2>1, <2>2, <2>3, <2>7 DEF LintInv, LintStages, GotPast
  <2> QED
    BY <1>6, <1>7, <1>8, <1>9, <2>4, <2>5, <2>6, <2>7
<1> QED
  BY <1>6, <1>7, <1>8, <1>9

\* All logs there are when a job starts are those of earlier jobs.
LEMMA LintNew ==
  ASSUME StageInv, LintInv, NEW j, StartJob(j)
  PROVE  LintInv'
<1>1. number \in Nat /\ number' = number + 1
  BY NewJob
<1>2. lint_logs' = lint_logs
      /\ stage' = IF j.disposition = "none" THEN AfterBuild(j) ELSE "pull"
  BY DEF StartJob
<1>3. lint_logs \subseteq Linters \X (0..number)
  BY DEF LintInv
<1>4. job' = j
  BY NewJob DEF StartJob, job, StageInv
<1> HIDE DEF number, job
<1>5. \A log \in lint_logs : log[2] < number'
  BY <1>1, <1>3
<1>6. lint_logs' \subseteq Linters \X (0..number')
  <2>1. (0..number) \subseteq 0..number'
    BY <1>1
  <2> QED
    BY <1>2, <1>3, <2>1
<1>7. LintedBy({})'
  BY <1>2, <1>5 DEF LintedBy
<1>8. \E scope \in Linters : LintedBy(Done[scope])'
  <2>1. Done["shellcheck"] = {} /\ "shellcheck" \in Linters
    BY StageNames DEF Done, LintStages
  <2> QED
    BY <1>7, <2>1
<1>9. ~ GotPast'
  BY <1>2, <1>4 DEF GotPast, Lints
<1>10. stage' \in {"post", "pull tests", "pull"}
  BY <1>2 DEF AfterBuild
<1> QED
  BY <1>6, <1>7, <1>8, <1>9, <1>10, StageNames DEF LintInv, LintStages

\* One more linter has reported.
LEMMA OneMoreLog ==
  ASSUME StageInv, LintInv, NEW scope \in Linters, stage = scope, UNCHANGED jobs,
         lint_logs' = OwnLog(scope)
  PROVE  /\ lint_logs' \subseteq Linters \X (0..number')
         /\ LintedBy(Done[scope] \cup {scope})'
<1> DEFINE done == Done[scope]
<1>1. number \in Nat /\ number > 0 /\ scope \in LintStages
  BY StageNames, JobIsKind DEF LintStages, StageInv
<1>2. number' = number
  BY DEF number
<1>3. lint_logs' = {log \in lint_logs : log[1] # scope} \cup {<<scope, number>>}
  BY DEF OwnLog
<1>5. LintedBy(done) /\ lint_logs \subseteq Linters \X (0..number)
  BY <1>1 DEF LintInv
<1>6. scope \notin done
  BY <1>1 DEF Done, LintStages
<1> HIDE DEF done, number
<1>7. lint_logs' \subseteq Linters \X (0..number')
  <2>1. <<scope, number>> \in Linters \X (0..number)
    BY <1>1
  <2> QED
    BY <1>2, <1>3, <1>5, <2>1
<1>8. LintedBy(done \cup {scope})'
  <2>1. (done \cup {scope}) \X {number} \subseteq lint_logs'
    <3> SUFFICES ASSUME NEW s \in done \cup {scope} PROVE <<s, number>> \in lint_logs'
      OBVIOUS
    <3>1. s # scope => <<s, number>> \in lint_logs /\ <<s, number>>[1] = s
      BY <1>5 DEF LintedBy
    <3> QED
      BY <1>3, <3>1
  <2>2. ASSUME NEW log \in lint_logs'
        PROVE  IF log[1] \in done \cup {scope} THEN log[2] = number ELSE log[2] < number
    <3>1. CASE log = <<scope, number>>
      BY <3>1
    <3>2. CASE log \in lint_logs /\ log[1] # scope
      BY <1>5, <3>2 DEF LintedBy
    <3> QED
      BY <1>3, <3>1, <3>2
  <2> QED
    BY <1>2, <2>1, <2>2 DEF LintedBy
<1> QED
  BY <1>7, <1>8 DEF done

\* The linters that have run when the next one is to run, or when all of them are through.
LEMMA NextLinter ==
  ASSUME NEW scope \in Linters
  PROVE  IF scope = "isort" THEN AfterLinter[scope] = "output" /\ Done[scope] \cup {scope} = Linters
         ELSE AfterLinter[scope] \in Linters /\ Done[scope] \cup {scope} = Done[AfterLinter[scope]]
<1>1. scope \in LintStages /\ Linters = LintStages
  BY StageNames
<1>2. CASE scope = "shellcheck"
  BY <1>1, <1>2 DEF AfterLinter, Done, LintStages
<1>3. CASE scope = "pylint"
  BY <1>1, <1>3 DEF AfterLinter, Done, LintStages
<1>4. CASE scope = "pycodestyle"
  BY <1>1, <1>4 DEF AfterLinter, Done, LintStages
<1>5. CASE scope = "isort"
  <2>1. AfterLinter[scope] = "output"
    BY <1>5 DEF AfterLinter
  <2>2. Done[scope] \cup {scope} = LintStages
    BY <1>5 DEF Done, LintStages
  <2> QED
    BY <1>1, <1>5, <2>1, <2>2
<1> QED
  BY <1>1, <1>2, <1>3, <1>4, <1>5 DEF LintStages

\* A linter comes to its end, or the job fails in it.
LEMMA LintOne ==
  ASSUME StageInv, LintInv, NEW scope \in Linters, LinterRun(scope)
  PROVE  LintInv'
<1>1. stage = scope /\ UNCHANGED jobs
  BY DEF LinterRun
<1>2. stage # "idle" /\ LintedBy(Done[scope]) /\ lint_logs \subseteq Linters \X (0..number)
  BY <1>1, StageNames DEF LintInv, LintStages
<1>3. \/ lint_logs' = OwnLog(scope) /\ stage' = AfterLinter[scope]
      \/ lint_logs' \in {lint_logs, OwnLog(scope)} /\ JobFails
  BY DEF LinterRun, GoTo
<1>4. lint_logs' = OwnLog(scope) =>
        /\ lint_logs' \subseteq Linters \X (0..number')
        /\ LintedBy(Done[scope] \cup {scope})'
  BY <1>1, OneMoreLog
<1>5. LintedBy(Done[scope] \cup {scope})' =>
        LintedBy(Linters)' \/ \E s \in Linters : LintedBy(Done[s])'
  <2>1. \/ Done[scope] \cup {scope} = Linters
        \/ AfterLinter[scope] \in Linters /\ Done[scope] \cup {scope} = Done[AfterLinter[scope]]
    BY NextLinter
  <2>2. CASE Done[scope] \cup {scope} = Linters
    BY <2>2 DEF LintedBy
  <2>3. CASE AfterLinter[scope] \in Linters /\ Done[scope] \cup {scope} = Done[AfterLinter[scope]]
    BY <2>3 DEF LintedBy
  <2> QED
    BY <2>1, <2>2, <2>3
<1>6. CASE lint_logs' = OwnLog(scope) /\ stage' = AfterLinter[scope]
  <2>1. CASE scope = "isort"
    <3>1. stage' = "output" /\ Done[scope] \cup {scope} = Linters
      BY <1>6, <2>1, NextLinter
    <3>2. LintedBy(Linters)'
      BY <1>4, <1>6, <3>1 DEF LintedBy
    <3> QED
      BY <1>4, <1>6, <3>1, <3>2, StageNames DEF LintInv, LintStages
  <2>2. CASE scope # "isort"
    <3>1. stage' \in Linters /\ Done[scope] \cup {scope} = Done[stage']
      BY <1>6, <2>2, NextLinter
    <3>2. LintedBy(Done[stage])'
      BY <1>4, <1>6, <3>1 DEF LintedBy
    <3>3. \E s \in Linters : LintedBy(Done[s])'
      BY <3>1, <3>2 DEF LintedBy
    <3>4. ~ GotPast'
      BY <3>1 DEF GotPast
    <3>5. stage' \notin {"pull", "cpp linters"}
      BY <3>1, StageNames DEF LintStages
    <3> QED
      BY <1>4, <1>6, <3>1, <3>2, <3>3, <3>4, <3>5 DEF LintInv
  <2> QED
    BY <2>1, <2>2
<1>7. CASE lint_logs' \in {lint_logs, OwnLog(scope)} /\ JobFails
  <2>1. stage' \in {"post", "end"} /\ failing' = TRUE
    BY <1>7 DEF JobFails
  <2>2. number' = number
    BY <1>1 DEF number
  <2>3. CASE lint_logs' = lint_logs
    <3>1. LintedBy(Done[scope])'
      BY <1>2, <2>2, <2>3 DEF LintedBy
    <3> QED
      BY <1>2, <2>1, <2>2, <2>3, <3>1, StageNames DEF LintInv, LintStages, GotPast
  <2>4. CASE lint_logs' = OwnLog(scope)
    BY <1>4, <1>5, <2>1, <2>4, StageNames DEF LintInv, LintStages, GotPast
  <2> QED
    BY <1>7, <2>3, <2>4
<1> QED
  BY <1>3, <1>6, <1>7

\* Whatever the step, the linters that reported are a first part of them, and all of them
\* where the job got past them.
LEMMA LintNext ==
  ASSUME StageInv, LintInv, [Next]_vars
  PROVE  LintInv'
<1>1. CASE UNCHANGED vars
  BY <1>1, LintKeeps DEF vars, job_vars, stage_vars
<1>2. ASSUME NEW j, StartJob(j) PROVE LintInv'
  BY <1>2, LintNew
<1>3. CASE PullDependencies \/ run_cpp_linters
  <2>1. UNCHANGED <<jobs, lint_logs>>
    BY <1>3 DEF PullDependencies, run_cpp_linters
  <2>2. \/ /\ stage = "pull"
           /\ stage' = "cpp linters" \/ (stage' = "output" /\ IsRelease(job)) \/ JobFails
        \/ stage = "cpp linters" /\ (stage' = "shellcheck" \/ JobFails)
    BY <1>3 DEF PullDependencies, run_cpp_linters, GoTo
  <2> QED
    BY <2>1, <2>2, LintKeeps
<1>4. ASSUME NEW scope \in Linters, LinterRun(scope) PROVE LintInv'
  BY <1>4, LintOne
<1>5. ASSUME UNCHANGED <<jobs, lint_logs>>,
             stage \notin {"idle", "pull", "cpp linters", "post", "end"} \cup LintStages,
             stage' \notin {"idle", "pull", "cpp linters"} \cup LintStages
      PROVE  LintInv'
  BY <1>5, LintKeeps
<1>6. CASE PrepareOutput \/ _prepare_directory \/ PrepareContainer \/ Commit
  BY <1>5, <1>6 DEF PrepareOutput, _prepare_directory, PrepareContainer, Commit, GoTo, JobFails, LintStages
<1>7. CASE BuildStep \/ PushImage \/ RunDockerTests
  BY <1>5, <1>7 DEF BuildStep, BuildFails, PushImage, RunDockerTests, GoTo, JobFails, AfterBuild, LintStages
<1>8. CASE RunBench \/ TestsEnd
  BY <1>5, <1>8 DEF RunBench, TestsEnd, GoTo, JobFails, LintStages
<1>9. CASE RunnerStep \/ ContainerAborted
  BY <1>9, LintKeeps DEF RunnerStep, ContainerAborted, job_vars, stage_vars
<1>10. CASE EndRelease \/ AgentDies
  BY <1>10, LintKeeps DEF EndRelease, AgentDies, GoTo
<1>11. CASE Post
  <2>1. lint_logs' = {} /\ stage' = "idle"
    BY <1>11 DEF Post, GoTo
  <2> QED
    BY <2>1, StageNames DEF LintInv, LintStages, GotPast
<1>12. CASE BaseNext /\ UNCHANGED <<runner_vars, job_vars>>
  BY <1>12, LintKeeps DEF job_vars, stage_vars
<1> QED
  BY <1>1, <1>2, <1>3, <1>4, <1>6, <1>7, <1>8, <1>9, <1>10, <1>11, <1>12 DEF Next

-----------------------------------------------------------------------------
(* The image under test, and all of it together.                           *)

\* What holds between any two steps of the jobs, the runner and the registry.
JobInv == StageInv /\ SessionInv /\ RunnerInv /\ RegistryInv /\ ProductInv /\ LintInv /\ TestedInv

\* The invariant of the job implies the property: results without an error are results
\* of suites without one, since what is reported of a suite is what it left.
LEMMA TestedIsClean ==
  ASSUME JobInv
  PROVE  SuccessMeansClean
<1> SUFFICES ASSUME stage = "post", Result = "success", job.mode = "test",
                    job.disposition # "none", ~ IsCustom(job)
             PROVE  /\ tested = images[ImageName(number)] /\ \A b \in tested : b.by = number
                    /\ DOMAIN did = Suites
                    /\ \A s \in Suites : ~ did[s].failed /\ Errors(did[s]) = {}
  BY DEF SuccessMeansClean
<1>1. failing \in BOOLEAN
  BY DEF JobInv, StageInv
<1>2. ~ failing /\ ~ ResultsFail
  BY <1>1 DEF Result
<1>3. point = "succeeded" /\ tested = images[ImageName(number)] /\ tested = Product(number)
  BY <1>2 DEF JobInv, TestedInv
<1>4. \A b \in tested : b.by = number
  BY <1>3 DEF Product
<1>5. DOMAIN did = Suites /\ \A s \in Suites : ~ did[s].failed /\ Reported(s) = Errors(did[s])
  BY <1>3 DEF JobInv, RunnerInv, JudgedInv
<1>6. \A key \in DOMAIN san_results : san_results[key] = {}
  BY <1>2 DEF ResultsFail
<1>7. \A s \in Suites : Reported(s) = {}
  BY <1>6 DEF Reported
<1> QED
  BY <1>3, <1>4, <1>5, <1>7

\* Steps that leave the image under test alone.
LEMMA TestedKeeps ==
  ASSUME TestedInv, UNCHANGED <<jobs, disk, tested>>,
         stage' \notin {"test", "post"}
           \/ (stage' = "post" /\ (failing' = TRUE \/ job.mode # "test"))
           \/ (stage' = stage /\ failing' = failing /\ (stage = "post" => point' = point))
  PROVE  TestedInv'
<1>1. /\ number' = number /\ job' = job
  BY SameJobs
<1>2. /\ Product(number)' = Product(number) /\ ImageName(number)' = ImageName(number)
      /\ IsCustom(job)' <=> IsCustom(job)
  BY <1>1 DEF Product, ImageName, Label, number, IsCustom, IsRelease
<1>3. stage' = "test" /\ job'.disposition # "none" /\ ~ IsCustom(job)' => tested' = images'[ImageName(number)']
  BY <1>1, <1>2 DEF TestedInv, disk
<1>4. stage' = "post" /\ ~ failing' /\ job'.mode = "test" =>
          /\ point' = "succeeded"
          /\ job'.disposition # "none" /\ ~ IsCustom(job)' =>
               tested' = images'[ImageName(number)'] /\ tested' = Product(number)'
  BY <1>1, <1>2 DEF TestedInv, disk
<1> QED
  BY <1>3, <1>4 DEF TestedInv

\* Elsewhere nothing is promised of it.
LEMMA TestedElsewhere ==
  ASSUME stage' \notin {"test", "post"} \/ (stage' = "post" /\ (failing' = TRUE \/ job'.mode # "test"))
  PROVE  TestedInv'
  BY DEF TestedInv

\* The image whose suites are run stays the image of the job.
LEMMA TestedNext ==
  ASSUME JobInv, [Next]_vars
  PROVE  TestedInv'
<1>1. CASE UNCHANGED vars
  BY <1>1, TestedKeeps DEF vars, job_vars, stage_vars, runner_vars, JobInv
<1>2. ASSUME NEW j, StartJob(j) PROVE TestedInv'
  <2>1. job' = j /\ j \in JobKinds
    BY <1>2, NewJob DEF JobInv
  <2>2. stage' \in {"pull", "pull tests", "post"} /\ (stage' = "post" => j.mode = "none")
    BY <1>2 DEF StartJob, AfterBuild
  <2> QED
    BY <2>1, <2>2, TestedElsewhere
<1>3. CASE PullDependencies \/ run_cpp_linters \/ PrepareOutput \/ _prepare_directory
  <2>1. stage' \notin {"test", "post"} \/ (stage' = "post" /\ failing' = TRUE)
    BY <1>3 DEF PullDependencies, run_cpp_linters, PrepareOutput, _prepare_directory, GoTo, JobFails
  <2> QED
    BY <2>1, TestedElsewhere
<1>4. ASSUME NEW scope \in Linters, LinterRun(scope) PROVE TestedInv'
  <2>1. stage' \notin {"test", "post"} \/ (stage' = "post" /\ failing' = TRUE)
    BY <1>4, StageNames DEF LinterRun, GoTo, JobFails
  <2> QED
    BY <2>1, TestedElsewhere
<1>5. CASE BuildStep \/ PrepareContainer \/ Commit
  <2>1. stage' \notin {"test", "post"} \/ (stage' = "post" /\ failing' = TRUE)
    BY <1>5 DEF BuildStep, BuildFails, PrepareContainer, Commit, GoTo, JobFails
  <2> QED
    BY <2>1, TestedElsewhere
<1>6. CASE PushImage \/ RunBench
  <2>1. UNCHANGED jobs
    BY <1>6 DEF PushImage, RunBench
  <2>2. job' = job
    BY <2>1 DEF number, job
  <2>3. CASE PushImage
    <3>1. \/ stage' = "end" \/ stage' = AfterBuild(job)
          \/ failing' = TRUE /\ stage' \in {"end", "post"}
      BY <2>3 DEF PushImage, GoTo, JobFails
    <3>2. AfterBuild(job) = "pull tests" \/ (AfterBuild(job) = "post" /\ job.mode = "none")
      BY DEF AfterBuild
    <3> QED
      BY <2>2, <3>1, <3>2, TestedElsewhere
  <2>4. CASE RunBench
    <3>1. stage' \in {"end", "post"} /\ job.mode # "test"
      BY <2>4 DEF RunBench, GoTo, JobFails, JobInv, StageInv
    <3> QED
      BY <2>2, <3>1, TestedElsewhere
  <2> QED
    BY <1>6, <2>3, <2>4
<1>7. CASE RunDockerTests
  <2>1. \/ stage' = "bench" \/ stage' = "end" \/ (stage' = "post" /\ failing' = TRUE)
        \/ stage' = "test" /\ tested' = (IF IsCustom(job) THEN registry ELSE images)[ImageName(number)]
    BY <1>7 DEF RunDockerTests, GoTo, JobFails
  <2>2. CASE stage' = "test" /\ tested' = (IF IsCustom(job) THEN registry ELSE images)[ImageName(number)]
    <3>1. UNCHANGED <<jobs, images>>
      BY <1>7 DEF RunDockerTests, disk
    <3>2. job' = job /\ ImageName(number)' = ImageName(number) /\ (IsCustom(job)' <=> IsCustom(job))
      BY <3>1 DEF number, job, ImageName, Label, IsCustom, IsRelease
    <3>3. ~ IsCustom(job)' => tested' = images'[ImageName(number)']
      BY <2>2, <3>1, <3>2
    <3> QED
      BY <2>2, <3>3 DEF TestedInv
  <2> QED
    BY <2>1, <2>2, TestedElsewhere
<1>8. CASE RunnerStep \/ ContainerAborted
  <2>1. UNCHANGED <<jobs, disk, tested>> /\ stage = "test" /\ stage' = stage /\ failing' = failing
    BY <1>8 DEF RunnerStep, ContainerAborted, job_vars, stage_vars
  <2> QED
    BY <2>1, TestedKeeps DEF JobInv
<1>9. CASE TestsEnd
  <2>1. stage' \in {"post", "end"} /\ stage = "test" /\ (failing' = TRUE \/ (point = "succeeded" /\ failing' = failing))
    BY <1>9 DEF TestsEnd, GoTo, JobFails
  <2>2. UNCHANGED <<jobs, images, tested, point>>
    BY <1>9 DEF TestsEnd, disk, runner_vars
  <2>3. /\ job' = job /\ ImageName(number)' = ImageName(number) /\ (IsCustom(job)' <=> IsCustom(job))
        /\ Product(number)' = Product(number)
    BY <2>2 DEF number, job, ImageName, Label, IsCustom, IsRelease, Product
  <2>4. job.disposition # "none" /\ ~ IsCustom(job) =>
           tested = images[ImageName(number)] /\ images[ImageName(number)] = Product(number)
    BY <2>1 DEF JobInv, TestedInv, ProductInv, CommittedInv, TestStages
  <2>5. job'.disposition # "none" /\ ~ IsCustom(job)' =>
           tested' = images'[ImageName(number)'] /\ tested' = Product(number)'
    BY <2>2, <2>3, <2>4
  <2>6. CASE failing' = TRUE
    BY <2>1, <2>6, TestedElsewhere
  <2>7. CASE point = "succeeded"
    BY <2>1, <2>2, <2>5, <2>7 DEF TestedInv
  <2> QED
    BY <2>1, <2>6, <2>7
<1>10. CASE Post \/ EndRelease \/ AgentDies
  <2>1. stage' = "idle"
    BY <1>10 DEF Post, EndRelease, AgentDies, GoTo
  <2> QED
    BY <2>1, TestedElsewhere
<1>11. CASE BaseNext /\ UNCHANGED <<runner_vars, job_vars>>
  BY <1>11, TestedKeeps DEF job_vars, stage_vars, runner_vars, JobInv
<1> QED
  BY <1>1, <1>2, <1>3, <1>4, <1>5, <1>6, <1>7, <1>8, <1>9, <1>10, <1>11 DEF Next

\* The invariant of jobs holds at first,
LEMMA InitJobInv == Init => JobInv
<1> SUFFICES ASSUME Init PROVE JobInv
  OBVIOUS
<1>1. stage = "idle" /\ point = "off"
  BY DEF Init, JobInit, RunnerInit
<1>2. SessionInv /\ TestedInv
  BY <1>1 DEF SessionInv, TestedInv, Active
<1>3. StageInv
  BY InitStage
<1>4. RunnerInv /\ RegistryInv
  BY InitRunnerInv, InitRegistry DEF Init
<1>5. ProductInv /\ LintInv
  BY InitProduct, InitLint
<1> QED
  BY <1>2, <1>3, <1>4, <1>5 DEF JobInv

\* every step keeps it, since each part needs only the parts before it,
LEMMA NextJobInv == JobInv /\ [Next]_vars => JobInv'
<1> SUFFICES ASSUME JobInv, [Next]_vars PROVE JobInv'
  OBVIOUS
<1>1. StageInv /\ SessionInv /\ RunnerInv /\ RegistryInv /\ ProductInv /\ LintInv
  BY DEF JobInv
<1>2. StageInv'
  BY <1>1, StageNext
<1>3. SessionInv' /\ RunnerInv'
  BY <1>1, SessionNext
<1>4. RegistryInv'
  BY <1>1, RegistryNext
<1>5. ProductInv'
  BY <1>1, ProductNext
<1>6. LintInv'
  BY <1>1, LintNext
<1>7. TestedInv'
  BY TestedNext
<1> QED
  BY <1>2, <1>3, <1>4, <1>5, <1>6, <1>7 DEF JobInv

\* and it holds throughout.
LEMMA AlwaysJobInv == Spec => []JobInv
  BY InitJobInv, NextJobInv, PTL DEF Spec

\* Whatever the configurations, the operating systems and the order in which the parallel
\* jobs push their layers, an image that builds are made in holds what the layers of its own
\* configuration install (baseImageDockerfileGenerator.py).
THEOREM BaseImagesHoldTheirLayers == Spec => []BaseImagesAreTheirOwn
<1>1. JobInv => BaseImagesAreTheirOwn
  BY RegistryIsTheirOwn DEF JobInv
<1> QED
  BY <1>1, AlwaysJobInv, PTL

\* However many jobs run, fail or are cut off, a committed image was built to its end by
\* one job in the base image of its configuration (runDockerBuild.py,
\* runDockerBuildInnerBuild.py).
THEOREM CommittedImagesAreComplete == Spec => []ImagesAreComplete
<1>1. JobInv => ImagesAreComplete
  BY DEF JobInv, ProductInv, CommittedInv, ImagesAreComplete, Product
<1> QED
  BY <1>1, AlwaysJobInv, PTL

\* A job gets past its linters only with the logs of all four, its own and no earlier
\* job's; one that failed in them has its own of a first part of them, and the others may be
\* those of a job that was cut off (runDockerTestsInnerLint.py).
THEOREM LintersReport == Spec => []EveryLinterReports
<1>1. JobInv => EveryLinterReports
  BY LintsReport DEF JobInv
<1> QED
  BY <1>1, AlwaysJobInv, PTL

\* A job that built its image and ended in success ran every suite of that very image, none
\* failed and none left a complete error of a sanitizer, whatever was in the directories,
\* however many suites and logs there are (runDockerTests.py, the post section of the job).
THEOREM SuccessIsClean == Spec => []SuccessMeansClean
<1>1. JobInv => SuccessMeansClean
  BY TestedIsClean
<1> QED
  BY <1>1, AlwaysJobInv, PTL

\* The test runner, with the jobs that start it, stop it and collect its results, implements
\* the test session: what is reported of a suite it is done with is what the suite did.
THEOREM RunnerIsASession == Spec => RefinesTestSession
<1>1. Init => Session!Init
  BY InitIsInit DEF Init
<1>2. JobInv /\ [Next]_vars => [Session!Next]_(Session!vars)
  BY SessionNext DEF JobInv
<1> QED
  BY <1>1, <1>2, AlwaysJobInv, PTL DEF Spec, RefinesTestSession, Session!Spec
=================================================================================
