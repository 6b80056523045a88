------------------------------ MODULE SanParser ------------------------------
(***************************************************************************)
(* The parser of sanitizer logs (jenkins/bitxorcore/sanParser.py): a state *)
(* machine that is pushed one line after the other and collects the errors *)
(* whose end it has seen.  It is written here as a function of the number *)
(* of lines pushed.                                                        *)
(*                                                                         *)
(* A line is what the parser looks for in it and the error it is about.    *)
(* The logs are written by the sanitizer runtimes: Lines is their format.  *)
(***************************************************************************)
EXTENDS Naturals, Sequences, Functions

CONSTANT
    Nameless   \* the errors whose line the pattern of the names does not match: it wants an
               \* address after an error of undefined behaviour, a path after a data race

\* The log files that are read, and the parser that reads them.
ParserOf == [tsanlog |-> "tsan", ubsanlog |-> "asan"]

\* An error of the results: its header, the line its name was taken from, its trace.
NoLine == [is |-> "nothing", of |-> "nothing"]
NewError == [header |-> NoLine, name |-> NoLine, trace |-> <<>>]

NewParser == [state |-> "START_MARKER", error |-> NewError, parsed |-> <<>>, invalid |-> FALSE]

\* SanError.parse: every line parsed is the header, the name is taken where the pattern
\* matches.  An error it matches nowhere keeps the name it is made with ("Invalid name").
Headed(error, line, names) ==
    [error EXCEPT !.header = line,
                  !.name = IF line.is \in names /\ line.of \notin Nameless THEN line ELSE @]

\* The lines of an error up to its summary, which becomes its header.
parse_details(p, line, names, end_state) ==
    IF line.is = "SUMMARY"
    THEN [p EXCEPT !.state = end_state,
                   !.error = Headed(p.error, line, names),
                   !.parsed = Append(@, Headed(p.error, line, names))]
    ELSE [p EXCEPT !.error.trace = Append(@, line)]

AsanPush(p, line) ==
    CASE p.state = "CONTENTS" ->
           parse_details(p, line, {"==ERROR:", "runtime error:"}, "START_MARKER")
      [] p.state = "START_MARKER" /\ line.is \in {"==ERROR:", "runtime error:"} ->
           [p EXCEPT !.state = "CONTENTS", !.error = Headed(NewError, line, {line.is})]
      [] OTHER -> p

\* A line that must follow: the parser ends the program when it does not.
create_checker(p, line, expected_beginning, next_state) ==
    IF line.is = expected_beginning THEN [p EXCEPT !.state = next_state]
    ELSE [p EXCEPT !.invalid = TRUE]

TsanPush(p, line) ==
    CASE p.state = "START_MARKER" /\ line.is = "marker" ->
           [p EXCEPT !.state = "WARNING", !.error = NewError]
      [] p.state = "WARNING" -> create_checker(p, line, "WARNING: ", "DETAILS")
      [] p.state = "DETAILS" -> parse_details(p, line, {"SUMMARY"}, "END_MARKER")
      [] p.state = "END_MARKER" -> create_checker(p, line, "marker", "START_MARKER")
      [] OTHER -> p

push(mode, p, line) ==
    IF p.invalid THEN p ELSE IF mode = "asan" THEN AsanPush(p, line) ELSE TsanPush(p, line)

\* The parser after each of the lines.
Parser(mode, lines) ==
    LET parser[i \in 0..Len(lines)] ==
            IF i = 0 THEN NewParser ELSE push(mode, parser[i - 1], lines[i])
    IN  parser

\* The errors of a log; `invalid' says that the program ended instead.
parse_san_log(mode, lines) == Parser(mode, lines)[Len(lines)]

-----------------------------------------------------------------------------
(* The sanitizer runtimes: a log is a sequence of errors, and how it ends. *)

Opening(mode, error) ==
    IF mode = "tsan"
    THEN <<[is |-> "marker", of |-> error], [is |-> "WARNING: ", of |-> error]>>
    ELSE <<[is |-> "runtime error:", of |-> error]>>

Details(error) == <<[is |-> "frame", of |-> error]>>

Closing(mode, error) ==
    <<[is |-> "SUMMARY", of |-> error]>> \o
        (IF mode = "tsan" THEN <<[is |-> "marker", of |-> error]>> ELSE <<>>)

\* What the process wrote last: an error it died in, or a line nobody expects.
Ending(mode, log) ==
    CASE log.ends = "cut"     -> Opening(mode, "unfinished") \o Details("unfinished")
      [] log.ends = "garbled" -> <<[is |-> "marker", of |-> "garbled"], [is |-> "frame", of |-> "garbled"]>>
      [] OTHER                -> <<>>

Block(mode, error) == Opening(mode, error) \o Details(error) \o Closing(mode, error)

\* The lines written once each of the errors was.
Written(mode, errors) ==
    LET written[i \in 0..Len(errors)] ==
            IF i = 0 THEN <<[is |-> "installed", of |-> "runtime"]>>
            ELSE written[i - 1] \o Block(mode, errors[i])
    IN  written

Lines(mode, log) == Written(mode, log.errors)[Len(log.errors)] \o Ending(mode, log)

\* The name in a line, if there is one.
NameIn(line) == IF line.of \in Nameless THEN NoLine ELSE line

\* What a complete error is to look like in the results.
Entry(mode, error) ==
    [header |-> Closing(mode, error)[1], trace |-> Details(error),
     name |-> NameIn(IF mode = "tsan" THEN Closing(mode, error)[1] ELSE Opening(mode, error)[1])]

\* The complete errors of a log.
Entries(mode, log) == {Entry(mode, log.errors[i]) : i \in DOMAIN log.errors}
=============================================================================
