------------------------------ MODULE TestRunner ------------------------------
(***************************************************************************)
(* The runner of the test suites                                           *)
(* (jenkins/bitxorcore/runDockerTestsInnerTest.py).  It runs every suite   *)
(* of the image, has the debugger print the core files of a suite that     *)
(* failed, turns the logs of the sanitizers into results, and exits with   *)
(* the number of suites that failed.                                       *)
(*                                                                         *)
(* The suites and the debugger are other programs: what they come to is    *)
(* free.  The working directory and the results lie on the host and        *)
(* outlive the runner.                                                     *)
(***************************************************************************)
EXTENDS SanParser, FiniteSets, Tables

CONSTANTS
    Suites,     \* the executables `tests*' of the image
    NoSuite,
    Outcomes,   \* what running a suite may come to: whether it failed, whether it
                \* crashed, and the logs its processes leave behind
    ExitCodes   \* 256, the exit codes of a process

ASSUME SuitesAssumption ==
    /\ IsFiniteSet(Suites) /\ NoSuite \notin Suites
    /\ Cardinality(Suites) < ExitCodes /\ ExitCodes \in Nat

\* A crashed suite has failed.
ASSUME OutcomesAssumption ==
    /\ Outcomes \subseteq [failed : BOOLEAN, crashed : BOOLEAN,
                           logs : SUBSET [errors : Seq(STRING), ends : STRING]]
    /\ \A o \in Outcomes : o.crashed => o.failed

VARIABLES
    point,               \* where the runner stands, or how it ended
    sanitizers,          \* those of the compiler configuration
    prepared,            \* whether seed, resources or tests/int/stress are in the output directory
    left,                \* suites not run yet
    suite,               \* test_exe_filepath, the suite being dealt with
    paths,          \* core files the loop has not reached
    counter,             \* number of the next results file
    failed_test_suites,
    cores,               \* core files in the working directory, by the suite that dumped them
    logs,                \* logs in the working directory
    core_results,        \* the suites with a core.xml, and whose core it shows
    san_results,         \* the sanitizer results: suite, kind and number to errors
    did                  \* history: what each suite of this run did

working == <<left, suite, paths, counter, failed_test_suites>>
files == <<prepared, cores, logs, core_results, san_results>>
runner_vars == <<point, sanitizers, working, files, did>>

Active == {"prepare", "suites", "cores", "tsanlog", "ubsanlog"}
Points == Active \cup {"off", "succeeded", "failed"}

-----------------------------------------------------------------------------
\* Where the runtimes write: the options of the undefined behaviour sanitizer are read
\* after those of the address sanitizer, and both have one log.
LogKind ==
    IF "thread" \in sanitizers THEN "tsanlog"
    ELSE IF "undefined" \in sanitizers THEN "ubsanlog" ELSE "asanlog"

LogPaths(kind, present) == {f \in present : f.kind = kind}

LogsOf(outcome) == IF sanitizers = {} THEN {} ELSE outcome.logs

RunnerInit ==
    /\ point = "off" /\ sanitizers = {} /\ prepared = FALSE
    /\ left = {} /\ suite = NoSuite /\ paths = {} /\ counter = 1
    /\ failed_test_suites = {}
    /\ cores = {} /\ logs = {} /\ core_results = NoEntries /\ san_results = NoEntries
    /\ did = NoEntries

\* The container starts the runner; what earlier runs left in the directories stays.
StartRunner(configured) ==
    /\ point \notin Active
    /\ point' = "prepare" /\ sanitizers' = configured
    /\ left' = {} /\ suite' = NoSuite /\ paths' = {} /\ counter' = 1
    /\ failed_test_suites' = {} /\ did' = NoEntries
    /\ UNCHANGED files

\* copytree and mkdirs refuse a destination that exists, and may fail half-way.
prepare_tests ==
    /\ point = "prepare"
    /\ prepared' = TRUE
    /\ \/ prepared = FALSE /\ point' = "suites" /\ left' = Suites
       \/ point' = "failed" /\ UNCHANGED left
    /\ UNCHANGED <<sanitizers, suite, paths, counter, failed_test_suites,
                   cores, logs, core_results, san_results, did>>

dispatch_test_subprocess(s) ==
    /\ point = "suites" /\ s \in left
    /\ suite' = s /\ left' = left \ {s} /\ counter' = 1
    /\ \E outcome \in Outcomes :
         /\ did' = Store(did, s, [outcome EXCEPT !.logs = LogsOf(outcome)])
         /\ cores' = cores \cup (IF outcome.crashed THEN {s} ELSE {})
         /\ logs' = logs \cup {[kind |-> LogKind, log |-> log] : log \in LogsOf(outcome)}
         /\ point' = IF outcome.failed THEN "cores" ELSE "tsanlog"
         /\ paths' = IF outcome.failed THEN cores' ELSE LogPaths("tsanlog", logs')
    /\ UNCHANGED <<sanitizers, failed_test_suites, prepared, core_results, san_results>>

\* One core file: the debugger prints it, or fails and ends the runner.  The files stay,
\* and the results of one core replace those of the core before.
handle_core_file(c) ==
    /\ point = "cores" /\ c \in paths
    /\ \/ core_results' = Store(core_results, suite, c)
          /\ paths' = paths \ {c} /\ UNCHANGED point
       \/ point' = "failed" /\ UNCHANGED <<core_results, paths>>
    /\ UNCHANGED <<sanitizers, left, suite, counter, failed_test_suites,
                   prepared, cores, logs, san_results, did>>

SuiteFailed ==
    /\ point = "cores" /\ paths = {}
    /\ failed_test_suites' = failed_test_suites \cup {suite}
    /\ point' = "tsanlog" /\ paths' = LogPaths("tsanlog", logs)
    /\ UNCHANGED <<sanitizers, left, suite, counter, files, did>>

\* Mutation: the log is not removed.
process_sanitizer_log_Kept(f) ==
    /\ point = f.kind /\ f \in paths
    /\ LET p == parse_san_log(ParserOf[f.kind], Lines(ParserOf[f.kind], f.log))
       IN  IF p.invalid
           THEN point' = "failed" /\ UNCHANGED <<paths, san_results, counter>>
           ELSE /\ san_results' = Store(san_results, <<suite, f.kind, counter>>, Range(p.parsed))
                /\ paths' = paths \ {f}
                /\ counter' = counter + 1 /\ UNCHANGED point
    /\ UNCHANGED <<sanitizers, left, suite, failed_test_suites,
                   prepared, cores, logs, core_results, did>>

\* One log: its errors become a results file of the suite, and the log is removed.  A
\* line the parser does not expect ends the runner before either.
process_sanitizer_log(f) ==
    /\ point = f.kind /\ f \in paths
    /\ LET p == parse_san_log(ParserOf[f.kind], Lines(ParserOf[f.kind], f.log))
       IN  IF p.invalid
           THEN point' = "failed" /\ UNCHANGED <<paths, logs, san_results, counter>>
           ELSE /\ san_results' = Store(san_results, <<suite, f.kind, counter>>, Range(p.parsed))
                /\ paths' = paths \ {f} /\ logs' = logs \ {f}
                /\ counter' = counter + 1 /\ UNCHANGED point
    /\ UNCHANGED <<sanitizers, left, suite, failed_test_suites,
                   prepared, cores, core_results, did>>

\* Mutation: the logs of the other sanitizers are not looked at.
LogsDone_ThreadOnly ==
    /\ point \in {"tsanlog", "ubsanlog"} /\ paths = {}
    /\ counter' = 1
    /\ point' = "suites" /\ suite' = NoSuite
    /\ UNCHANGED <<sanitizers, left, paths, failed_test_suites, files, did>>

\* No log of the kind is left: on to the next kind, or to the next suite.
LogsDone ==
    /\ point \in {"tsanlog", "ubsanlog"} /\ paths = {}
    /\ counter' = 1
    /\ IF point = "tsanlog"
       THEN point' = "ubsanlog" /\ paths' = LogPaths("ubsanlog", logs) /\ UNCHANGED suite
       ELSE point' = "suites" /\ suite' = NoSuite /\ UNCHANGED paths
    /\ UNCHANGED <<sanitizers, left, failed_test_suites, files, did>>

ExitRunner ==
    /\ point = "suites" /\ left = {}
    /\ point' = IF Cardinality(failed_test_suites) % ExitCodes = 0
                THEN "succeeded" ELSE "failed"
    /\ UNCHANGED <<sanitizers, working, files, did>>

RunnerNext ==
    \/ prepare_tests \/ SuiteFailed \/ LogsDone \/ ExitRunner
    \/ \E s \in Suites : dispatch_test_subprocess(s)
    \/ \E c \in cores : handle_core_file(c)
    \/ \E f \in logs : process_sanitizer_log(f)

-----------------------------------------------------------------------------
(* What is reported of a suite, and the session it amounts to.             *)

Errors(outcome) == UNION {Entries(ParserOf[LogKind], log) : log \in outcome.logs}

Reported(s) == UNION {san_results[key] : key \in {k \in DOMAIN san_results : k[1] = s}}

Judged == DOMAIN did \ {suite}

Truth == [s \in DOMAIN did |->
             [failed |-> did[s].failed, crashed |-> did[s].crashed, errors |-> Errors(did[s])]]

Verdict == [s \in Judged |->
               [failed |-> s \in failed_test_suites, crashed |-> s \in DOMAIN core_results,
                errors |-> Reported(s)]]

Status ==
    CASE point = "off" -> "none"
      [] point \in Active -> "running"
      [] point = "succeeded" -> "green"
      [] OTHER -> "red"

AllErrors == UNION {Entries(mode, log) :
                       mode \in {"tsan", "asan"}, log \in UNION {o.logs : o \in Outcomes}}

Session == INSTANCE TestSession WITH
    Outcomes <- [failed : BOOLEAN, crashed : BOOLEAN, errors : SUBSET AllErrors],
    status <- Status, did <- Truth, verdict <- Verdict

\* The runner is a test session: what its results say of a suite it is done with is what
\* that suite did, its complete sanitizer errors and no other suite's, a crash where it
\* crashed and none where it passed; and it exits with 0 only when it is done with every
\* suite and none failed (main, process_sanitizer_logs, parse_san_log).
RefinesTestSession == Session!Spec
=============================================================================
