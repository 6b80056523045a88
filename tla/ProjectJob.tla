------------------------------ MODULE ProjectJob ------------------------------
(***************************************************************************)
(* The jobs that build and test the server: what Jenkins does              *)
(* (jenkins/bitxorcore/jenkins) with runDockerBuild.py, runDockerTests.py  *)
(* and the programs these start in containers.  A job lints, builds, has   *)
(* an image committed and pushed, runs the suites of the image, and ends   *)
(* by collecting the results and removing the output directories.          *)
(*                                                                         *)
(* One agent runs one job after the other in one workspace; a job may be   *)
(* cut off anywhere, and then leaves the workspace as it is.  The jobs     *)
(* that build the base images run at the same time on other agents.        *)
(* Every command a job starts may fail.                                    *)
(***************************************************************************)
EXTENDS TestRunner, BaseImages

\* The configurations of jenkins/bitxorcore/configurations: the address sanitizer comes
\* with the undefined behaviour sanitizer, and the thread sanitizer comes alone.
ASSUME SanitizersAssumption ==
    \A configuration \in Configurations :
        SanitizersOf(configuration) \in {{}, {"thread"}, {"address", "undefined"}}

\* What a job is started with.
JobKinds ==
    [os : OperatingSystems, configuration : Configurations, conan : BOOLEAN,
     disposition : {"tests", "private", "public", "none"}, label : STRING,
     mode : {"test", "bench", "none"}, publish : BOOLEAN]

ASSUME JobPlansAssumption == \A p \in Plans : p.jobs \in Seq(SUBSET JobKinds)

VARIABLES
    jobs,        \* the jobs started so far: operating system, configuration, conan,
                 \* disposition ("none" builds nothing), label ("" is the number of the
                 \* job), test mode and whether the image is pushed
    stage,       \* where the last of them stands, "idle" when it has ended
    failing,     \* whether a stage of it has failed
    base,        \* content of the image it builds in
    build_dir,   \* whether _build is in the source directory
    binaries,    \* parts in output/binaries: who built them, in what
    containers,  \* what the container of a cid file holds, by label
    images,      \* committed images, by repository and label
    mongo,       \* labels of the database directories
    lint_logs,   \* logs of the linters in the output directory, and the job that wrote them
    tested       \* content of the image whose suites were run

stage_vars == <<stage, failing>>
disk == <<base, build_dir, binaries, containers, images>>
job_vars == <<jobs, stage_vars, disk, mongo, lint_logs, tested>>
vars == <<runner_vars, base_vars, job_vars>>

number == Len(jobs)
job == jobs[number]
IsRelease(j) == j.disposition \in {"private", "public"}
Label(n) == IF jobs[n].label = "" THEN n ELSE jobs[n].label
IsCustom(j) == ~IsRelease(j) /\ j.label # ""

Repository == [tests |-> "bitxor-server-test", private |-> "bitxor-server-private",
               public |-> "bitxor-server", none |-> "bitxor-server-test"]
ImageName(n) == <<Repository[jobs[n].disposition], Label(n)>>

Parts(j) == IF IsRelease(j) THEN {"bin", "lib", "deps"} ELSE {"bin", "lib", "deps", "tests"}
AfterLinter == [shellcheck |-> "pylint", pylint |-> "pycodestyle", pycodestyle |-> "isort",
                isort |-> "output"]
Linters == DOMAIN AfterLinter

\* The logs when a linter has written its own over the one that was there.
OwnLog(scope) == {log \in lint_logs : log[1] # scope} \cup {<<scope, number>>}

\* The jobs that run the linters at all.
Lints(j) == ~IsRelease(j) /\ j.disposition # "none"

-----------------------------------------------------------------------------
\* The stage comes to an end, or one of its commands fails: a failed stage ends the job,
\* and the post section of the job, which the release job has not, is run all the same.
GoTo(next) == stage' = next /\ UNCHANGED failing
JobFails == failing' = TRUE /\ stage' = IF IsRelease(job) THEN "end" ELSE "post"

JobInit ==
    /\ jobs = <<>> /\ stage = "idle" /\ failing = FALSE
    /\ base = {} /\ build_dir = FALSE /\ binaries = {}
    /\ containers = NoEntries /\ images = NoEntries /\ mongo = {} /\ lint_logs = {} /\ tested = {}

AfterBuild(j) == IF j.mode = "none" THEN "post" ELSE "pull tests"

StartJob(j) ==
    /\ stage = "idle"
    /\ number < Len(plan.jobs) /\ j \in plan.jobs[number + 1]
    /\ jobs' = Append(jobs, j)
    /\ stage' = IF j.disposition = "none" THEN AfterBuild(j) ELSE "pull"
    /\ failing' = FALSE /\ tested' = {}
    /\ UNCHANGED <<disk, mongo, lint_logs, base_vars, runner_vars>>

\* A manager of a build with conan and sanitizers is refused as soon as it is made.
PullDependencies ==
    /\ stage = "pull"
    /\ LET name == build_base_image_name(job.os, job.configuration, job.conan)
       IN  \/ /\ job.configuration.sanitizers = <<>> \/ ~job.conan
              /\ name \in DOMAIN registry
              /\ base' = registry[name]
              /\ GoTo(IF IsRelease(job) THEN "output" ELSE "cpp linters")
           \/ JobFails /\ UNCHANGED base
    /\ UNCHANGED <<jobs, build_dir, binaries, containers, images, mongo,
                   lint_logs, tested, base_vars, runner_vars>>

\* The C++ linter exits with 0 whatever it finds, unless it stops half-way.
run_cpp_linters ==
    /\ stage = "cpp linters"
    /\ GoTo("shellcheck") \/ JobFails
    /\ UNCHANGED <<jobs, disk, mongo, lint_logs, tested, base_vars, runner_vars>>

\* Mutation: a linter that cannot be run is passed over like one that found something.
LinterRun_PassedOver(scope) ==
    /\ stage = scope
    /\ lint_logs' \in {lint_logs, OwnLog(scope)}
    /\ GoTo(AfterLinter[scope])
    /\ UNCHANGED <<jobs, disk, mongo, tested, base_vars, runner_vars>>

\* LinterRunner.run, with the rewriting of its log: what a linter found is written to its
\* log and printed, no more.  The linter may not be there, its output or its log may not be
\* text, and its container may die: the linters end with its log written or not.
LinterRun(scope) ==
    /\ stage = scope
    /\ \/ lint_logs' = OwnLog(scope) /\ GoTo(AfterLinter[scope])
       \/ lint_logs' \in {lint_logs, OwnLog(scope)} /\ JobFails
    /\ UNCHANGED <<jobs, disk, mongo, tested, base_vars, runner_vars>>

\* runDockerBuild: the output directory is removed and made anew.
PrepareOutput ==
    /\ stage = "output"
    /\ \/ binaries' = {} /\ GoTo("directory")
       \/ binaries' \in {{}, binaries} /\ JobFails
    /\ UNCHANGED <<jobs, base, build_dir, containers, images, mongo, lint_logs,
                   tested, base_vars, runner_vars>>

\* The build directory of a coverage build is in the source directory, which stays; it
\* must not be there.  Other builds have theirs in the container.
_prepare_directory ==
    /\ stage = "directory"
    /\ IF job.configuration.enable_code_coverage
       THEN /\ build_dir' = TRUE
            /\ IF build_dir THEN JobFails ELSE GoTo("build")
       ELSE GoTo("build") /\ UNCHANGED build_dir
    /\ UNCHANGED <<jobs, base, binaries, containers, images, mongo, lint_logs,
                   tested, base_vars, runner_vars>>

\* Mutation: nobody looks at what the build container exits with.
BuildFails_Ignored == GoTo("image")

\* The build container fails, and with it runDockerBuild.
BuildFails == JobFails

\* conan, cmake, ninja and ninja install, then the copying of the dependencies and of
\* the suites: each adds its parts, or fails with some of them in place.
BuildStep ==
    /\ stage = "build"
    /\ \E parts \in {{"bin", "lib"}, {"deps"}, {"tests"}} :
         /\ parts \subseteq Parts(job)
         /\ "deps" \in parts => {"bin", "lib"} \subseteq {b.part : b \in binaries}
         /\ "tests" \in parts => "deps" \in {b.part : b \in binaries}
         /\ parts \cap {b.part : b \in binaries} = {}
         /\ \E made \in SUBSET parts :
              /\ binaries' = binaries \cup
                   {[part |-> p, by |-> number, from |-> base] : p \in made}
              /\ IF made # parts THEN BuildFails
                 ELSE GoTo(IF {b.part : b \in binaries'} = Parts(job) THEN "image" ELSE "build")
    /\ UNCHANGED <<jobs, base, build_dir, containers, images, mongo, lint_logs,
                   tested, base_vars, runner_vars>>

\* docker run with runDockerBuildInnerPrepare: a cid file of the label is removed first,
\* since docker refuses one that exists; the container stays when the program fails.
PrepareContainer ==
    /\ stage = "image"
    /\ \E copied \in SUBSET {b \in binaries : b.part \in Parts(job)} :
         /\ containers' = Store(containers, Label(number), copied)
         /\ \/ copied = {b \in binaries : b.part \in Parts(job)} /\ GoTo("commit")
            \/ JobFails
    /\ UNCHANGED <<jobs, base, build_dir, binaries, images, mongo, lint_logs,
                   tested, base_vars, runner_vars>>

\* docker commit of the container the cid file names.
Commit ==
    /\ stage = "commit"
    /\ \/ images' = Store(images, ImageName(number), containers[Label(number)]) /\ GoTo("push")
       \/ JobFails /\ UNCHANGED images
    /\ UNCHANGED <<jobs, base, build_dir, binaries, containers, mongo, lint_logs,
                   tested, base_vars, runner_vars>>

PushImage ==
    /\ stage = "push"
    /\ \/ /\ registry' = IF job.publish THEN Store(registry, ImageName(number), images[ImageName(number)])
                         ELSE registry
          /\ GoTo(IF IsRelease(job) THEN "end" ELSE AfterBuild(job))
       \/ job.publish /\ JobFails /\ UNCHANGED registry
    /\ UNCHANGED <<jobs, disk, mongo, lint_logs, tested, plan, layers_left, runner_vars>>

\* runDockerTests: the image of a label that was given comes from the registry, another
\* is the one committed here; the database directory of the label must not be there.
RunDockerTests ==
    /\ stage = "pull tests"
    /\ LET from == IF IsCustom(job) THEN registry ELSE images
       IN  \/ /\ job.mode = "test" => Label(number) \notin mongo
              /\ ImageName(number) \in DOMAIN from
              /\ tested' = from[ImageName(number)]
              /\ mongo' = IF job.mode = "test" THEN mongo \cup {Label(number)} ELSE mongo
              /\ IF job.mode = "test"
                 THEN GoTo("test") /\ StartRunner(SanitizersOf(job.configuration))
                 ELSE GoTo("bench") /\ UNCHANGED runner_vars
           \/ JobFails /\ UNCHANGED <<tested, mongo, runner_vars>>
    /\ UNCHANGED <<jobs, disk, lint_logs, base_vars>>

\* runDockerTestsInnerBench: a benchmark that fails ends the run.
RunBench ==
    /\ stage = "bench"
    /\ GoTo("post") \/ JobFails
    /\ UNCHANGED <<jobs, disk, mongo, lint_logs, tested, base_vars, runner_vars>>

RunnerStep ==
    /\ stage = "test"
    /\ RunnerNext
    /\ UNCHANGED <<base_vars, job_vars>>

\* Another container of the composition ends, and the runner is stopped.
ContainerAborted ==
    /\ stage = "test" /\ point \in Active
    /\ point' = "failed"
    /\ UNCHANGED <<sanitizers, working, files, did, base_vars, job_vars>>

\* A coverage build has its coverage measured after the suites, which may fail.
TestsEnd ==
    /\ stage = "test" /\ point \in {"succeeded", "failed"}
    /\ \/ point = "succeeded" /\ GoTo("post")
       \/ (point = "failed" \/ job.configuration.enable_code_coverage) /\ JobFails
    /\ UNCHANGED <<jobs, disk, mongo, lint_logs, tested, base_vars, runner_vars>>

\* The results that were collected hold a failure.
ResultsFail == \E key \in DOMAIN san_results : san_results[key] # {}

\* What the job will have come to.
Result == IF failing THEN "failure" ELSE IF ResultsFail THEN "unstable" ELSE "success"

\* The post section: results are collected, output and database directories removed.
Post ==
    /\ stage = "post"
    /\ GoTo("idle")
    /\ prepared' = FALSE /\ cores' = {} /\ logs' = {} /\ core_results' = NoEntries /\ san_results' = NoEntries
    /\ mongo' = {} /\ lint_logs' = {}
    /\ point' = "off" /\ did' = NoEntries
    /\ UNCHANGED <<jobs, disk, tested, base_vars, sanitizers, working>>

EndRelease ==
    /\ stage = "end"
    /\ GoTo("idle")
    /\ UNCHANGED <<jobs, disk, mongo, lint_logs, tested, base_vars, runner_vars>>

\* The agent dies, and its containers with it; nothing is cleaned up.
AgentDies ==
    /\ stage # "idle"
    /\ GoTo("idle")
    /\ point' = IF point \in Active THEN "failed" ELSE point
    /\ UNCHANGED <<jobs, disk, mongo, lint_logs, tested, base_vars, sanitizers, working, files, did>>

-----------------------------------------------------------------------------
Init == RunnerInit /\ BaseInit /\ JobInit

Next ==
    \/ \E j \in UNION Range(plan.jobs) : StartJob(j)
    \/ PullDependencies \/ run_cpp_linters
    \/ \E scope \in Linters : LinterRun(scope)
    \/ PrepareOutput \/ _prepare_directory \/ BuildStep \/ PrepareContainer
    \/ Commit \/ PushImage \/ RunDockerTests \/ RunBench
    \/ RunnerStep \/ ContainerAborted \/ TestsEnd
    \/ Post \/ EndRelease \/ AgentDies
    \/ BaseNext /\ UNCHANGED <<runner_vars, job_vars>>

Spec == Init /\ [][Next]_vars

-----------------------------------------------------------------------------
\* An image that was committed was built to its end by one job, in the base image of the
\* configuration of that job, and is named after it: nothing of another build is in it,
\* whatever failed or was cut off before (runDockerBuild.py, main and
\* prepare_docker_image; runDockerBuildInnerBuild.py).
ImagesAreComplete ==
    \A name \in DOMAIN images :
        \E n \in DOMAIN jobs :
            /\ name = ImageName(n)
            /\ images[name] =
                 [part : Parts(jobs[n]), by : {n},
                  from : {Contents(jobs[n].configuration, jobs[n].conan)}]

\* A job that built its image, ran the suites and ended in success ran every suite of
\* that very image; none failed and none left a complete sanitizer error, those that exit
\* with 0 after one included (the results are collected where the runner wrote them).  A
\* suite that exits with 0 and whose log is cut off within its first error passes for clean.
SuccessMeansClean ==
    stage = "post" /\ Result = "success" /\ job.mode = "test"
    /\ job.disposition # "none" /\ ~IsCustom(job) =>
        /\ tested = images[ImageName(number)] /\ \A b \in tested : b.by = number
        /\ DOMAIN did = Suites
        /\ \A s \in Suites : ~did[s].failed /\ Errors(did[s]) = {}

\* A job gets past its linters only with the logs of all four, its own and no earlier
\* job's, whatever each of them found; and one that ended on its way through them, a linter
\* or its container having failed, has its own logs of a first part of them: where a log is
\* its own, so are those of the linters before.  The others may be those of a job that was
\* cut off (runDockerTestsInnerLint.py, LinterRunner.run, run_python_linters and main).
EveryLinterReports ==
    stage \notin {"idle", "pull", "cpp linters", "end"} /\ Lints(job) =>
        /\ stage \notin Linters \cup {"post"} \/ (stage = "post" /\ ~failing) =>
             lint_logs = Linters \X {number}
        /\ \A scope \in Linters \ {"isort"} :
             <<AfterLinter[scope], number>> \in lint_logs => <<scope, number>> \in lint_logs
=============================================================================
