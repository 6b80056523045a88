----------------------------- MODULE MCProjectJob -----------------------------
(***************************************************************************)
(* Small instances of the jobs, one plan for each question: base image     *)
(* jobs that run in parallel, what becomes of the results of two suites,   *)
(* and jobs one after the other in one workspace.                          *)
(***************************************************************************)
EXTENDS ProjectJob

Configuration(name, version, sanitizer_list, arch, coverage) ==
    [compiler |-> <<name, version>>, sanitizers |-> sanitizer_list, architecture |-> arch,
     enable_code_coverage |-> coverage]

gcc10 == Configuration("gcc", 10, <<>>, "skylake", FALSE)
gcc10westmere == Configuration("gcc", 10, <<>>, "westmere", FALSE)
gcc10coverage == Configuration("gcc", 10, <<>>, "skylake", TRUE)
clang12 == Configuration("clang", 12, <<>>, "skylake", FALSE)
clangausan == Configuration("clang", 12, <<"address", "undefined">>, "skylake", FALSE)
clangtsan == Configuration("clang", 12, <<"thread">>, "skylake", FALSE)

MCConfigurations == {gcc10, gcc10westmere, gcc10coverage, clang12, clangausan, clangtsan}

Kind(configuration, conan, disposition, label, mode, publish) ==
    [os |-> "ubuntu", configuration |-> configuration, conan |-> conan,
     disposition |-> disposition, label |-> label, mode |-> mode, publish |-> publish]

Base(configuration, conan) == [os |-> "ubuntu", configuration |-> configuration, conan |-> conan]
Pushed == {Base(c, FALSE) : c \in MCConfigurations} \cup {Base(gcc10, TRUE)}

Build(configuration, conan) == Kind(configuration, conan, "tests", "", "none", FALSE)
Test(configuration, label) == Kind(configuration, FALSE, "tests", label, "test", FALSE)
Release(disposition) == Kind(gcc10, FALSE, disposition, "hash", "none", TRUE)

MCPlans ==
    {[base |-> {Base(gcc10, TRUE), Base(gcc10westmere, TRUE)}, pushed |-> {},
      jobs |-> <<{Build(gcc10westmere, FALSE), Build(gcc10, TRUE)}>>],
     [base |-> {Base(clang12, FALSE), Base(clangausan, FALSE)}, pushed |-> {},
      jobs |-> <<{Build(clangausan, FALSE), Build(clangausan, TRUE)}>>],
     [base |-> {}, pushed |-> Pushed, jobs |-> <<{Test(clangausan, ""), Test(clangtsan, "")}>>],
     [base |-> {}, pushed |-> Pushed, jobs |-> <<{Test(clangtsan, "")}, {Test(clangausan, "")}>>],
     [base |-> {}, pushed |-> Pushed, jobs |-> <<{Test(gcc10coverage, "")}, {Test(gcc10coverage, "")}>>],
     [base |-> {}, pushed |-> Pushed, jobs |-> <<{Release("private"), Release("public")}, {Release("private")}>>],
     [base |-> {}, pushed |-> Pushed,
      jobs |-> <<{Kind(gcc10, FALSE, "tests", "mine", "bench", TRUE)},
                 {Test(gcc10, "mine"), Kind(gcc10, FALSE, "none", "mine", "test", FALSE)}>>]}

Log(errors, ends) == [errors |-> errors, ends |-> ends]
Outcome(failed, crashed, log_set) == [failed |-> failed, crashed |-> crashed, logs |-> log_set]

MCOutcomes ==
    {Outcome(FALSE, FALSE, {}), Outcome(TRUE, FALSE, {}), Outcome(TRUE, TRUE, {}),
     Outcome(FALSE, FALSE, {Log(<<"race">>, "end")}),
     Outcome(TRUE, FALSE, {Log(<<"race", "leak">>, "end"), Log(<<"leak">>, "cut")}),
     Outcome(TRUE, TRUE, {Log(<<"leak">>, "garbled")})}
=============================================================================
