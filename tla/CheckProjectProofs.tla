-------------------------- MODULE CheckProjectProofs --------------------------
(***************************************************************************)
(* Proofs about a run of the C++ linter, for all projects: what the        *)
(* validators carry from file to file, what is reported of the regions of  *)
(* a file, what the exit code tells, the order of the includes, and the    *)
(* namespaces that are found in a file.                                    *)
(***************************************************************************)
EXTENDS CheckProject, NamespaceProofs, FiniteSetTheorems

-----------------------------------------------------------------------------
(* The validators.                                                         *)

\* The fields that are set anew for each file, and those that are not.
FileFields ==
    {"carriageReturns", "testClass", "mismatched", "numOpen", "firstLine", "long", "pragma",
     "license", "comment", "emptyLine", "emptyError", "counter", "region", "topRegion",
     "regionErrors", "recent", "copyright", "last"}

RunFields == {"previous", "unclosed", "insertion", "parens", "angles", "ctorLine", "args"}

AllFields == FileFields \cup RunFields

\* Two validators that know the same of the file they read.
Agree(v, w) ==
    /\ DOMAIN v = AllFields /\ DOMAIN w = AllFields
    /\ \A field \in FileFields : v[field] = w[field]

LEMMA NewFields ==
  ASSUME NEW isHeader
  PROVE  DOMAIN PerFile(isHeader) = FileFields /\ DOMAIN PerRun = RunFields
  BY DEF PerFile, PerRun, FileFields, RunFields

LEMMA OverFields ==
  ASSUME NEW a, NEW b
  PROVE  /\ DOMAIN Over(a, b) = DOMAIN a \cup DOMAIN b
         /\ \A x \in DOMAIN a : Over(a, b)[x] = a[x]
  BY DEF Over

\* All validators have these fields.
LEMMA NewValidatorsFields == DOMAIN NewValidators = AllFields
  BY NewFields, OverFields DEF NewValidators, AllFields

\* After the reset they know the same, whatever they have read before.
LEMMA ResetAgrees ==
  ASSUME NEW v, NEW w, DOMAIN v = AllFields, DOMAIN w = AllFields, NEW isHeader
  PROVE  Agree(reset(v, isHeader), reset(w, isHeader))
<1> DEFINE new == PerFile(isHeader)
<1>1. DOMAIN new = FileFields
  BY NewFields
<1> HIDE DEF new
<1>2. reset(v, isHeader) = Over(new, v) /\ reset(w, isHeader) = Over(new, w)
  BY DEF reset, new
<1>3. FileFields \cup AllFields = AllFields
  BY DEF AllFields
<1>4. DOMAIN Over(new, v) = AllFields /\ DOMAIN Over(new, w) = AllFields
  BY <1>1, <1>3, OverFields
<1>5. \A x \in FileFields : Over(new, v)[x] = new[x] /\ Over(new, w)[x] = new[x]
  BY <1>1, OverFields
<1> QED
  BY <1>2, <1>4, <1>5 DEF Agree

-----------------------------------------------------------------------------
(* A line is read.                                                         *)

LEMMA TestClassAgrees ==
  ASSUME NEW v, NEW w, NEW n, NEW line, Agree(v, w)
  PROVE  Agree(TestClassStep(v, n, line), TestClassStep(w, n, line))
<1> SUFFICES ASSUME NEW field \in FileFields
             PROVE  TestClassStep(v, n, line)[field] = TestClassStep(w, n, line)[field]
  BY DEF Agree, TestClassStep
<1> QED
  BY DEF Agree, TestClassStep, FileFields, AllFields

LEMMA SingleLineAgrees ==
  ASSUME NEW v, NEW w, NEW n, NEW line, Agree(v, w)
  PROVE  Agree(SingleLineStep(v, n, line), SingleLineStep(w, n, line))
<1>1. v.numOpen = w.numOpen /\ v.long = w.long
  BY DEF Agree, FileFields
<1>2. OpenAfter(v, line) = OpenAfter(w, line)
  BY <1>1 DEF OpenAfter
<1>3. SUFFICES ASSUME NEW field \in FileFields
               PROVE  SingleLineStep(v, n, line)[field] = SingleLineStep(w, n, line)[field]
  BY DEF Agree, SingleLineStep
<1> QED
  BY <1>1, <1>2 DEF Agree, SingleLineStep, FileFields, AllFields

LEMMA PragmaAgrees ==
  ASSUME NEW v, NEW w, NEW n, NEW line, Agree(v, w)
  PROVE  Agree(PragmaOnceStep(v, n, line), PragmaOnceStep(w, n, line))
<1>1. /\ v.comment = w.comment /\ v.license = w.license /\ v.emptyError = w.emptyError
      /\ v.emptyLine = w.emptyLine /\ v.pragma = w.pragma
  BY DEF Agree, FileFields
<1> SUFFICES ASSUME NEW field \in FileFields
             PROVE  PragmaOnceStep(v, n, line)[field] = PragmaOnceStep(w, n, line)[field]
  BY DEF Agree, PragmaOnceStep
<1> DEFINE inside == IF Is(line, "starts /**") THEN 1 ELSE v.comment
<1>2. CASE inside = 1
  BY <1>1, <1>2 DEF Agree, PragmaOnceStep, FileFields, AllFields
<1>3. CASE inside # 1 /\ inside = 2
  BY <1>1, <1>3 DEF Agree, PragmaOnceStep, FileFields, AllFields
<1>4. CASE inside # 1 /\ inside # 2
  <2> DEFINE emptyError == IF ~(v.emptyError = "undecided") THEN v.emptyError
                           ELSE IF Is(line, "#include") /\ v.emptyLine > 0 THEN "yes"
                           ELSE IF Is(line, "#") THEN "no" ELSE v.emptyError
             emptyLine == IF v.pragma = "seen" /\ Is(line, "empty") THEN n ELSE v.emptyLine
             pragma == IF v.pragma # "unseen" THEN v.pragma
                       ELSE IF Is(line, "#pragma once") THEN "seen" ELSE "missing"
  <2>1. PragmaOnceStep(v, n, line)
          = [v EXCEPT !.emptyError = emptyError, !.emptyLine = emptyLine, !.pragma = pragma]
    BY <1>4 DEF PragmaOnceStep, Agree, FileFields, AllFields
  <2>2. PragmaOnceStep(w, n, line)
          = [w EXCEPT !.emptyError = emptyError, !.emptyLine = emptyLine, !.pragma = pragma]
    BY <1>1, <1>4 DEF PragmaOnceStep, Agree, FileFields, AllFields
  <2> HIDE DEF emptyError, emptyLine, pragma
  <2>3. DOMAIN v = AllFields /\ DOMAIN w = AllFields /\ field \in AllFields /\ v[field] = w[field]
    BY DEF Agree, AllFields
  <2>4. CASE field \in {"emptyError", "emptyLine", "pragma"}
    BY <2>1, <2>2, <2>3, <2>4
  <2>5. CASE field \notin {"emptyError", "emptyLine", "pragma"}
    BY <2>1, <2>2, <2>3, <2>5
  <2> QED
    BY <2>4, <2>5
<1> QED
  BY <1>2, <1>3, <1>4

LEMMA RegionAgrees ==
  ASSUME NEW v, NEW w, NEW n, NEW line, Agree(v, w)
  PROVE  Agree(RegionStep(v, n, line), RegionStep(w, n, line))
<1> SUFFICES ASSUME NEW field \in FileFields
             PROVE  RegionStep(v, n, line)[field] = RegionStep(w, n, line)[field]
  BY DEF Agree, RegionStep
<1> QED
  BY DEF Agree, RegionStep, FileFields, AllFields

LEMMA RecentAgrees ==
  ASSUME NEW v, NEW w, NEW n, NEW line, Agree(v, w)
  PROVE  Agree(RecentStep(v, n, line), RecentStep(w, n, line))
<1> SUFFICES ASSUME NEW field \in FileFields
             PROVE  RecentStep(v, n, line)[field] = RecentStep(w, n, line)[field]
  BY DEF Agree, RecentStep
<1> QED
  BY DEF Agree, RecentStep, FileFields, AllFields

\* What is known of the line before, of whatever file: after a line, that line.
LEMMA PreviousAgrees ==
  ASSUME NEW v, NEW w, NEW n, NEW line, Agree(v, w)
  PROVE  /\ Agree(PreviousLineStep(v, n, line), PreviousLineStep(w, n, line))
         /\ PreviousLineStep(v, n, line).previous = PreviousLineStep(w, n, line).previous
         /\ PreviousLineStep(v, n, line).unclosed = PreviousLineStep(w, n, line).unclosed
  BY DEF Agree, PreviousLineStep, FileFields, RunFields, AllFields

\* The last two leave all of this alone.
LEMMA ChainsKeep ==
  ASSUME NEW v, NEW n, NEW line, DOMAIN v = AllFields,
         NEW field \in FileFields \cup {"previous", "unclosed"}
  PROVE  /\ InsertionStep(v, n, line)[field] = v[field]
         /\ DOMAIN InsertionStep(v, n, line) = AllFields
         /\ ExplicitCtorStep(v, n, line)[field] = v[field]
         /\ DOMAIN ExplicitCtorStep(v, n, line) = AllFields
<1>1. field \notin {"insertion", "ctorLine", "parens", "angles", "args"} /\ field \in AllFields
  BY DEF FileFields, RunFields, AllFields
<1>2. InsertionStep(v, n, line)[field] = v[field] /\ DOMAIN InsertionStep(v, n, line) = AllFields
  BY <1>1 DEF InsertionStep
<1>3. ExplicitCtorStep(v, n, line)[field] = v[field]
  BY <1>1 DEF ExplicitCtorStep
<1>4. DOMAIN ExplicitCtorStep(v, n, line) = AllFields
  BY DEF ExplicitCtorStep
<1> QED
  BY <1>2, <1>3, <1>4

\* The validators of a run and new ones know the same of the file after each of its lines,
\* and after its first one the same of the line before.
LEMMA LinesAgree ==
  ASSUME NEW v, NEW w, NEW n, NEW line, Agree(v, w)
  PROVE  /\ Agree(ValidatorsStep(v, n, line), ValidatorsStep(w, n, line))
         /\ ValidatorsStep(v, n, line).previous = ValidatorsStep(w, n, line).previous
         /\ ValidatorsStep(v, n, line).unclosed = ValidatorsStep(w, n, line).unclosed
<1> DEFINE first(x) == SingleLineStep(TestClassStep(x, n, line), n, line)
           second(x) == RegionStep(PragmaOnceStep(first(x), n, line), n, line)
           third(x) == PreviousLineStep(RecentStep(second(x), n, line), n, line)
           fourth(x) == InsertionStep(third(x), n, line)
           fifth(x) == ExplicitCtorStep(fourth(x), n, line)
<1>1. Agree(first(v), first(w))
  BY TestClassAgrees, SingleLineAgrees
<1>2. Agree(second(v), second(w))
  <2> HIDE DEF first
  <2> QED
    BY <1>1, PragmaAgrees, RegionAgrees
<1>3. /\ Agree(third(v), third(w))
      /\ third(v).previous = third(w).previous /\ third(v).unclosed = third(w).unclosed
  <2> DEFINE a == RecentStep(second(v), n, line)
             b == RecentStep(second(w), n, line)
  <2>1. Agree(a, b)
    <3> HIDE DEF second
    <3> QED
      BY <1>2, RecentAgrees
  <2> HIDE DEF a, b
  <2>2. /\ Agree(PreviousLineStep(a, n, line), PreviousLineStep(b, n, line))
        /\ PreviousLineStep(a, n, line).previous = PreviousLineStep(b, n, line).previous
        /\ PreviousLineStep(a, n, line).unclosed = PreviousLineStep(b, n, line).unclosed
    BY <2>1, PreviousAgrees
  <2> QED
    BY <2>2 DEF a, b
<1> HIDE DEF first, second, third
<1>4. ASSUME NEW x \in {v, w}, NEW field \in FileFields \cup {"previous", "unclosed"}
      PROVE  fifth(x)[field] = third(x)[field] /\ DOMAIN fifth(x) = AllFields
  <2>1. DOMAIN third(x) = AllFields
    BY <1>3 DEF Agree
  <2>2. fourth(x)[field] = third(x)[field] /\ DOMAIN fourth(x) = AllFields
    BY <2>1, ChainsKeep
  <2> HIDE DEF fourth
  <2> QED
    BY <2>2, ChainsKeep
<1>5. ValidatorsStep(v, n, line) = fifth(v) /\ ValidatorsStep(w, n, line) = fifth(w)
  BY DEF ValidatorsStep, third, second, first
<1> HIDE DEF fourth, fifth
<1>6. Agree(fifth(v), fifth(w))
  <2>1. DOMAIN fifth(v) = AllFields /\ DOMAIN fifth(w) = AllFields
    BY <1>4
  <2>2. ASSUME NEW field \in FileFields
        PROVE  fifth(v)[field] = fifth(w)[field]
    BY <1>3, <1>4 DEF Agree
  <2> QED
    BY <2>1, <2>2 DEF Agree
<1>7. fifth(v).previous = fifth(w).previous /\ fifth(v).unclosed = fifth(w).unclosed
  BY <1>3, <1>4
<1> QED
  BY <1>5, <1>6, <1>7

-----------------------------------------------------------------------------
(* What is reported of a line.                                             *)

\* Reports name the validator they come from.
LEMMA Named ==
  ASSUME NEW condition, NEW group, NEW n, NEW r \in When(condition, group, n)
  PROVE  r.group = group
  BY DEF When

LEMMA InsertionNamed ==
  ASSUME NEW v, NEW n, NEW line, NEW r \in InsertionReports(v, n, line)
  PROVE  r.group = "insertionOperator"
  BY Named DEF InsertionReports

LEMMA ExplicitCtorNamed ==
  ASSUME NEW v, NEW n, NEW line, NEW r \in ExplicitCtorReports(v, n, line)
  PROVE  r.group = "explicitCtor"
  BY Named DEF ExplicitCtorReports

\* Validators that know the same report the same, but for the two that remember more.
LEMMA ReportsAgree ==
  ASSUME NEW v, NEW w, NEW n, NEW line, Agree(v, w),
         v.previous = w.previous, v.unclosed = w.unclosed,
         NEW r \in ValidatorReports(v, n, line), r \notin ValidatorReports(w, n, line)
  PROVE  r.group \in {"explicitCtor", "insertionOperator"}
<1>1. TestClassReports(v, n, line) = TestClassReports(w, n, line)
  BY DEF TestClassReports, Agree, FileFields
<1>2. SingleLineReports(v, n, line) = SingleLineReports(w, n, line)
  BY DEF SingleLineReports, OpenAfter, Agree, FileFields
<1>3. RegionReports(v, n, line) = RegionReports(w, n, line)
  BY DEF RegionReports
<1>4. v.recent = w.recent /\ v.copyright = w.copyright
  BY DEF Agree, FileFields
<1>5. ClosingBraceReports(v, n, line) = ClosingBraceReports(w, n, line)
  BY <1>4, Zenon DEF ClosingBraceReports
<1>6. NamespaceOpeningReports(v, n, line) = NamespaceOpeningReports(w, n, line)
  BY <1>4, Zenon DEF NamespaceOpeningReports
<1>7. CopyrightReports(v, n, line) = CopyrightReports(w, n, line)
  BY <1>4, Zenon DEF CopyrightReports
<1>8. PreviousLineReports(v, n, line) = PreviousLineReports(w, n, line)
  BY Zenon DEF PreviousLineReports
<1>9. r \in InsertionReports(v, n, line) \/ r \in ExplicitCtorReports(v, n, line)
  BY <1>1, <1>2, <1>3, <1>5, <1>6, <1>7, <1>8 DEF ValidatorReports
<1> QED
  BY <1>9, InsertionNamed, ExplicitCtorNamed

-----------------------------------------------------------------------------
(* Where a run stands.                                                     *)

Phases == {"walk", "lines", "tokens", "formatting", "namespaces", "templates", "dependencies",
           "done", "exited"}

\* A file that is being read is one of the project, and not to be ignored.
WalkInv ==
    /\ options \in AllOptions /\ project \in Projects
    /\ phase \in Phases /\ at \in 0 .. Len(project) /\ pos \in Nat
    /\ phase \in {"lines", "tokens"} => at > 0 /\ ~ Ignored(file) /\ pos <= Len(Lines)
    /\ phase \in {"formatting", "namespaces", "templates", "dependencies", "done"} =>
          at = Len(project) /\ project # <<>>

\* The files of a run and their lines are as the assumptions say.
LEMMA FileTypes ==
  ASSUME WalkInv, at > 0
  PROVE  /\ IsList(project) /\ at \in DOMAIN project /\ IsFile(file)
         /\ IsList(Lines) /\ \A n \in 1 .. Len(Lines) : IsLine(Lines[n])
<1>1. IsList(project) /\ \A i \in DOMAIN project : IsFile(project[i])
  BY ProjectsAssumption DEF WalkInv
<1>2. at \in DOMAIN project
  <2>1. Len(project) \in Nat /\ DOMAIN project = 1 .. Len(project)
    BY <1>1 DEF IsList
  <2>2. at \in 0 .. Len(project)
    BY DEF WalkInv
  <2> QED
    BY <2>1, <2>2
<1>3. IsFile(file)
  BY <1>1, <1>2 DEF file
<1> QED
  BY <1>1, <1>2, <1>3 DEF IsFile, IsList, Lines

LEMMA ProjectIsList ==
  ASSUME WalkInv
  PROVE  IsList(project) /\ Len(project) \in Nat
  BY ProjectsAssumption DEF WalkInv, IsList

LEMMA InitWalk ==
  ASSUME Init
  PROVE  WalkInv
<1>1. IsList(project)
  BY ProjectsAssumption DEF Init
<1> QED
  BY <1>1 DEF Init, WalkInv, Phases, IsList

\* Every action leaves it so.
LEMMA StepWalk ==
  ASSUME WalkInv, [Next]_vars
  PROVE  WalkInv'
<1>1. Len(project) \in Nat
  BY ProjectIsList
<1>2. ASSUME Abort PROVE WalkInv'
  BY <1>2 DEF Abort, WalkInv, Phases
<1>3. CASE NextFile
  <2>1. CASE Ignored(project[at + 1])
    BY <1>1, <1>3, <2>1 DEF NextFile, WalkInv, Phases
  <2>2. CASE ~ Ignored(project[at + 1])
    <3>1. at' = at + 1 /\ at' > 0 /\ at' \in 0 .. Len(project)
      BY <1>1, <1>3 DEF NextFile, WalkInv
    <3>2. phase' = "lines" /\ pos' = 0 /\ UNCHANGED <<options, project>>
      BY <1>3, <2>2 DEF NextFile
    <3>3. project' \in Projects /\ Len(project') \in Nat /\ at' \in DOMAIN project'
      BY <1>1, <3>1, <3>2, ProjectIsList DEF WalkInv, IsList
    <3>4. Len(Lines') \in Nat
      BY <3>3, ProjectsAssumption DEF Lines, file, IsFile, IsList
    <3>5. (~ Ignored(file))'
      BY <2>2, <3>1, <3>2 DEF Ignored, file
    <3> QED
      BY <3>1, <3>2, <3>4, <3>5 DEF WalkInv, Phases
  <2> QED
    BY <2>1, <2>2
<1>4. CASE ReadLine
  <2>1. Len(Lines) \in Nat
    BY <1>4, FileTypes DEF ReadLine, WalkInv, IsList
  <2>2. CASE Abort
    BY <1>2, <2>2
  <2>3. CASE ~ Abort
    <3>1. pos' = pos + 1 /\ UNCHANGED <<options, project, phase, at>> /\ pos < Len(Lines)
      BY <1>4, <2>3 DEF ReadLine
    <3> QED
      BY <2>1, <3>1 DEF WalkInv, Phases, Lines, file, Ignored
  <2> QED
    BY <2>2, <2>3
<1>5. CASE FileRead
  <2>1. CASE Abort
    BY <1>2, <2>1
  <2>2. CASE ~ Abort
    <3>1. phase = "lines" /\ phase' = "tokens" /\ pos' = 0 /\ UNCHANGED <<options, project, at>>
      BY <1>5, <2>2 DEF FileRead
    <3>2. Len(Lines) \in Nat
      BY <3>1, FileTypes DEF WalkInv, IsList
    <3> QED
      BY <3>1, <3>2 DEF WalkInv, Phases, Lines, file, Ignored
  <2> QED
    BY <2>1, <2>2
<1>6. CASE ParseLine
  <2>1. CASE Abort
    BY <1>2, <2>1
  <2>2. CASE ~ Abort
    <3>1. /\ phase = "tokens" /\ pos' = pos + 1 /\ pos < Len(Lines)
          /\ UNCHANGED <<options, project, phase, at>>
      BY <1>6, <2>2 DEF ParseLine
    <3>2. Len(Lines) \in Nat
      BY <3>1, FileTypes DEF WalkInv, IsList
    <3> QED
      BY <3>1, <3>2 DEF WalkInv, Phases, Lines, file, Ignored
  <2> QED
    BY <2>1, <2>2
<1>7. CASE FileParsed
  <2>1. CASE Abort
    BY <1>2, <2>1
  <2>2. CASE ~ Abort
    <3>1. phase' = "walk" /\ UNCHANGED <<options, project, at, pos>>
      BY <1>7, <2>2 DEF FileParsed
    <3> QED
      BY <3>1 DEF WalkInv, Phases
  <2> QED
    BY <2>1, <2>2
<1>8. CASE WalkDone
  <2>1. CASE Abort
    BY <1>2, <2>1
  <2>2. CASE ~ Abort
    <3>1. /\ phase' = "formatting" /\ at = Len(project) /\ project # <<>>
          /\ UNCHANGED <<options, project, at, pos>>
      BY <1>8, <2>2 DEF WalkDone
    <3> QED
      BY <3>1 DEF WalkInv, Phases
  <2> QED
    BY <2>1, <2>2
<1>9. CASE PrintFormatting \/ PrintNamespaces \/ PrintTemplateErrors \/ PrintDependencies
  BY <1>9 DEF PrintFormatting, PrintNamespaces, PrintTemplateErrors, PrintDependencies, Counted,
              WalkInv, Phases
<1>10. CASE Exit
  BY <1>10 DEF Exit, WalkInv, Phases
<1>11. CASE Exited \/ UNCHANGED vars
  <2>1. UNCHANGED <<options, project, phase, at, pos>>
    BY <1>11 DEF Exited, vars
  <2> QED
    BY <2>1 DEF WalkInv, Lines, file, Ignored
<1> QED
  BY <1>3, <1>4, <1>5, <1>6, <1>7, <1>8, <1>9, <1>10, <1>11 DEF Next

-----------------------------------------------------------------------------
(* What is carried from file to file.                                      *)

\* The validators of a run and those of the file know the same of the file, and after its
\* first line the same of the line before.
TwinInv ==
    /\ DOMAIN validators = AllFields
    /\ phase = "lines" =>
         /\ Agree(validators, twin)
         /\ pos > 0 => validators.previous = twin.previous /\ validators.unclosed = twin.unclosed

LEMMA InitTwin ==
  ASSUME Init
  PROVE  TwinInv /\ CarryOverReachesOneLine
  BY NewValidatorsFields DEF Init, TwinInv, CarryOverReachesOneLine

\* A line is read: all but two of the validators report what new ones would, unless it is
\* the first line of the file.
LEMMA ReadLineCarries ==
  ASSUME WalkInv, TwinInv, CarryOverReachesOneLine, ReadLine
  PROVE  TwinInv' /\ CarryOverReachesOneLine'
<1>1. CASE Abort
  BY <1>1 DEF Abort, scan, TwinInv, CarryOverReachesOneLine
<1>2. CASE ~ Abort
  <2> DEFINE n == pos + 1
             line == Lines[n]
             differing == (ValidatorReports(validators, n, line) \ ValidatorReports(twin, n, line))
                          \cup (ValidatorReports(twin, n, line) \ ValidatorReports(validators, n, line))
  <2>1. /\ phase = "lines" /\ phase' = phase /\ pos' = n
        /\ validators' = ValidatorsStep(validators, n, line)
        /\ twin' = ValidatorsStep(twin, n, line)
        /\ carried' = carried \cup {[group |-> r.group, at |-> n] : r \in differing}
    BY <1>2 DEF ReadLine
  <2>2. Agree(validators, twin) /\ n \in Nat /\ n > 0
    BY <2>1 DEF TwinInv, WalkInv
  <2>3. TwinInv'
    <3>1. /\ Agree(validators', twin')
          /\ validators'.previous = twin'.previous /\ validators'.unclosed = twin'.unclosed
      BY <2>1, <2>2, LinesAgree
    <3> QED
      BY <3>1 DEF TwinInv, Agree
  <2>4. ASSUME NEW r \in differing
        PROVE  n = 1 \/ r.group \in {"explicitCtor", "insertionOperator"}
    <3> SUFFICES ASSUME n # 1 PROVE r.group \in {"explicitCtor", "insertionOperator"}
      OBVIOUS
    <3>1. validators.previous = twin.previous /\ validators.unclosed = twin.unclosed
      BY <2>1 DEF TwinInv, WalkInv
    <3>2. Agree(twin, validators)
      BY <2>2 DEF Agree
    <3>3. \/ r \in ValidatorReports(validators, n, line) /\ r \notin ValidatorReports(twin, n, line)
          \/ r \in ValidatorReports(twin, n, line) /\ r \notin ValidatorReports(validators, n, line)
      OBVIOUS
    <3> QED
      BY <2>2, <3>1, <3>2, <3>3, ReportsAgree
  <2> HIDE DEF differing
  <2>5. CarryOverReachesOneLine'
    BY <2>1, <2>4 DEF CarryOverReachesOneLine
  <2> QED
    BY <2>3, <2>5
<1> QED
  BY <1>1, <1>2

LEMMA StepTwin ==
  ASSUME WalkInv, TwinInv, CarryOverReachesOneLine, [Next]_vars
  PROVE  TwinInv' /\ CarryOverReachesOneLine'
<1>1. ASSUME UNCHANGED scan, phase' # "lines" PROVE TwinInv' /\ CarryOverReachesOneLine'
  BY <1>1 DEF scan, TwinInv, CarryOverReachesOneLine
<1>2. ASSUME Abort PROVE TwinInv' /\ CarryOverReachesOneLine'
  BY <1>1, <1>2 DEF Abort
<1>3. CASE NextFile
  <2>1. CASE Ignored(project[at + 1])
    BY <1>1, <1>3, <2>1 DEF NextFile
  <2>2. CASE ~ Ignored(project[at + 1])
    <3>1. /\ validators' = reset(validators, project[at + 1].isHeader)
          /\ twin' = reset(NewValidators, project[at + 1].isHeader)
          /\ carried' = carried /\ pos' = 0
      BY <1>3, <2>2 DEF NextFile
    <3>2. Agree(validators', twin')
      BY <3>1, NewValidatorsFields, ResetAgrees DEF TwinInv
    <3> QED
      BY <3>1, <3>2 DEF TwinInv, CarryOverReachesOneLine, Agree
  <2> QED
    BY <2>1, <2>2
<1>4. CASE ReadLine
  BY <1>4, ReadLineCarries
<1>5. CASE FileRead
  BY <1>1, <1>2, <1>5 DEF FileRead
<1>6. CASE ParseLine
  BY <1>1, <1>2, <1>6 DEF ParseLine
<1>7. CASE FileParsed
  BY <1>1, <1>2, <1>7 DEF FileParsed
<1>8. CASE WalkDone
  BY <1>1, <1>2, <1>8 DEF WalkDone
<1>9. CASE PrintFormatting \/ PrintNamespaces \/ PrintTemplateErrors \/ PrintDependencies
  BY <1>1, <1>9 DEF PrintFormatting, PrintNamespaces, PrintTemplateErrors, PrintDependencies, Counted
<1>10. CASE Exit
  BY <1>1, <1>10 DEF Exit
<1>11. CASE Exited \/ UNCHANGED vars
  BY <1>11 DEF Exited, vars, TwinInv, CarryOverReachesOneLine
<1> QED
  BY <1>3, <1>4, <1>5, <1>6, <1>7, <1>8, <1>9, <1>10, <1>11 DEF Next

\* What the validators remember of earlier files changes the reports of the first line of a
\* file at most, for all but two of them (validation.py: the validators without a reset),
\* for files of every length and number.
THEOREM CarryOverEndsAfterOneLine == Spec => []CarryOverReachesOneLine
<1>1. Init => WalkInv /\ TwinInv /\ CarryOverReachesOneLine
  BY InitWalk, InitTwin
<1>2. WalkInv /\ TwinInv /\ CarryOverReachesOneLine /\ [Next]_vars
        => (WalkInv /\ TwinInv /\ CarryOverReachesOneLine)'
  BY StepWalk, StepTwin
<1> QED
  BY <1>1, <1>2, PTL DEF Spec

-----------------------------------------------------------------------------
(* The regions of a file.                                                  *)

\* How many lines have a mark, and how many regions are open after a line.
Marked(lines, n, mark) == Cardinality({i \in 1 .. n : Is(lines[i], mark)})

Depth(lines, n) == Marked(lines, n, "region") - Marked(lines, n, "endregion")

LEMMA MarksAreCounted ==
  ASSUME NEW lines, NEW n \in Nat, NEW mark
  PROVE  /\ Marked(lines, n, mark) \in Nat
         /\ Marked(lines, 0, mark) = 0
         /\ Marked(lines, n + 1, mark) = IF Is(lines[n + 1], mark) THEN Marked(lines, n, mark) + 1 ELSE Marked(lines, n, mark)
<1> DEFINE S(k) == {i \in 1 .. k : Is(lines[i], mark)}
<1>1. IsFiniteSet(S(n)) /\ Cardinality(S(n)) \in Nat
  <2>1. IsFiniteSet(1 .. n)
    BY FS_Interval
  <2> QED
    BY <2>1, FS_Subset, FS_CardinalityType
<1>2. Marked(lines, 0, mark) = 0
  <2>1. S(0) = {}
    OBVIOUS
  <2> QED
    BY <2>1, FS_EmptySet DEF Marked
<1>3. CASE Is(lines[n + 1], mark)
  <2>1. S(n + 1) = S(n) \cup {n + 1} /\ n + 1 \notin S(n)
    BY <1>3
  <2>2. Cardinality(S(n + 1)) = Cardinality(S(n)) + 1
    <3> HIDE DEF S
    <3> QED
      BY <1>1, <2>1, FS_AddElement
  <2> QED
    BY <1>1, <1>2, <1>3, <2>2 DEF Marked
<1>4. CASE ~ Is(lines[n + 1], mark)
  <2>1. S(n + 1) = S(n)
    BY <1>4
  <2> QED
    BY <1>1, <1>2, <1>4, <2>1 DEF Marked
<1> QED
  BY <1>3, <1>4

\* A line opens a region, closes one, or does neither.
LEMMA DepthSteps ==
  ASSUME NEW lines, NEW n \in Nat, IsLine(lines[n + 1])
  PROVE  /\ Depth(lines, n) \in Int /\ Depth(lines, 0) = 0
         /\ Depth(lines, n + 1) = IF Is(lines[n + 1], "region") THEN Depth(lines, n) + 1
                           ELSE IF Is(lines[n + 1], "endregion") THEN Depth(lines, n) - 1 ELSE Depth(lines, n)
<1>1. /\ Marked(lines, n, "region") \in Nat /\ Marked(lines, n, "endregion") \in Nat
      /\ Marked(lines, 0, "region") = 0 /\ Marked(lines, 0, "endregion") = 0
  BY MarksAreCounted
<1>2. Marked(lines, n + 1, "region")
        = IF Is(lines[n + 1], "region") THEN Marked(lines, n, "region") + 1 ELSE Marked(lines, n, "region")
  BY MarksAreCounted
<1>3. Marked(lines, n + 1, "endregion")
        = IF Is(lines[n + 1], "endregion") THEN Marked(lines, n, "endregion") + 1 ELSE Marked(lines, n, "endregion")
  BY MarksAreCounted
<1>4. ~ (Is(lines[n + 1], "region") /\ Is(lines[n + 1], "endregion"))
  <2> SUFFICES ASSUME Is(lines[n + 1], "region"), Is(lines[n + 1], "endregion") PROVE FALSE
    OBVIOUS
  <2> DEFINE both == {"region", "endregion"}
             some == lines[n + 1].marks \cap {"region", "endregion", "misspelt region"}
  <2>1. both \subseteq some
    BY DEF Is
  <2>2. IsFiniteSet({"region", "endregion", "misspelt region"})
    <3>1. IsFiniteSet({"region"})
      BY FS_Singleton
    <3>2. IsFiniteSet({"region"} \cup {"endregion"})
      BY <3>1, FS_AddElement
    <3>3. IsFiniteSet(({"region"} \cup {"endregion"}) \cup {"misspelt region"})
      BY <3>2, FS_AddElement
    <3>4. {"region", "endregion", "misspelt region"}
            = ({"region"} \cup {"endregion"}) \cup {"misspelt region"}
      OBVIOUS
    <3> QED
      BY <3>3, <3>4
  <2>3. IsFiniteSet(some)
    BY <2>2, FS_Subset
  <2>4. Cardinality(both) = 2
    <3>1. IsFiniteSet({"region"}) /\ Cardinality({"region"}) = 1
      BY FS_Singleton
    <3>2. both = {"region"} \cup {"endregion"} /\ "endregion" \notin {"region"}
      OBVIOUS
    <3> QED
      BY <3>1, <3>2, FS_AddElement
  <2>5. Cardinality(some) <= 1
    BY DEF IsLine
  <2> HIDE DEF both, some
  <2>6. Cardinality(both) <= Cardinality(some)
    BY <2>1, <2>3, FS_Subset
  <2>7. Cardinality(some) \in Nat
    BY <2>3, FS_CardinalityType
  <2> QED
    BY <2>4, <2>5, <2>6, <2>7
<1> QED
  BY <1>1, <1>2, <1>3, <1>4 DEF Depth

\* Of the validators, one counts the regions.
LEMMA OthersKeepRegions ==
  ASSUME NEW v, NEW n, NEW line, DOMAIN v = AllFields, NEW field \in {"counter", "regionErrors"}
  PROVE  /\ DOMAIN TestClassStep(v, n, line) = AllFields /\ TestClassStep(v, n, line)[field] = v[field]
         /\ DOMAIN SingleLineStep(v, n, line) = AllFields /\ SingleLineStep(v, n, line)[field] = v[field]
         /\ DOMAIN PragmaOnceStep(v, n, line) = AllFields /\ PragmaOnceStep(v, n, line)[field] = v[field]
         /\ DOMAIN RecentStep(v, n, line) = AllFields /\ RecentStep(v, n, line)[field] = v[field]
         /\ DOMAIN PreviousLineStep(v, n, line) = AllFields
         /\ PreviousLineStep(v, n, line)[field] = v[field]
<1>1. field \in AllFields
  BY DEF AllFields, FileFields
<1>2. DOMAIN TestClassStep(v, n, line) = AllFields /\ TestClassStep(v, n, line)[field] = v[field]
  BY <1>1 DEF TestClassStep
<1>3. DOMAIN SingleLineStep(v, n, line) = AllFields /\ SingleLineStep(v, n, line)[field] = v[field]
  BY <1>1 DEF SingleLineStep
<1>4. DOMAIN PragmaOnceStep(v, n, line) = AllFields /\ PragmaOnceStep(v, n, line)[field] = v[field]
  BY <1>1 DEF PragmaOnceStep
<1>5. DOMAIN RecentStep(v, n, line) = AllFields /\ RecentStep(v, n, line)[field] = v[field]
  BY <1>1 DEF RecentStep
<1>6. /\ DOMAIN PreviousLineStep(v, n, line) = AllFields
      /\ PreviousLineStep(v, n, line)[field] = v[field]
  BY <1>1 DEF PreviousLineStep
<1> QED
  BY <1>2, <1>3, <1>4, <1>5, <1>6

\* What a line makes of the count and of the errors.
CounterAfter(v, line) ==
    IF Is(line, "region") THEN v.counter + 1
    ELSE IF Is(line, "endregion") THEN v.counter - 1 ELSE v.counter

ErrorsAfter(v, n, line) ==
    IF \/ Is(line, "region") /\ v.counter > 0
       \/ ~ Is(line, "region") /\ Is(line, "endregion") /\ v.counter = 0
    THEN v.regionErrors \cup {n} ELSE v.regionErrors

LEMMA RegionsRead ==
  ASSUME NEW v, NEW n, NEW line, DOMAIN v = AllFields
  PROVE  /\ DOMAIN ValidatorsStep(v, n, line) = AllFields
         /\ ValidatorsStep(v, n, line).counter = CounterAfter(v, line)
         /\ ValidatorsStep(v, n, line).regionErrors = ErrorsAfter(v, n, line)
<1> DEFINE a == TestClassStep(v, n, line)
           b == SingleLineStep(a, n, line)
           c == PragmaOnceStep(b, n, line)
           d == RegionStep(c, n, line)
           e == RecentStep(d, n, line)
           f == PreviousLineStep(e, n, line)
           g == InsertionStep(f, n, line)
           Same(x, y) == DOMAIN y = AllFields /\ y.counter = x.counter /\ y.regionErrors = x.regionErrors
<1>1. Same(v, a)
  BY OthersKeepRegions
<1>2. Same(v, b)
  <2> HIDE DEF a
  <2> QED
    BY <1>1, OthersKeepRegions
<1>3. Same(v, c)
  <2> HIDE DEF b
  <2> QED
    BY <1>2, OthersKeepRegions
<1>4. DOMAIN d = AllFields /\ d.counter = CounterAfter(v, line) /\ d.regionErrors = ErrorsAfter(v, n, line)
  <2> HIDE DEF c
  <2> QED
    BY <1>3 DEF RegionStep, CounterAfter, ErrorsAfter, AllFields, FileFields
<1>5. Same(d, e)
  <2> HIDE DEF d
  <2> QED
    BY <1>4, OthersKeepRegions
<1>6. Same(d, f)
  <2> HIDE DEF d, e
  <2> QED
    BY <1>5, OthersKeepRegions
<1>7. Same(d, g)
  <2> HIDE DEF d, f
  <2> QED
    BY <1>6, ChainsKeep DEF FileFields
<1>8. Same(d, ExplicitCtorStep(g, n, line))
  <2> HIDE DEF d, g
  <2> QED
    BY <1>7, ChainsKeep DEF FileFields
<1>9. ValidatorsStep(v, n, line) = ExplicitCtorStep(g, n, line)
  BY DEF ValidatorsStep
<1> HIDE DEF g, d
<1> QED
  BY <1>4, <1>8, <1>9

-----------------------------------------------------------------------------
(* Which reports are about regions.                                        *)

AboutRegions(found) == \E r \in found : r.group = "regionValidator"

LEMMA OtherReports ==
  ASSUME NEW found, \A r \in found : r.group # "regionValidator"
  PROVE  ~ AboutRegions(found)
  BY DEF AboutRegions

LEMMA UnionAboutRegions ==
  ASSUME NEW a, NEW b
  PROVE  AboutRegions(a \cup b) <=> AboutRegions(a) \/ AboutRegions(b)
  BY DEF AboutRegions

\* The reports of a file carry its number, and none about regions is dropped.
LEMMA ReportsMade ==
  ASSUME IsFile(file), NEW found
  PROVE  /\ \A r \in Reports(found) : r.path = at
         /\ AboutRegions(Reports(found)) <=> AboutRegions(found)
<1>1. "regionValidator" \notin file.exempt
  BY DEF IsFile
<1>2. ASSUME NEW r \in Reports(found)
      PROVE  r.path = at /\ \E q \in found : q.group = r.group
  BY <1>2 DEF Reports
<1>3. ASSUME NEW q \in found, q.group = "regionValidator"
      PROVE  \E r \in Reports(found) : r.group = "regionValidator"
  <2>1. [path |-> at, group |-> q.group, line |-> q.line] \in Reports(found)
    BY <1>1, <1>3 DEF Reports
  <2> QED
    BY <1>3, <2>1
<1> QED
  BY <1>2, <1>3 DEF AboutRegions

LEMMA LineReportsAboutRegions ==
  ASSUME NEW v, NEW n, NEW line, IsLine(line)
  PROVE  AboutRegions(ValidatorReports(v, n, line)) <=> Is(line, "misspelt region")
<1>1. ~ AboutRegions({[group |-> g, line |-> n] : g \in line.faults})
  <2> SUFFICES ASSUME NEW g \in line.faults PROVE g # "regionValidator"
    BY DEF AboutRegions
  <2>1. g \in LineFaults
    BY DEF IsLine
  <2> QED
    BY <2>1 DEF LineFaults
<1>2. ~ AboutRegions(TestClassReports(v, n, line))
  <2> SUFFICES ASSUME NEW r \in TestClassReports(v, n, line) PROVE r.group # "regionValidator"
    BY OtherReports
  <2> QED
    BY Named DEF TestClassReports
<1>3. ~ AboutRegions(SingleLineReports(v, n, line))
  <2> SUFFICES ASSUME NEW r \in SingleLineReports(v, n, line) PROVE r.group # "regionValidator"
    BY OtherReports
  <2> QED
    BY Named DEF SingleLineReports
<1>4. AboutRegions(RegionReports(v, n, line)) <=> Is(line, "misspelt region")
  BY DEF RegionReports, When, AboutRegions
<1>5. ~ AboutRegions(ClosingBraceReports(v, n, line))
  <2> SUFFICES ASSUME NEW r \in ClosingBraceReports(v, n, line) PROVE r.group # "regionValidator"
    BY OtherReports
  <2> QED
    BY Named DEF ClosingBraceReports
<1>6. ~ AboutRegions(NamespaceOpeningReports(v, n, line))
  <2> SUFFICES ASSUME NEW r \in NamespaceOpeningReports(v, n, line) PROVE r.group # "regionValidator"
    BY OtherReports
  <2> QED
    BY Named DEF NamespaceOpeningReports
<1>7. ~ AboutRegions(CopyrightReports(v, n, line))
  <2> SUFFICES ASSUME NEW r \in CopyrightReports(v, n, line) PROVE r.group # "regionValidator"
    BY OtherReports
  <2> QED
    BY Named DEF CopyrightReports
<1>8. ~ AboutRegions(PreviousLineReports(v, n, line))
  <2> SUFFICES ASSUME NEW r \in PreviousLineReports(v, n, line) PROVE r.group # "regionValidator"
    BY OtherReports
  <2> QED
    BY Named DEF PreviousLineReports
<1>9. ~ AboutRegions(InsertionReports(v, n, line))
  BY InsertionNamed DEF AboutRegions
<1>10. ~ AboutRegions(ExplicitCtorReports(v, n, line))
  BY ExplicitCtorNamed DEF AboutRegions
<1>11. ASSUME NEW r \in ValidatorReports(v, n, line), r.group = "regionValidator"
       PROVE  r \in RegionReports(v, n, line)
  BY <1>1, <1>2, <1>3, <1>5, <1>6, <1>7, <1>8, <1>9, <1>10, <1>11
  DEF ValidatorReports, AboutRegions
<1>12. RegionReports(v, n, line) \subseteq ValidatorReports(v, n, line)
  BY DEF ValidatorReports
<1> QED
  BY <1>4, <1>11, <1>12 DEF AboutRegions

\* At the end of a file, the validator of regions alone reports them.
LEMMA EndReportsAboutRegions ==
  ASSUME NEW h, NEW n, NEW v, NEW f, NEW skipped, NEW owner, NEW includes
  PROVE  /\ ~ AboutRegions(HeaderEndReports(h, n))
         /\ AboutRegions(finalize(v)) <=> AboutRegions(RegionFinalize(v))
         /\ ~ AboutRegions(ForwardsReports(f, skipped))
         /\ ~ AboutRegions(report_indents(h))
         /\ ~ AboutRegions(IncludeReports(owner, includes))
<1>1. ~ AboutRegions(HeaderEndReports(h, n))
  <2> SUFFICES ASSUME NEW r \in HeaderEndReports(h, n) PROVE r.group # "regionValidator"
    BY OtherReports
  <2> QED
    BY Named DEF HeaderEndReports
<1>2. AboutRegions(finalize(v)) <=> AboutRegions(RegionFinalize(v))
  <2> SUFFICES ASSUME NEW r \in finalize(v), r \notin RegionFinalize(v)
               PROVE  r.group # "regionValidator"
    BY DEF AboutRegions, finalize
  <2> QED
    BY Named DEF finalize
<1>3. ~ AboutRegions(ForwardsReports(f, skipped))
  BY DEF ForwardsReports, AboutRegions
<1>4. ~ AboutRegions(report_indents(h))
  BY DEF report_indents, AboutRegions
<1>5. ~ AboutRegions(IncludeReports(owner, includes))
  BY DEF IncludeReports, AboutRegions
<1> QED
  BY <1>1, <1>2, <1>3, <1>4, <1>5

LEMMA FinalizeAboutRegions ==
  ASSUME NEW v
  PROVE  AboutRegions(RegionFinalize(v)) <=> v.counter > 0 \/ v.regionErrors # {}
<1>1. CASE v.counter > 0
  BY <1>1 DEF RegionFinalize, When, AboutRegions
<1>2. CASE ~ (v.counter > 0)
  <2>1. RegionFinalize(v) = UNION {When(TRUE, "regionValidator", n) : n \in v.regionErrors}
    BY <1>2 DEF RegionFinalize
  <2>2. ASSUME NEW n \in v.regionErrors
        PROVE  AboutRegions(RegionFinalize(v))
    <3>1. AboutRegions(When(TRUE, "regionValidator", n))
      BY DEF When, AboutRegions
    <3>2. When(TRUE, "regionValidator", n) \subseteq RegionFinalize(v)
      BY <2>1
    <3> QED
      BY <3>1, <3>2 DEF AboutRegions
  <2>3. ASSUME v.regionErrors = {} PROVE ~ AboutRegions(RegionFinalize(v))
    BY <2>1, <2>3 DEF AboutRegions
  <2> QED
    BY <1>2, <2>2, <2>3
<1> QED
  BY <1>1, <1>2

-----------------------------------------------------------------------------
(* The regions of a file are judged by its own lines.                      *)

RegionsReported == \E r \in context : r.path = at /\ r.group = "regionValidator"

Misspelt(lines, n) == \E i \in 1 .. n : Is(lines[i], "misspelt region")

Paired(lines) ==
    /\ \A n \in DOMAIN lines : Depth(lines, n) \in {0, 1}
    /\ Depth(lines, Len(lines)) = 0
    /\ \A n \in DOMAIN lines : ~ Is(lines[n], "misspelt region")

\* No file has reports before it is read.  After a line, the validator knows how many regions
\* are open, and has an error if and only if they were nested or closed too often.
RegionsInv ==
    /\ \A r \in context : r.path \in 1 .. at
    /\ phase = "lines" =>
         /\ validators.counter = Depth(Lines, pos)
         /\ validators.regionErrors = {} <=> \A n \in 1 .. pos : Depth(Lines, n) \in {0, 1}
         /\ RegionsReported <=> Misspelt(Lines, pos)

LEMMA JudgedMeans ==
  /\ RegionsAreJudged <=> (phase = "tokens" => (Paired(Lines) <=> ~ RegionsReported))
  /\ RegionsAreJudged' <=> (phase' = "tokens" => (Paired(Lines') <=> ~ RegionsReported'))
<1>1. RegionsAreJudged <=> (phase = "tokens" => (Paired(Lines) <=> ~ RegionsReported))
  BY DEF RegionsAreJudged, Paired, Depth, Marked, RegionsReported
<1>2. RegionsAreJudged' <=> (phase' = "tokens" => (Paired(Lines') <=> ~ RegionsReported'))
  BY DEF RegionsAreJudged, Paired, Depth, Marked, RegionsReported
<1> QED
  BY <1>1, <1>2

LEMMA ResetRegions ==
  ASSUME NEW v, NEW isHeader
  PROVE  reset(v, isHeader).counter = 0 /\ reset(v, isHeader).regionErrors = {}
<1> DEFINE new == PerFile(isHeader)
<1>1. {"counter", "regionErrors"} \subseteq DOMAIN new /\ new.counter = 0 /\ new.regionErrors = {}
  BY DEF PerFile
<1>2. reset(v, isHeader) = Over(new, v)
  BY DEF reset
<1> HIDE DEF new
<1>3. \A x \in DOMAIN new : Over(new, v)[x] = new[x]
  BY OverFields
<1>4. Over(new, v).counter = new.counter /\ Over(new, v).regionErrors = new.regionErrors
  BY <1>1, <1>3
<1> QED
  BY <1>1, <1>2, <1>4

LEMMA DepthAtTheStart ==
  ASSUME NEW lines
  PROVE  Depth(lines, 0) = 0 /\ ~ Misspelt(lines, 0)
<1>1. Marked(lines, 0, "region") = 0 /\ Marked(lines, 0, "endregion") = 0
  <2>1. 0 \in Nat
    OBVIOUS
  <2> QED
    BY <2>1, MarksAreCounted
<1> QED
  BY <1>1 DEF Depth, Misspelt

\* A file is begun.
LEMMA NextFileRegions ==
  ASSUME WalkInv, RegionsInv, NextFile
  PROVE  RegionsInv' /\ RegionsAreJudged'
<1>1. /\ phase = "walk" /\ at' = at + 1 /\ context' = context /\ at \in Nat
  BY ProjectIsList DEF NextFile, WalkInv
<1>2. \A r \in context' : r.path \in 1 .. at'
  BY <1>1 DEF RegionsInv
<1>3. ~ RegionsReported'
  BY <1>1 DEF RegionsReported, RegionsInv
<1>4. CASE Ignored(project[at + 1])
  <2>1. phase' = "walk"
    BY <1>1, <1>4 DEF NextFile
  <2> QED
    BY <1>2, <2>1 DEF RegionsInv, RegionsAreJudged
<1>5. CASE ~ Ignored(project[at + 1])
  <2>1. /\ phase' = "lines" /\ pos' = 0
        /\ validators' = reset(validators, project[at + 1].isHeader)
    BY <1>5 DEF NextFile
  <2>2. validators'.counter = 0 /\ validators'.regionErrors = {}
    BY <2>1, ResetRegions
  <2>3. Depth(Lines', 0) = 0
    BY DepthAtTheStart
  <2>4. ~ Misspelt(Lines', 0)
    BY DepthAtTheStart
  <2> QED
    BY <1>2, <1>3, <2>1, <2>2, <2>3, <2>4 DEF RegionsInv, RegionsAreJudged
<1> QED
  BY <1>4, <1>5

\* A line is read: the count follows the depth.
LEMMA ReadLineRegions ==
  ASSUME WalkInv, TwinInv, RegionsInv, ReadLine, ~ Abort
  PROVE  RegionsInv' /\ RegionsAreJudged'
<1> DEFINE n == pos + 1
           line == Lines[n]
           found == ValidatorReports(validators, n, line) \cup HeaderReports(header, n, line)
<1>1. /\ phase = "lines" /\ phase' = phase /\ pos' = n /\ at' = at /\ project' = project
      /\ validators' = ValidatorsStep(validators, n, line)
      /\ context' = context \cup Reports(found) /\ pos < Len(Lines)
  BY DEF ReadLine
<1>2. at > 0 /\ at \in Nat /\ pos \in Nat /\ Len(Lines) \in Nat /\ IsFile(file) /\ IsLine(line)
  <2>1. at > 0 /\ at \in Nat /\ pos \in Nat
    BY <1>1, ProjectIsList DEF WalkInv
  <2>2. Len(Lines) \in Nat /\ IsFile(file) /\ IsLine(line)
    BY <1>1, <2>1, FileTypes DEF IsList
  <2> QED
    BY <2>1, <2>2
<1>3. Lines' = Lines
  BY <1>1 DEF Lines, file
<1>4. /\ validators'.counter = CounterAfter(validators, line)
      /\ validators'.regionErrors = ErrorsAfter(validators, n, line)
  BY <1>1, RegionsRead DEF TwinInv
<1>5. /\ Depth(Lines, pos) \in Int /\ Depth(Lines, 0) = 0
      /\ Depth(Lines, n) = IF Is(line, "region") THEN Depth(Lines, pos) + 1
                           ELSE IF Is(line, "endregion") THEN Depth(Lines, pos) - 1
                           ELSE Depth(Lines, pos)
  BY <1>2, DepthSteps
<1>6. validators'.counter = Depth(Lines, n)
  BY <1>1, <1>4, <1>5 DEF CounterAfter, RegionsInv
<1>7. validators'.regionErrors = {} <=> \A m \in 1 .. n : Depth(Lines, m) \in {0, 1}
  <2>0. /\ validators.counter = Depth(Lines, pos)
        /\ validators.regionErrors = {} <=> \A m \in 1 .. pos : Depth(Lines, m) \in {0, 1}
    BY <1>1 DEF RegionsInv
  <2>1. \A m : m \in 1 .. n <=> m \in 1 .. pos \/ m = n
    BY <1>2
  <2>2. CASE validators.regionErrors # {}
    BY <1>4, <2>0, <2>1, <2>2 DEF ErrorsAfter
  <2>3. CASE validators.regionErrors = {}
    <3>1. Depth(Lines, pos) \in {0, 1}
      BY <1>2, <1>5, <2>0, <2>3
    <3>2. validators'.regionErrors = {} <=> Depth(Lines, n) \in {0, 1}
      BY <1>4, <1>5, <2>0, <2>3, <3>1 DEF ErrorsAfter
    <3> QED
      BY <2>0, <2>1, <2>3, <3>2
  <2> QED
    BY <2>2, <2>3
<1>8. RegionsReported' <=> Misspelt(Lines, n)
  <2>1. AboutRegions(found) <=> Is(line, "misspelt region")
    <3>1. ~ AboutRegions(HeaderReports(header, n, line))
      <4> SUFFICES ASSUME NEW r \in HeaderReports(header, n, line)
                   PROVE  r.group # "regionValidator"
        BY OtherReports
      <4> QED
        BY Named DEF HeaderReports
    <3> QED
      BY <1>2, <3>1, LineReportsAboutRegions, UnionAboutRegions
  <2>2. /\ \A r \in Reports(found) : r.path = at
        /\ AboutRegions(Reports(found)) <=> AboutRegions(found)
    BY <1>2, ReportsMade
  <2>3. RegionsReported' <=> RegionsReported \/ AboutRegions(Reports(found))
    <3> HIDE DEF found
    <3> QED
      BY <1>1, <2>2 DEF RegionsReported, AboutRegions
  <2>4. RegionsReported <=> Misspelt(Lines, pos)
    BY <1>1 DEF RegionsInv
  <2>5. Misspelt(Lines, n) <=> Misspelt(Lines, pos) \/ Is(line, "misspelt region")
    <3>1. \A i : i \in 1 .. n <=> i \in 1 .. pos \/ i = n
      BY <1>2
    <3> HIDE DEF n
    <3> QED
      BY <3>1 DEF Misspelt
  <2> QED
    BY <2>1, <2>2, <2>3, <2>4, <2>5
<1>9. \A r \in context' : r.path \in 1 .. at'
  <2>1. \A r \in Reports(found) : r.path = at
    BY <1>2, ReportsMade
  <2> HIDE DEF found
  <2> QED
    BY <1>1, <1>2, <2>1 DEF RegionsInv
<1> QED
  BY <1>1, <1>3, <1>6, <1>7, <1>8, <1>9 DEF RegionsInv, RegionsAreJudged

\* The file is read: what is still open, or else the errors, is reported.
LEMMA FileReadRegions ==
  ASSUME WalkInv, RegionsInv, FileRead, ~ Abort
  PROVE  RegionsInv' /\ RegionsAreJudged'
<1> DEFINE found == HeaderEndReports(header, pos) \cup finalize(validators)
                    \cup ForwardsReports(forwards, file.skipForwards)
                    \cup report_indents(header)
                    \cup IncludeReports(file, header.includes)
                    \cup When(file.crossIncludes, "cross_includes", 0)
<1>1. /\ phase = "lines" /\ phase' = "tokens" /\ pos = Len(Lines) /\ at' = at /\ project' = project
      /\ context' = context \cup Reports(found)
  BY DEF FileRead
<1>2. at > 0 /\ at \in Nat /\ pos \in Nat /\ IsFile(file) /\ DOMAIN Lines = 1 .. pos
  <2>1. at > 0 /\ at \in Nat /\ pos \in Nat
    BY <1>1, ProjectIsList DEF WalkInv
  <2>2. IsFile(file) /\ IsList(Lines)
    BY <2>1, FileTypes
  <2> QED
    BY <1>1, <2>1, <2>2 DEF IsList
<1>3. Lines' = Lines
  BY <1>1 DEF Lines, file
<1>4. /\ \A r \in Reports(found) : r.path = at
      /\ AboutRegions(Reports(found)) <=> AboutRegions(found)
  BY <1>2, ReportsMade
<1>5. AboutRegions(found) <=> validators.counter > 0 \/ validators.regionErrors # {}
  <2>1. ~ AboutRegions(When(file.crossIncludes, "cross_includes", 0))
    <3> SUFFICES ASSUME NEW r \in When(file.crossIncludes, "cross_includes", 0)
                 PROVE  r.group # "regionValidator"
      BY OtherReports
    <3> QED
      BY Named
  <2>2. AboutRegions(found) <=> AboutRegions(finalize(validators))
    BY <2>1, EndReportsAboutRegions DEF AboutRegions
  <2> QED
    BY <2>2, EndReportsAboutRegions, FinalizeAboutRegions
<1> HIDE DEF found
<1>6. RegionsReported' <=> RegionsReported \/ AboutRegions(found)
  BY <1>1, <1>4 DEF RegionsReported, AboutRegions
<1>7. /\ validators.counter = Depth(Lines, pos)
      /\ validators.regionErrors = {} <=> \A m \in 1 .. pos : Depth(Lines, m) \in {0, 1}
      /\ RegionsReported <=> Misspelt(Lines, pos)
  BY <1>1 DEF RegionsInv
<1>8. Depth(Lines, 0) = 0
  BY DepthAtTheStart
<1>9. Paired(Lines) <=> ~ (validators.counter > 0) /\ validators.regionErrors = {}
                        /\ ~ RegionsReported
  <2>1. pos \in 1 .. pos \/ pos = 0
    BY <1>2
  <2>2. (\A m \in 1 .. pos : Depth(Lines, m) \in {0, 1})
          => (Depth(Lines, pos) = 0 <=> ~ (validators.counter > 0))
    BY <1>7, <1>8, <2>1
  <2> QED
    BY <1>1, <1>2, <1>7, <2>2 DEF Paired, Misspelt
<1>10. Paired(Lines') <=> ~ RegionsReported'
  BY <1>3, <1>5, <1>6, <1>9
<1>11. \A r \in context' : r.path \in 1 .. at'
  BY <1>1, <1>2, <1>4 DEF RegionsInv
<1> QED
  BY <1>1, <1>10, <1>11, JudgedMeans DEF RegionsInv

LEMMA InitRegions ==
  ASSUME Init
  PROVE  RegionsInv /\ RegionsAreJudged
  BY DEF Init, RegionsInv, RegionsAreJudged

LEMMA StepRegions ==
  ASSUME WalkInv, TwinInv, RegionsInv, RegionsAreJudged, [Next]_vars
  PROVE  RegionsInv' /\ RegionsAreJudged'
<1>1. ASSUME UNCHANGED <<at, context>>, phase' \notin {"lines", "tokens"}
      PROVE  RegionsInv' /\ RegionsAreJudged'
  BY <1>1 DEF RegionsInv, RegionsAreJudged
<1>2. ASSUME Abort PROVE RegionsInv' /\ RegionsAreJudged'
  BY <1>1, <1>2 DEF Abort
<1>3. CASE NextFile
  BY <1>3, NextFileRegions
<1>4. CASE ReadLine
  BY <1>2, <1>4, ReadLineRegions
<1>5. CASE FileRead
  BY <1>2, <1>5, FileReadRegions
<1>6. ASSUME UNCHANGED <<project, at, context>>, phase = "tokens", phase' = "tokens"
      PROVE  RegionsInv' /\ RegionsAreJudged'
  <2>1. Lines' = Lines /\ (RegionsReported' <=> RegionsReported)
    BY <1>6 DEF Lines, file, RegionsReported
  <2> QED
    BY <1>6, <2>1, JudgedMeans DEF RegionsInv
<1>7. CASE ParseLine
  BY <1>2, <1>6, <1>7 DEF ParseLine
<1>8. CASE FileParsed /\ ~ Abort
  <2> DEFINE p == ParserEnd(parser)
             found == When("preprocessorOther" \in p.errors, "preprocessorOther", 0) \cup
                      When("anonNamespace" \in p.errors /\ file.isHeader, "anonNamespace", 0)
  <2>1. /\ phase = "tokens" /\ phase' = "walk" /\ at' = at
        /\ context' = context \cup Reports(found)
    BY <1>8 DEF FileParsed
  <2>2. at > 0 /\ at \in Nat /\ IsFile(file)
    BY <2>1, ProjectIsList, FileTypes DEF WalkInv
  <2>3. \A r \in Reports(found) : r.path = at
    BY <2>2, ReportsMade
  <2> HIDE DEF found
  <2>4. \A r \in context' : r.path \in 1 .. at'
    BY <2>1, <2>2, <2>3 DEF RegionsInv
  <2> QED
    BY <2>1, <2>4 DEF RegionsInv, RegionsAreJudged
<1>9. CASE FileParsed /\ Abort
  BY <1>2, <1>9
<1>10. CASE WalkDone
  BY <1>1, <1>2, <1>10 DEF WalkDone
<1>11. CASE PrintFormatting \/ PrintNamespaces \/ PrintTemplateErrors \/ PrintDependencies
  BY <1>1, <1>11 DEF PrintFormatting, PrintNamespaces, PrintTemplateErrors, PrintDependencies,
                     Counted
<1>12. CASE Exit
  BY <1>1, <1>12 DEF Exit
<1>13. CASE Exited \/ UNCHANGED vars
  <2>1. UNCHANGED <<project, phase, at, pos, validators, context>>
    BY <1>13 DEF Exited, vars
  <2>2. Lines' = Lines /\ (RegionsReported' <=> RegionsReported)
    BY <2>1 DEF Lines, file, RegionsReported
  <2> QED
    BY <2>1, <2>2, JudgedMeans DEF RegionsInv
<1> QED
  BY <1>3, <1>4, <1>5, <1>7, <1>8, <1>9, <1>10, <1>11, <1>12, <1>13 DEF Next

\* The lines of a file are reported by the validator of regions (validation.py:885-939) if
\* and only if its own regions are not closed pairs without nesting, whatever the files
\* before it left open, for files of every length and number.
THEOREM RegionsAreJudgedByTheirFile == Spec => []RegionsAreJudged
<1>1. Init => WalkInv /\ TwinInv /\ CarryOverReachesOneLine /\ RegionsInv /\ RegionsAreJudged
  BY InitWalk, InitTwin, InitRegions
<1>2. WalkInv /\ TwinInv /\ CarryOverReachesOneLine /\ RegionsInv /\ RegionsAreJudged
        /\ [Next]_vars
        => (WalkInv /\ TwinInv /\ CarryOverReachesOneLine /\ RegionsInv /\ RegionsAreJudged)'
  BY StepWalk, StepTwin, StepRegions
<1> QED
  BY <1>1, <1>2, PTL DEF Spec

-----------------------------------------------------------------------------
(* Finite sets.                                                            *)

\* What is made of the members of a finite set is finite.
LEMMA ImageIsFinite ==
  ASSUME NEW S, IsFiniteSet(S), NEW T, NEW f \in [S -> T], \A t \in T : \E s \in S : f[s] = t
  PROVE  IsFiniteSet(T)
<1>1. f \in Surjection(S, T)
  BY DEF Surjection
<1> QED
  BY <1>1, FS_Surjection

LEMMA WhenIsFinite ==
  ASSUME NEW condition, NEW group, NEW n
  PROVE  IsFiniteSet(When(condition, group, n))
<1>1. When(condition, group, n) = {} \/ When(condition, group, n) = {[group |-> group, line |-> n]}
  BY DEF When
<1>2. IsFiniteSet({}) /\ IsFiniteSet({[group |-> group, line |-> n]})
  BY FS_EmptySet, FS_Singleton
<1> QED
  BY <1>1, <1>2

LEMMA ThreeAreFinite ==
  ASSUME NEW a, NEW b, NEW c
  PROVE  IsFiniteSet({a, b, c})
<1>1. IsFiniteSet({a})
  BY FS_Singleton
<1>2. IsFiniteSet({a} \cup {b})
  BY <1>1, FS_AddElement
<1>3. IsFiniteSet(({a} \cup {b}) \cup {c})
  BY <1>2, FS_AddElement
<1>4. {a, b, c} = ({a} \cup {b}) \cup {c}
  OBVIOUS
<1> QED
  BY <1>3, <1>4

\* A line can be objected to in finitely many ways.
LEMMA FaultsAreFinite == IsFiniteSet(LineFaults)
<1> DEFINE a == {"whitespaceLines", "tooLongLines", "templateFollowedBySpace"}
           b == {"catchAndClosingTryBraceOnSeparateLines", "nameTypo", "functionAlias"}
           c == {"spaceBrace", "returnOnNewLine", "multiConditionChecker"}
           d == {"cpp17Traits", "utilsSubdir", "stressTestName"}
           e == {"macroSemicolonChecker"}
<1>1. IsFiniteSet(a) /\ IsFiniteSet(b) /\ IsFiniteSet(c) /\ IsFiniteSet(d) /\ IsFiniteSet(e)
  BY ThreeAreFinite, FS_Singleton
<1>2. LineFaults = (((a \cup b) \cup c) \cup d) \cup e
  BY DEF LineFaults
<1> HIDE DEF a, b, c, d, e
<1>3. IsFiniteSet(a \cup b)
  BY <1>1, FS_Union
<1>4. IsFiniteSet((a \cup b) \cup c)
  BY <1>1, <1>3, FS_Union
<1>5. IsFiniteSet(((a \cup b) \cup c) \cup d)
  BY <1>1, <1>4, FS_Union
<1>6. IsFiniteSet((((a \cup b) \cup c) \cup d) \cup e)
  BY <1>1, <1>5, FS_Union
<1> QED
  BY <1>2, <1>6

-----------------------------------------------------------------------------
(* Finitely many reports.                                                  *)

LEMMA ReportsAreFinite ==
  ASSUME NEW found, IsFiniteSet(found)
  PROVE  IsFiniteSet(Reports(found))
<1> DEFINE S == {r \in found : r.group \notin file.exempt}
           Make(r) == [path |-> at, group |-> r.group, line |-> r.line]
           f == [r \in S |-> Make(r)]
<1>1. IsFiniteSet(S)
  BY FS_Subset
<1>2. Reports(found) = {Make(r) : r \in S}
  BY DEF Reports
<1> HIDE DEF S, Make
<1>3. f \in [S -> Reports(found)] /\ \A t \in Reports(found) : \E s \in S : f[s] = t
  BY <1>2
<1> HIDE DEF f
<1> QED
  BY <1>1, <1>3, ImageIsFinite

LEMMA LineReportsAreFinite ==
  ASSUME NEW v, NEW n, NEW line, IsLine(line)
  PROVE  IsFiniteSet(ValidatorReports(v, n, line))
<1> DEFINE R0 == {[group |-> g, line |-> n] : g \in line.faults}
           R1 == TestClassReports(v, n, line)
           R2 == SingleLineReports(v, n, line)
           R3 == RegionReports(v, n, line)
           R4 == ClosingBraceReports(v, n, line)
           R5 == NamespaceOpeningReports(v, n, line)
           R6 == CopyrightReports(v, n, line)
           R7 == PreviousLineReports(v, n, line)
           R8 == InsertionReports(v, n, line)
           R9 == ExplicitCtorReports(v, n, line)
<1>0. IsFiniteSet(R0)
  <2> DEFINE f == [g \in line.faults |-> [group |-> g, line |-> n]]
  <2>1. IsFiniteSet(line.faults)
    BY FaultsAreFinite, FS_Subset DEF IsLine
  <2>2. f \in [line.faults -> R0] /\ \A t \in R0 : \E g \in line.faults : f[g] = t
    OBVIOUS
  <2> HIDE DEF f, R0
  <2> QED
    BY <2>1, <2>2, ImageIsFinite
<1>1. IsFiniteSet(R1) /\ IsFiniteSet(R2) /\ IsFiniteSet(R3) /\ IsFiniteSet(R6) /\ IsFiniteSet(R9)
  BY WhenIsFinite DEF TestClassReports, SingleLineReports, RegionReports, CopyrightReports,
                      ExplicitCtorReports
<1>2. IsFiniteSet(R4) /\ IsFiniteSet(R5) /\ IsFiniteSet(R8)
  BY WhenIsFinite, FS_Union DEF ClosingBraceReports, NamespaceOpeningReports, InsertionReports
<1>3. IsFiniteSet(R7)
  <2> DEFINE a == [group |-> "enumValueBlankLine", line |-> n - 1]
             b == [group |-> "trailingComma", line |-> n - 1]
             c == [group |-> "emptyStatement", line |-> n]
             d == [group |-> "documentationVerticalSpacing", line |-> n]
             e == [group |-> "testFirstLineComment", line |-> n]
  <2>1. R7 \subseteq {a, b, c} \cup {d, e, e}
    BY DEF PreviousLineReports, When
  <2>2. IsFiniteSet({a, b, c} \cup {d, e, e})
    <3> HIDE DEF a, b, c, d, e
    <3> QED
      BY ThreeAreFinite, FS_Union
  <2> QED
    BY <2>1, <2>2, FS_Subset
<1>4. ValidatorReports(v, n, line)
        = ((((((((R0 \cup R1) \cup R2) \cup R3) \cup R4) \cup R5) \cup R6) \cup R7) \cup R8) \cup R9
  BY DEF ValidatorReports
<1> HIDE DEF R0, R1, R2, R3, R4, R5, R6, R7, R8, R9
<1>5. IsFiniteSet(((R0 \cup R1) \cup R2) \cup R3)
  BY <1>0, <1>1, FS_Union
<1>6. IsFiniteSet(((((R0 \cup R1) \cup R2) \cup R3) \cup R4) \cup R5)
  BY <1>2, <1>5, FS_Union
<1>7. IsFiniteSet(((((((R0 \cup R1) \cup R2) \cup R3) \cup R4) \cup R5) \cup R6) \cup R7)
  BY <1>1, <1>3, <1>6, FS_Union
<1>8. IsFiniteSet(((((((((R0 \cup R1) \cup R2) \cup R3) \cup R4) \cup R5) \cup R6) \cup R7) \cup R8) \cup R9)
  BY <1>1, <1>2, <1>7, FS_Union
<1> QED
  BY <1>4, <1>8

LEMMA EndReportsAreFinite ==
  ASSUME NEW h, NEW n, NEW v, NEW f, NEW skipped, NEW owner, NEW includes,
         IsFiniteSet(DOMAIN h.fixes), IsFiniteSet(v.regionErrors), IsFiniteSet(f.redefined)
  PROVE  /\ IsFiniteSet(HeaderEndReports(h, n))
         /\ IsFiniteSet(finalize(v))
         /\ IsFiniteSet(ForwardsReports(f, skipped))
         /\ IsFiniteSet(report_indents(h))
         /\ IsFiniteSet(IncludeReports(owner, includes))
<1>1. IsFiniteSet(HeaderEndReports(h, n))
  BY WhenIsFinite DEF HeaderEndReports
<1>2. IsFiniteSet(finalize(v))
  <2> DEFINE errors == v.regionErrors
             T == UNION {When(TRUE, "regionValidator", k) : k \in errors}
             g == [k \in errors |-> [group |-> "regionValidator", line |-> k]]
  <2>1. g \in [errors -> T] /\ \A t \in T : \E k \in errors : g[k] = t
    BY DEF When
  <2>2. IsFiniteSet(T)
    <3> HIDE DEF g, T, errors
    <3>1. IsFiniteSet(errors)
      BY DEF errors
    <3> QED
      BY <2>1, <3>1, ImageIsFinite
  <2>3. IsFiniteSet(RegionFinalize(v))
    BY <2>2, WhenIsFinite DEF RegionFinalize
  <2> QED
    BY <2>3, WhenIsFinite, FS_Union DEF finalize
<1>3. IsFiniteSet(ForwardsReports(f, skipped))
  <2> DEFINE redefined == f.redefined
             R0 == {[group |-> "forward", line |-> k] : k \in redefined}
             R1 == IF f.nextLineFilled /\ f.lastNamespace > f.lastForward
                   THEN {[group |-> "forward", line |-> f.lastNamespace + 1]} ELSE {}
             R2 == IF ~skipped /\ Mismatch(f) THEN {[group |-> "forward", line |-> f.match]} ELSE {}
             g == [k \in redefined |-> [group |-> "forward", line |-> k]]
  <2>1. g \in [redefined -> R0] /\ \A t \in R0 : \E k \in redefined : g[k] = t
    OBVIOUS
  <2>2. IsFiniteSet(R0)
    <3> HIDE DEF g, R0, redefined
    <3>1. IsFiniteSet(redefined)
      BY DEF redefined
    <3> QED
      BY <2>1, <3>1, ImageIsFinite
  <2>3. IsFiniteSet(R1) /\ IsFiniteSet(R2)
    BY FS_EmptySet, FS_Singleton
  <2>4. ForwardsReports(f, skipped) = (R0 \cup R1) \cup R2
    BY DEF ForwardsReports
  <2> HIDE DEF R0, R1, R2
  <2> QED
    BY <2>2, <2>3, <2>4, FS_Union
<1>4. IsFiniteSet(report_indents(h))
  <2> DEFINE numbers == DOMAIN h.fixes
             directives == {i \in numbers : h.fixes[i].kind = "directive"}
             indented == {i \in directives : h.fixes[i].indent > 0}
             first == {i \in numbers \ directives :
                         \E j \in indented : j < i /\ j .. (i - 1) \subseteq directives}
             wrong == indented \cup {i \in first : h.fixes[i].indent # 1}
             Make(i) == [group |-> "indentedPreprocessor", line |-> h.fixes[i].line]
             g == [i \in wrong |-> Make(i)]
  <2>1. report_indents(h) = {Make(i) : i \in wrong}
    BY DEF report_indents
  <2>2. wrong \subseteq numbers
    OBVIOUS
  <2> HIDE DEF wrong, numbers, Make
  <2>3. IsFiniteSet(wrong)
    BY <2>2, FS_Subset DEF numbers
  <2>4. g \in [wrong -> report_indents(h)] /\ \A t \in report_indents(h) : \E i \in wrong : g[i] = t
    BY <2>1
  <2> HIDE DEF g
  <2> QED
    BY <2>3, <2>4, ImageIsFinite
<1>5. IsFiniteSet(IncludeReports(owner, includes))
  <2> DEFINE R1 == IF ~owner.isHeader /\ owner.firstInclude # <<includes[1].quote, includes[1].path>>
                   THEN {[group |-> "firstInclude", line |-> 0]} ELSE {}
             R2 == IF includes # ProperOrder(owner, includes)
                   THEN {[group |-> "includesOrder", line |-> 0]} ELSE {}
  <2>1. IsFiniteSet(R1) /\ IsFiniteSet(R2)
    BY FS_EmptySet, FS_Singleton
  <2>2. IncludeReports(owner, includes) = R1 \cup R2
    BY DEF IncludeReports
  <2> HIDE DEF R1, R2
  <2> QED
    BY <2>1, <2>2, FS_Union
<1> QED
  BY <1>1, <1>2, <1>3, <1>4, <1>5

-----------------------------------------------------------------------------
(* What is known of the validator of forward declarations.                 *)

ForwardModes ==
    {"normal", "ns name", "namespace keyword", "opening brace", "type name", "enum",
     "semicolon", "skip"}

\* It is in one of its modes, and has met finitely many declarations again.
IsForwards(f) ==
    /\ {"mode", "redefined"} \subseteq DOMAIN f
    /\ f.mode \in ForwardModes /\ IsFiniteSet(f.redefined)

LEMMA NewIsForwards == IsForwards(NewForwards)
  BY FS_EmptySet DEF NewForwards, IsForwards, ForwardModes

LEMMA FinalIsForwards ==
  ASSUME NEW f, IsForwards(f)
  PROVE  IsForwards(final(f))
  BY DEF final, IsForwards

\* The mode changes.
LEMMA ModeIsForwards ==
  ASSUME NEW f, IsForwards(f), NEW mode \in ForwardModes
  PROVE  IsForwards([f EXCEPT !.mode = mode])
  BY DEF IsForwards

LEMMA KeywordIsForwards ==
  ASSUME NEW f, IsForwards(f), NEW tok, NEW rest
  PROVE  IsForwards(_keyword_check(f, tok, rest))
<1>1. IsForwards([f EXCEPT !.mode = "ns name", !.nsType = "normal"])
  BY DEF IsForwards, ForwardModes
<1>2. IsForwards([f EXCEPT !.mode = "namespace keyword"])
  BY DEF IsForwards, ForwardModes
<1>3. IsForwards([f EXCEPT !.mode = "type name", !.type = <<tok>>])
  BY DEF IsForwards, ForwardModes
<1>4. IsForwards([f EXCEPT !.mode = "enum", !.type = <<tok>>])
  BY DEF IsForwards, ForwardModes
<1>5. IsForwards([f EXCEPT !.mode = "skip", !.pre = Append(@, rest)])
  BY DEF IsForwards, ForwardModes
<1>6. IsForwards([f EXCEPT !.mode = "skip"])
  BY DEF IsForwards, ForwardModes
<1>7. IsForwards(IF f.stack = <<>> THEN [f EXCEPT !.raised = TRUE]
                 ELSE [f EXCEPT !.stack = Front(@)])
  BY DEF IsForwards
<1>8. IsForwards(final(f))
  BY FinalIsForwards
<1> QED
  BY <1>1, <1>2, <1>3, <1>4, <1>5, <1>6, <1>7, <1>8, Zenon DEF _keyword_check

LEMMA NamespaceIsForwards ==
  ASSUME NEW f, IsForwards(f), NEW n, NEW tok
  PROVE  /\ IsForwards(_collect_namespace_keyword(f, tok))
         /\ IsForwards(_collect_ns_name(f, n, tok))
         /\ IsForwards(_collect_opening_brace(f, tok))
<1>1. IsForwards(_collect_namespace_keyword(f, tok))
  BY FinalIsForwards DEF _collect_namespace_keyword, IsForwards, ForwardModes
<1>2. IsForwards(_collect_ns_name(f, n, tok))
  <2> DEFINE q == [f EXCEPT !.previousBlock = IF f.stack = <<>> THEN n ELSE @]
             path == Append(f.stack, tok)
             named == [q EXCEPT
                !.namespaces = IF path \in DOMAIN f.namespaces THEN @ ELSE Store(@, path, f.nsType),
                !.stack = path, !.mode = "opening brace",
                !.lastNamespace = IF path \in FilteredNamespaces THEN @ ELSE n]
  <2>1. IsForwards(q)
    BY DEF IsForwards
  <2>2. IsForwards(named)
    <3> HIDE DEF q
    <3> QED
      BY <2>1 DEF IsForwards, ForwardModes
  <2>3. _collect_ns_name(f, n, tok) = IF tok = "{" THEN final(q) ELSE named
    BY DEF _collect_ns_name
  <2> HIDE DEF q, named
  <2> QED
    BY <2>1, <2>2, <2>3, FinalIsForwards
<1>3. IsForwards(_collect_opening_brace(f, tok))
  <2> DEFINE q == [f EXCEPT !.mode = "normal"]
  <2>1. IsForwards(q)
    BY DEF IsForwards, ForwardModes
  <2>2. _collect_opening_brace(f, tok) = IF tok = "{" THEN q ELSE final(q)
    BY DEF _collect_opening_brace
  <2> HIDE DEF q
  <2> QED
    BY <2>1, <2>2, FinalIsForwards
<1> QED
  BY <1>1, <1>2, <1>3

LEMMA AddForwardIsForwards ==
  ASSUME NEW f, IsForwards(f), NEW n
  PROVE  IsForwards(_add_forward(f, n))
<1> DEFINE key == [path |-> f.stack, name |-> f.name]
           redefined == IF key \in DOMAIN f.forwards THEN f.redefined \cup {n} ELSE f.redefined
<1>1. IsFiniteSet(redefined)
  BY FS_AddElement DEF IsForwards
<1>2. /\ DOMAIN _add_forward(f, n) = DOMAIN f /\ _add_forward(f, n).mode = f.mode
      /\ _add_forward(f, n).redefined = redefined
  BY DEF _add_forward, IsForwards
<1> HIDE DEF redefined
<1> QED
  BY <1>1, <1>2 DEF IsForwards

LEMMA TypeIsForwards ==
  ASSUME NEW f, IsForwards(f), NEW n, NEW tok
  PROVE  /\ IsForwards(_collect_semi_colon(f, n, tok))
         /\ IsForwards(_collect_type_name(f, tok))
         /\ IsForwards(_collect_enum(f, n, tok))
<1>1. IsForwards(_collect_semi_colon(f, n, tok))
  <2> DEFINE q == [f EXCEPT !.mode = "normal"]
  <2>1. IsForwards(q)
    BY DEF IsForwards, ForwardModes
  <2>2. _collect_semi_colon(f, n, tok) = IF tok = ";" THEN _add_forward(q, n) ELSE final(q)
    BY DEF _collect_semi_colon
  <2> HIDE DEF q
  <2> QED
    BY <2>1, <2>2, FinalIsForwards, AddForwardIsForwards
<1>2. IsForwards(_collect_type_name(f, tok))
  BY DEF _collect_type_name, IsForwards, ForwardModes
<1>3. IsForwards(_collect_enum(f, n, tok))
  <2>1. /\ IsForwards([f EXCEPT !.type = <<"enum", "class">>])
        /\ IsForwards([f EXCEPT !.name = <<tok>>])
        /\ IsForwards([f EXCEPT !.name = Append(@, tok)])
        /\ IsForwards(final(f))
    BY FinalIsForwards DEF IsForwards
  <2> QED
    BY <1>1, <2>1, Zenon DEF _collect_enum
<1> QED
  BY <1>1, <1>2, <1>3

LEMMA TokenIsForwards ==
  ASSUME NEW f, IsForwards(f), NEW n, NEW line, NEW i
  PROVE  IsForwards(Token(f, n, line, i))
<1> DEFINE tok == line.toks[i]
<1>1. IsForwards([f EXCEPT !.raised = TRUE]) /\ IsForwards([f EXCEPT !.done = "yes"])
  BY DEF IsForwards
<1>2. /\ IsForwards(_keyword_check(f, tok, RestOf(line, i)))
      /\ IsForwards(_collect_namespace_keyword(f, tok))
      /\ IsForwards(_collect_ns_name(f, n, tok))
      /\ IsForwards(_collect_opening_brace(f, tok))
      /\ IsForwards(_collect_type_name(f, tok))
      /\ IsForwards(_collect_enum(f, n, tok))
      /\ IsForwards(_collect_semi_colon(f, n, tok))
  BY KeywordIsForwards, NamespaceIsForwards, TypeIsForwards
<1>3. f.mode \in ForwardModes
  BY DEF IsForwards
<1> QED
  BY <1>1, <1>2, <1>3, Zenon DEF Token, ForwardModes

\* The tokens of a line are taken one after the other.
LEMMA TokensAreTaken ==
  ASSUME NEW f, NEW n, NEW line, Len(line.toks) \in Nat
  PROVE  /\ DOMAIN Tokens(f, n, line) = 0 .. Len(line.toks)
         /\ Tokens(f, n, line)[0] = f
         /\ \A i \in 1 .. Len(line.toks) : Tokens(f, n, line)[i] = Token(Tokens(f, n, line)[i - 1], n, line, i)
<1> DEFINE Rec(g, k) == g = [i \in 0 .. k |-> IF i = 0 THEN f ELSE Token(g[i - 1], n, line, i)]
           S == {k \in Nat : \E g : Rec(g, k)}
<1>1. 0 \in S
  <2> DEFINE g == [i \in 0 .. 0 |-> f]
  <2>1. Rec(g, 0)
    OBVIOUS
  <2> QED
    BY <2>1
<1>2. ASSUME NEW k \in Nat, k \in S PROVE k + 1 \in S
  <2>1. PICK g : Rec(g, k)
    BY <1>2
  <2> DEFINE h == [i \in 0 .. (k + 1) |-> IF i = k + 1 THEN Token(g[k], n, line, k + 1) ELSE g[i]]
  <2>2. ASSUME NEW i \in 0 .. (k + 1)
        PROVE  h[i] = IF i = 0 THEN f ELSE Token(h[i - 1], n, line, i)
    <3>1. CASE i = k + 1
      <4>1. i # 0 /\ i - 1 = k /\ i - 1 # k + 1 /\ i - 1 \in 0 .. (k + 1)
        BY <3>1
      <4>2. h[i] = Token(g[k], n, line, k + 1)
        BY <3>1
      <4>3. h[i - 1] = g[k]
        BY <4>1
      <4> HIDE DEF h
      <4> QED
        BY <3>1, <4>1, <4>2, <4>3, Zenon
    <3>2. CASE i # k + 1
      <4>1. h[i] = g[i]
        BY <3>2
      <4>2. i \in 0 .. k
        BY <3>2
      <4>3. g[i] = IF i = 0 THEN f ELSE Token(g[i - 1], n, line, i)
        BY <2>1, <4>2
      <4>4. i # 0 => h[i - 1] = g[i - 1]
        BY <4>2
      <4> QED
        BY <4>1, <4>3, <4>4
    <3> QED
      BY <3>1, <3>2
  <2>3. Rec(h, k + 1)
    <3> DEFINE b == [i \in 0 .. (k + 1) |-> IF i = 0 THEN f ELSE Token(h[i - 1], n, line, i)]
    <3>1. h = b
      <4> HIDE DEF h
      <4>1. h = [i \in 0 .. (k + 1) |-> h[i]]
        BY DEF h
      <4> QED
        BY <4>1, <2>2
    <3> QED
      BY <3>1
  <2> HIDE DEF h
  <2> QED
    BY <2>3
<1>3. Len(line.toks) \in S
  <2> HIDE DEF S
  <2> QED
    BY <1>1, <1>2, CountingUp
<1>4. Tokens(f, n, line) = CHOOSE g : Rec(g, Len(line.toks))
  BY DEF Tokens
<1>5. Rec(Tokens(f, n, line), Len(line.toks))
  <2>1. \E g : Rec(g, Len(line.toks))
    BY <1>3
  <2> HIDE DEF Rec
  <2> QED
    BY <1>4, <2>1
<1>6. DOMAIN Tokens(f, n, line) = 0 .. Len(line.toks)
  BY <1>5
<1>7. ASSUME NEW i \in 0 .. Len(line.toks)
      PROVE  Tokens(f, n, line)[i] = IF i = 0 THEN f ELSE Token(Tokens(f, n, line)[i - 1], n, line, i)
  BY <1>5
<1>8. 0 \in 0 .. Len(line.toks) /\ \A i \in 1 .. Len(line.toks) : i \in 0 .. Len(line.toks) /\ i # 0
  OBVIOUS
<1> HIDE DEF Rec
<1> QED
  BY <1>6, <1>7, <1>8

LEMMA StepIsForwards ==
  ASSUME NEW f, IsForwards(f), NEW n, NEW line, Len(line.toks) \in Nat
  PROVE  IsForwards(ForwardsStep(f, n, line))
<1> DEFINE q == [f EXCEPT !.match = IF @ = 0 THEN n ELSE @, !.collected = Append(@, TextOf(line)),
                          !.nextLineFilled =
                              IF f.lastNamespace # 0 /\ f.lastNamespace + 1 = n
                              THEN TextOf(line) # Blank ELSE @]
           S == {k \in Nat : k <= Len(line.toks) => IsForwards(Tokens(q, n, line)[k])}
<1>1. IsForwards(q)
  BY DEF IsForwards
<1>2. ForwardsStep(f, n, line) = f \/
        \E r : /\ r = Tokens(q, n, line)[Len(line.toks)]
              /\ ForwardsStep(f, n, line) = [r EXCEPT !.mode = IF @ = "skip" THEN "normal" ELSE @]
  BY DEF ForwardsStep
<1> HIDE DEF q
<1>3. /\ Tokens(q, n, line)[0] = q
      /\ \A i \in 1 .. Len(line.toks) :
           Tokens(q, n, line)[i] = Token(Tokens(q, n, line)[i - 1], n, line, i)
  BY TokensAreTaken
<1>4. 0 \in S
  BY <1>1, <1>3
<1>5. ASSUME NEW k \in Nat, k \in S PROVE k + 1 \in S
  <2> SUFFICES ASSUME k + 1 <= Len(line.toks) PROVE IsForwards(Tokens(q, n, line)[k + 1])
    OBVIOUS
  <2>1. Tokens(q, n, line)[k + 1] = Token(Tokens(q, n, line)[k], n, line, k + 1)
    <3>1. k + 1 \in 1 .. Len(line.toks) /\ (k + 1) - 1 = k
      OBVIOUS
    <3> QED
      BY <1>3, <3>1
  <2>2. IsForwards(Tokens(q, n, line)[k])
    BY <1>5
  <2> QED
    BY <2>1, <2>2, TokenIsForwards
<1>6. Len(line.toks) \in S
  <2> HIDE DEF S
  <2> QED
    BY <1>4, <1>5, CountingUp
<1>7. ASSUME NEW r, r = Tokens(q, n, line)[Len(line.toks)]
      PROVE  IsForwards([r EXCEPT !.mode = IF @ = "skip" THEN "normal" ELSE @])
  <2>1. IsForwards(r)
    BY <1>6, <1>7
  <2> QED
    BY <2>1 DEF IsForwards, ForwardModes
<1> QED
  BY <1>2, <1>7

-----------------------------------------------------------------------------
(* What is known of the lines that may have to be fixed.                   *)

IsHeader(h) ==
    /\ {"fixes"} \subseteq DOMAIN h
    /\ \E S : h.fixes \in Seq(S)

LEMMA NewIsHeader == IsHeader(NewHeader)
<1>1. NewHeader.fixes \in Seq({})
  BY DEF NewHeader
<1> QED
  BY <1>1 DEF IsHeader, NewHeader

LEMMA ListGrows ==
  ASSUME NEW s, NEW e, \E S : s \in Seq(S)
  PROVE  /\ \E S : Append(s, e) \in Seq(S)
         /\ Len(s) \in Nat /\ DOMAIN s = 1 .. Len(s)
         /\ Len(Append(s, e)) = Len(s) + 1 /\ DOMAIN Append(s, e) = 1 .. (Len(s) + 1)
         /\ \A i \in 1 .. Len(s) : Append(s, e)[i] = s[i]
         /\ Append(s, e)[Len(s) + 1] = e
<1>1. PICK S : s \in Seq(S)
  OBVIOUS
<1>2. s \in Seq(S \cup {e}) /\ e \in S \cup {e}
  BY <1>1
<1>3. Append(s, e) \in Seq(S \cup {e})
  BY <1>2
<1> QED
  BY <1>2, <1>3

LEMMA StepIsHeader ==
  ASSUME NEW h, IsHeader(h), NEW n, NEW line
  PROVE  IsHeader(HeaderStep(h, n, line))
<1> DEFINE fixes(kind) == Append(h.fixes, [kind |-> kind, line |-> n, indent |-> line.indent])
           after == HeaderStep(h, n, line)
<1>1. after.fixes \in {h.fixes, fixes("continuation"), fixes("directive")} /\ "fixes" \in DOMAIN after
  BY DEF HeaderStep, IsHeader
<1>2. ASSUME NEW e PROVE \E S : Append(h.fixes, e) \in Seq(S)
  BY ListGrows DEF IsHeader
<1> HIDE DEF after
<1>3. \E S : after.fixes \in Seq(S)
  BY <1>1, <1>2 DEF IsHeader
<1> QED
  BY <1>1, <1>3 DEF IsHeader, after

-----------------------------------------------------------------------------
(* Sums.                                                                   *)

\* One number is added after the other.
LEMMA NumbersAreAdded ==
  ASSUME NEW counts, Len(counts) \in Nat
  PROVE  /\ DOMAIN Totals(counts) = 0 .. Len(counts)
         /\ Totals(counts)[0] = 0
         /\ \A i \in 1 .. Len(counts) : Totals(counts)[i] = Totals(counts)[i - 1] + counts[i]
<1> DEFINE Rec(g, k) == g = [i \in 0 .. k |-> IF i = 0 THEN 0 ELSE g[i - 1] + counts[i]]
           S == {k \in Nat : \E g : Rec(g, k)}
<1>1. 0 \in S
  <2> DEFINE g == [i \in 0 .. 0 |-> 0]
  <2>1. Rec(g, 0)
    OBVIOUS
  <2> QED
    BY <2>1
<1>2. ASSUME NEW k \in Nat, k \in S PROVE k + 1 \in S
  <2>1. PICK g : Rec(g, k)
    BY <1>2
  <2> DEFINE h == [i \in 0 .. (k + 1) |-> IF i = k + 1 THEN g[k] + counts[k + 1] ELSE g[i]]
  <2>2. ASSUME NEW i \in 0 .. (k + 1)
        PROVE  h[i] = IF i = 0 THEN 0 ELSE h[i - 1] + counts[i]
    <3>1. CASE i = k + 1
      <4>1. i # 0 /\ i - 1 = k /\ i - 1 # k + 1 /\ i - 1 \in 0 .. (k + 1)
        BY <3>1
      <4>2. h[i] = g[k] + counts[k + 1]
        BY <3>1
      <4>3. h[i - 1] = g[k]
        BY <4>1
      <4> HIDE DEF h
      <4> QED
        BY <3>1, <4>1, <4>2, <4>3, Zenon
    <3>2. CASE i # k + 1
      <4>1. h[i] = g[i]
        BY <3>2
      <4>2. i \in 0 .. k
        BY <3>2
      <4>3. g[i] = IF i = 0 THEN 0 ELSE g[i - 1] + counts[i]
        BY <2>1, <4>2
      <4>4. i # 0 => h[i - 1] = g[i - 1]
        BY <4>2
      <4> QED
        BY <4>1, <4>3, <4>4
    <3> QED
      BY <3>1, <3>2
  <2>3. Rec(h, k + 1)
    <3> DEFINE b == [i \in 0 .. (k + 1) |-> IF i = 0 THEN 0 ELSE h[i - 1] + counts[i]]
    <3>1. h = b
      <4> HIDE DEF h
      <4>1. h = [i \in 0 .. (k + 1) |-> h[i]]
        BY DEF h
      <4> QED
        BY <4>1, <2>2
    <3> QED
      BY <3>1
  <2> HIDE DEF h
  <2> QED
    BY <2>3
<1>3. Len(counts) \in S
  <2> HIDE DEF S
  <2> QED
    BY <1>1, <1>2, CountingUp
<1>4. Totals(counts) = CHOOSE g : Rec(g, Len(counts))
  BY DEF Totals
<1>5. Rec(Totals(counts), Len(counts))
  <2>1. \E g : Rec(g, Len(counts))
    BY <1>3
  <2> HIDE DEF Rec
  <2> QED
    BY <1>4, <2>1
<1>6. DOMAIN Totals(counts) = 0 .. Len(counts)
  BY <1>5
<1>7. ASSUME NEW i \in 0 .. Len(counts)
      PROVE  Totals(counts)[i] = IF i = 0 THEN 0 ELSE Totals(counts)[i - 1] + counts[i]
  BY <1>5
<1>8. 0 \in 0 .. Len(counts) /\ \A i \in 1 .. Len(counts) : i \in 0 .. Len(counts) /\ i # 0
  OBVIOUS
<1> HIDE DEF Rec
<1> QED
  BY <1>6, <1>7, <1>8

LEMMA ListOf ==
  ASSUME NEW n \in Nat, NEW T, NEW counts \in [1 .. n -> T]
  PROVE  counts \in Seq(T) /\ Len(counts) = n
<1>1. counts \in Seq(T)
  BY SeqDef
<1>2. Len(counts) \in Nat /\ DOMAIN counts = 1 .. Len(counts)
  BY <1>1, LenProperties
<1>3. 1 .. Len(counts) = 1 .. n
  BY <1>2
<1>4. \A m \in Nat : m \in 1 .. n <=> m \in 1 .. Len(counts)
  BY <1>3
<1>5. n \in 1 .. n \/ n = 0
  OBVIOUS
<1>6. Len(counts) \in 1 .. Len(counts) \/ Len(counts) = 0
  BY <1>2
<1> QED
  BY <1>1, <1>2, <1>4, <1>5, <1>6

\* A sum of natural numbers is zero if and only if each of them is.
LEMMA SumIsZero ==
  ASSUME NEW n \in Nat, NEW counts \in [1 .. n -> Nat]
  PROVE  Total(counts) \in Nat /\ (Total(counts) = 0 <=> \A i \in 1 .. n : counts[i] = 0)
<1>1. Len(counts) = n
  BY ListOf
<1>2. /\ Totals(counts)[0] = 0
      /\ \A i \in 1 .. n : Totals(counts)[i] = Totals(counts)[i - 1] + counts[i]
  BY <1>1, NumbersAreAdded
<1> DEFINE Sum(k) == Totals(counts)[k]
           S == {k \in Nat : k <= n => /\ Sum(k) \in Nat
                                       /\ Sum(k) = 0 <=> \A i \in 1 .. k : counts[i] = 0}
<1>3. 0 \in S
  BY <1>2
<1>4. ASSUME NEW k \in Nat, k \in S PROVE k + 1 \in S
  <2> SUFFICES ASSUME k + 1 <= n
               PROVE  /\ Sum(k + 1) \in Nat
                      /\ Sum(k + 1) = 0 <=> \A i \in 1 .. (k + 1) : counts[i] = 0
    OBVIOUS
  <2>1. Sum(k + 1) = Sum(k) + counts[k + 1]
    <3>1. k + 1 \in 1 .. n /\ (k + 1) - 1 = k
      OBVIOUS
    <3> QED
      BY <1>2, <3>1
  <2>2. counts[k + 1] \in Nat
    OBVIOUS
  <2>3. Sum(k) \in Nat /\ (Sum(k) = 0 <=> \A i \in 1 .. k : counts[i] = 0)
    BY <1>4
  <2>4. \A i : i \in 1 .. (k + 1) <=> i \in 1 .. k \/ i = k + 1
    OBVIOUS
  <2> HIDE DEF Sum
  <2>5. Sum(k + 1) \in Nat /\ (Sum(k + 1) = 0 <=> Sum(k) = 0 /\ counts[k + 1] = 0)
    BY <2>1, <2>2, <2>3
  <2>6. (\A i \in 1 .. (k + 1) : counts[i] = 0)
          <=> (\A i \in 1 .. k : counts[i] = 0) /\ counts[k + 1] = 0
    BY <2>4, Zenon
  <2> QED
    BY <2>3, <2>5, <2>6
<1>5. n \in S
  <2> HIDE DEF S
  <2> QED
    BY <1>3, <1>4, CountingUp
<1> QED
  BY <1>1, <1>5 DEF Total

-----------------------------------------------------------------------------
(* What is found is finite.                                                *)

FoundInv ==
    /\ IsFiniteSet(context) /\ present \subseteq Exclusions
    /\ IsFiniteSet(validators.regionErrors)
    /\ IsForwards(forwards) /\ IsHeader(header) /\ IsParser(parser)

LEMMA InitFound ==
  ASSUME Init
  PROVE  FoundInv
<1>1. NewValidators.regionErrors = {}
  <2> DEFINE new == PerFile(FALSE)
  <2>1. "regionErrors" \in DOMAIN new /\ new.regionErrors = {}
    BY DEF PerFile
  <2>2. NewValidators = Over(new, PerRun)
    BY DEF NewValidators
  <2> HIDE DEF new
  <2>3. Over(new, PerRun)["regionErrors"] = new["regionErrors"]
    BY <2>1, OverFields
  <2> QED
    BY <2>1, <2>2, <2>3
<1> QED
  BY <1>1, FS_EmptySet, NewIsForwards, NewIsHeader, NewIsParser DEF Init, FoundInv

LEMMA ReadLineFound ==
  ASSUME WalkInv, TwinInv, FoundInv, ReadLine, ~ Abort
  PROVE  FoundInv'
<1> DEFINE n == pos + 1
           line == Lines[n]
           a == ValidatorReports(validators, n, line)
           b == HeaderReports(header, n, line)
<1>1. /\ phase = "lines" /\ pos < Len(Lines) /\ UNCHANGED <<present, parser>>
      /\ validators' = ValidatorsStep(validators, n, line)
      /\ forwards' = ForwardsStep(forwards, n, line)
      /\ header' = HeaderStep(header, n, line)
      /\ context' = context \cup Reports(a \cup b)
  BY DEF ReadLine
<1>2. IsLine(line) /\ Len(line.toks) \in Nat
  <2>1. at > 0 /\ pos \in Nat
    BY <1>1, ProjectIsList DEF WalkInv
  <2>2. IsLine(line)
    BY <1>1, <2>1, FileTypes DEF IsList
  <2> QED
    BY <2>2, LenProperties DEF IsLine, IsList
<1>3. IsFiniteSet(context')
  <2>1. IsFiniteSet(a)
    BY <1>2, LineReportsAreFinite
  <2>2. IsFiniteSet(b)
    BY WhenIsFinite DEF HeaderReports
  <2> HIDE DEF a, b
  <2>3. IsFiniteSet(Reports(a \cup b))
    BY <2>1, <2>2, FS_Union, ReportsAreFinite
  <2> QED
    BY <1>1, <2>3, FS_Union DEF FoundInv
<1>4. IsFiniteSet(validators'.regionErrors)
  <2>1. validators'.regionErrors = ErrorsAfter(validators, n, line)
    BY <1>1, RegionsRead DEF TwinInv
  <2>2. IsFiniteSet(validators.regionErrors \cup {n})
    BY FS_AddElement DEF FoundInv
  <2> QED
    BY <2>1, <2>2 DEF ErrorsAfter, FoundInv
<1>5. IsForwards(forwards') /\ IsHeader(header')
  BY <1>1, <1>2, StepIsForwards, StepIsHeader DEF FoundInv
<1> QED
  BY <1>1, <1>3, <1>4, <1>5 DEF FoundInv

LEMMA FileReadFound ==
  ASSUME FoundInv, FileRead, ~ Abort
  PROVE  FoundInv'
<1> DEFINE a == HeaderEndReports(header, pos)
           b == finalize(validators)
           c == ForwardsReports(forwards, file.skipForwards)
           d == report_indents(header)
           e == IncludeReports(file, header.includes)
           f == When(file.crossIncludes, "cross_includes", 0)
<1>1. /\ UNCHANGED <<present, validators, forwards, header>> /\ parser' = NewParser
      /\ context' = context \cup Reports(((((a \cup b) \cup c) \cup d) \cup e) \cup f)
  BY DEF FileRead, scan
<1>2. IsFiniteSet(DOMAIN header.fixes)
  <2>1. PICK S : header.fixes \in Seq(S)
    BY DEF FoundInv, IsHeader
  <2>2. Len(header.fixes) \in Nat /\ DOMAIN header.fixes = 1 .. Len(header.fixes)
    BY <2>1, LenProperties
  <2> QED
    BY <2>2, FS_Interval
<1>3. /\ IsFiniteSet(a) /\ IsFiniteSet(b) /\ IsFiniteSet(c) /\ IsFiniteSet(d) /\ IsFiniteSet(e)
      /\ IsFiniteSet(f)
  BY <1>2, EndReportsAreFinite, WhenIsFinite DEF FoundInv, IsForwards
<1> HIDE DEF a, b, c, d, e, f
<1>4. IsFiniteSet((a \cup b) \cup c)
  BY <1>3, FS_Union
<1>5. IsFiniteSet((((a \cup b) \cup c) \cup d) \cup e)
  BY <1>3, <1>4, FS_Union
<1>6. IsFiniteSet(((((a \cup b) \cup c) \cup d) \cup e) \cup f)
  BY <1>3, <1>5, FS_Union
<1>7. IsFiniteSet(context')
  BY <1>1, <1>6, ReportsAreFinite, FS_Union DEF FoundInv
<1> QED
  BY <1>1, <1>7, NewIsParser DEF FoundInv

LEMMA StepFound ==
  ASSUME WalkInv, TwinInv, FoundInv, [Next]_vars
  PROVE  FoundInv'
<1>1. ASSUME UNCHANGED <<context, present, parser, scan>> PROVE FoundInv'
  BY <1>1 DEF FoundInv, scan
<1>2. ASSUME Abort PROVE FoundInv'
  BY <1>1, <1>2 DEF Abort
<1>3. CASE NextFile
  <2>1. present' \subseteq Exclusions
    <3>1. at + 1 \in DOMAIN project
      BY <1>3, ProjectIsList DEF NextFile, WalkInv, IsList
    <3>2. IsFile(project[at + 1])
      BY <3>1, ProjectsAssumption DEF WalkInv
    <3> QED
      BY <1>3, <3>2 DEF NextFile, FoundInv, IsFile
  <2>2. UNCHANGED <<context, parser>>
    BY <1>3 DEF NextFile
  <2>3. CASE Ignored(project[at + 1])
    <3>1. UNCHANGED <<validators, forwards, header>>
      BY <1>3, <2>3 DEF NextFile, scan
    <3> QED
      BY <2>1, <2>2, <3>1 DEF FoundInv
  <2>4. CASE ~ Ignored(project[at + 1])
    <3>1. /\ validators' = reset(validators, project[at + 1].isHeader)
          /\ forwards' = NewForwards /\ header' = NewHeader
      BY <1>3, <2>4 DEF NextFile
    <3>2. IsFiniteSet(validators'.regionErrors)
      BY <3>1, ResetRegions, FS_EmptySet
    <3> QED
      BY <2>1, <2>2, <3>1, <3>2, NewIsForwards, NewIsHeader DEF FoundInv
  <2> QED
    BY <2>3, <2>4
<1>4. CASE ReadLine
  BY <1>2, <1>4, ReadLineFound
<1>5. CASE FileRead
  BY <1>2, <1>5, FileReadFound
<1>6. CASE ParseLine /\ ~ Abort
  <2> DEFINE toks == Lines[pos + 1].toks
  <2>1. /\ parser' = ParserAfter(parser, toks)[Len(toks)] /\ UNCHANGED <<context, present, scan>>
        /\ phase = "tokens" /\ pos < Len(Lines)
    BY <1>6 DEF ParseLine
  <2>2. Len(toks) \in Nat
    <3>1. at > 0 /\ pos \in Nat
      BY <2>1, ProjectIsList DEF WalkInv
    <3>2. IsLine(Lines[pos + 1])
      BY <2>1, <3>1, FileTypes DEF IsList
    <3> QED
      BY <3>2, LenProperties DEF IsLine, IsList
  <2>3. IsParser(parser')
    BY <2>1, <2>2, AfterIsParser DEF FoundInv
  <2> QED
    BY <2>1, <2>3 DEF FoundInv, scan
<1>7. CASE FileParsed /\ ~ Abort
  <2> DEFINE p == ParserEnd(parser)
             a == When("preprocessorOther" \in p.errors, "preprocessorOther", 0)
             b == When("anonNamespace" \in p.errors /\ file.isHeader, "anonNamespace", 0)
  <2>1. /\ parser' = p /\ context' = context \cup Reports(a \cup b) /\ UNCHANGED <<present, scan>>
    BY <1>7 DEF FileParsed
  <2>2. IsParser(p)
    BY EndIsParser DEF FoundInv
  <2>3. IsFiniteSet(a) /\ IsFiniteSet(b)
    BY WhenIsFinite
  <2> HIDE DEF a, b, p
  <2>4. IsFiniteSet(Reports(a \cup b))
    BY <2>3, FS_Union, ReportsAreFinite
  <2>5. IsFiniteSet(context')
    BY <2>1, <2>4, FS_Union DEF FoundInv
  <2> QED
    BY <2>1, <2>2, <2>5 DEF FoundInv, scan
<1>8. CASE (ParseLine \/ FileParsed) /\ Abort
  BY <1>2, <1>8
<1>9. CASE WalkDone
  BY <1>1, <1>2, <1>9 DEF WalkDone
<1>10. CASE PrintFormatting \/ PrintNamespaces \/ PrintTemplateErrors \/ PrintDependencies
  BY <1>1, <1>10 DEF PrintFormatting, PrintNamespaces, PrintTemplateErrors, PrintDependencies,
                     Counted
<1>11. CASE Exit
  BY <1>1, <1>11 DEF Exit
<1>12. CASE Exited \/ UNCHANGED vars
  BY <1>1, <1>12 DEF Exited, vars, scan
<1> QED
  BY <1>3, <1>4, <1>5, <1>6, <1>7, <1>8, <1>9, <1>10, <1>11, <1>12 DEF Next

-----------------------------------------------------------------------------
(* What the exit code counts.                                              *)

Parsed == {entries[i].file : i \in DOMAIN entries}

\* Every file up to the one at hand was ignored or parsed, but for one that is being read or
\* at which the run ended.
EntriesInv ==
    /\ \E S : entries \in Seq(S)
    /\ \A i \in DOMAIN entries :
         entries[i].file \in 1 .. at /\ entries[i].templateErrors \in Nat
    /\ phase \in {"lines", "tokens"} => at \notin Parsed
    /\ \A j \in 1 .. at :
         \/ Ignored(project[j]) \/ j \in Parsed
         \/ j = at /\ phase \in {"lines", "tokens", "exited"}

WrongNamespaces == Cardinality({i \in DOMAIN entries : check(entries[i]) # "SUCCESS"})

TemplateErrors == Total([i \in DOMAIN entries |-> entries[i].templateErrors])

BadIncludes ==
    IF ~options.checkDeps THEN 0
    ELSE Total([i \in DOMAIN entries |-> project[entries[i].file].badIncludes])

\* The run ended before all was read.
Unfinished == project = <<>> \/ (at > 0 /\ ~ Ignored(file) /\ at \notin Parsed)

Finished ==
    /\ at = Len(project) /\ project # <<>>
    /\ \A j \in 1 .. at : Ignored(project[j]) \/ j \in Parsed
    /\ failures = FormattingFailures + WrongNamespaces + TemplateErrors + BadIncludes
    /\ code = IF options.text THEN failures % ExitCodes ELSE 0

\* The failures are those of the parts that were printed.
CountInv ==
    /\ phase \in {"walk", "lines", "tokens", "formatting"} => failures = 0
    /\ phase = "namespaces" => failures = FormattingFailures
    /\ phase = "templates" => failures = FormattingFailures + WrongNamespaces
    /\ phase = "dependencies" => failures = FormattingFailures + WrongNamespaces + TemplateErrors
    /\ phase = "done" =>
         failures = FormattingFailures + WrongNamespaces + TemplateErrors + BadIncludes
    /\ phase = "exited" => (code = 1 /\ Unfinished) \/ Finished

\* A count is a natural number, and zero if there is nothing to count.
LEMMA FormattingCounts ==
  ASSUME FoundInv
  PROVE  /\ FormattingFailures \in Nat
         /\ FormattingFailures = 0 <=> context = {} /\ present = Exclusions
<1>1. IsFiniteSet(Exclusions) /\ IsFiniteSet(context)
  BY ProjectsAssumption DEF FoundInv
<1>2. IsFiniteSet(Exclusions \ present)
  BY <1>1, FS_Subset
<1>3. /\ Cardinality(Exclusions \ present) \in Nat /\ Cardinality(context) \in Nat
      /\ Cardinality(Exclusions \ present) = 0 <=> Exclusions \ present = {}
      /\ Cardinality(context) = 0 <=> context = {}
  BY <1>1, <1>2, FS_CardinalityType, FS_EmptySet
<1>4. Exclusions \ present = {} <=> present = Exclusions
  BY DEF FoundInv
<1> QED
  BY <1>3, <1>4 DEF FormattingFailures

LEMMA EntriesAreCounted ==
  ASSUME WalkInv, EntriesInv
  PROVE  /\ WrongNamespaces \in Nat /\ TemplateErrors \in Nat /\ BadIncludes \in Nat
         /\ WrongNamespaces = 0 <=> \A i \in DOMAIN entries : check(entries[i]) = "SUCCESS"
         /\ TemplateErrors = 0 <=> \A i \in DOMAIN entries : entries[i].templateErrors = 0
         /\ BadIncludes = 0 <=>
              (options.checkDeps =>
                 \A i \in DOMAIN entries : project[entries[i].file].badIncludes = 0)
<1> DEFINE n == Len(entries)
<1>1. n \in Nat /\ DOMAIN entries = 1 .. n
  <2>1. PICK S : entries \in Seq(S)
    BY DEF EntriesInv
  <2> QED
    BY <2>1, LenProperties
<1> HIDE DEF n
<1>2. /\ WrongNamespaces \in Nat
      /\ WrongNamespaces = 0 <=> \A i \in DOMAIN entries : check(entries[i]) = "SUCCESS"
  <2> DEFINE wrong == {i \in DOMAIN entries : check(entries[i]) # "SUCCESS"}
  <2>1. IsFiniteSet(wrong)
    BY <1>1, FS_Interval, FS_Subset
  <2>2. wrong = {} <=> \A i \in DOMAIN entries : check(entries[i]) = "SUCCESS"
    OBVIOUS
  <2>3. WrongNamespaces = Cardinality(wrong)
    BY DEF WrongNamespaces
  <2> HIDE DEF wrong
  <2> QED
    BY <2>1, <2>2, <2>3, FS_CardinalityType, FS_EmptySet
<1>3. /\ TemplateErrors \in Nat
      /\ TemplateErrors = 0 <=> \A i \in DOMAIN entries : entries[i].templateErrors = 0
  <2> DEFINE counts == [i \in DOMAIN entries |-> entries[i].templateErrors]
  <2>1. counts \in [1 .. n -> Nat] /\ \A i \in 1 .. n : counts[i] = entries[i].templateErrors
    BY <1>1 DEF EntriesInv
  <2>2. TemplateErrors = Total(counts)
    BY DEF TemplateErrors
  <2> HIDE DEF counts
  <2>3. Total(counts) \in Nat /\ (Total(counts) = 0 <=> \A i \in 1 .. n : counts[i] = 0)
    BY <1>1, <2>1, SumIsZero
  <2> QED
    BY <1>1, <2>1, <2>2, <2>3
<1>4. /\ BadIncludes \in Nat
      /\ BadIncludes = 0 <=>
           (options.checkDeps =>
              \A i \in DOMAIN entries : project[entries[i].file].badIncludes = 0)
  <2> DEFINE counts == [i \in DOMAIN entries |-> project[entries[i].file].badIncludes]
  <2>1. ASSUME NEW i \in 1 .. n PROVE project[entries[i].file].badIncludes \in Nat
    <3>1. entries[i].file \in 1 .. at
      BY <1>1 DEF EntriesInv
    <3>2. entries[i].file \in DOMAIN project
      BY <3>1, ProjectIsList DEF WalkInv, IsList
    <3> QED
      BY <3>2, ProjectsAssumption DEF WalkInv, IsFile
  <2>2. /\ counts \in [1 .. n -> Nat]
        /\ \A i \in 1 .. n : counts[i] = project[entries[i].file].badIncludes
    BY <1>1, <2>1
  <2>3. BadIncludes = IF ~options.checkDeps THEN 0 ELSE Total(counts)
    BY DEF BadIncludes
  <2> HIDE DEF counts
  <2>4. Total(counts) \in Nat /\ (Total(counts) = 0 <=> \A i \in 1 .. n : counts[i] = 0)
    BY <1>1, <2>2, SumIsZero
  <2> QED
    BY <1>1, <2>2, <2>3, <2>4
<1> QED
  BY <1>2, <1>3, <1>4

\* They change with what they count only.
LEMMA CountsStay ==
  ASSUME UNCHANGED <<options, project, at, context, present, entries>>
  PROVE  /\ FormattingFailures' = FormattingFailures /\ WrongNamespaces' = WrongNamespaces
         /\ TemplateErrors' = TemplateErrors /\ BadIncludes' = BadIncludes
         /\ Parsed' = Parsed /\ (Unfinished' <=> Unfinished)
<1>1. FormattingFailures' = FormattingFailures
  BY DEF FormattingFailures
<1>2. WrongNamespaces' = WrongNamespaces
  <2>1. \A i : check(entries[i])' = check(entries[i])
    BY DEF check
  <2>2. {i \in DOMAIN entries : check(entries[i]) # "SUCCESS"}'
          = {i \in DOMAIN entries : check(entries[i]) # "SUCCESS"}
    BY <2>1
  <2> QED
    BY <2>2 DEF WrongNamespaces
<1>3. TemplateErrors' = TemplateErrors
  <2>1. [i \in DOMAIN entries |-> entries[i].templateErrors]'
          = [i \in DOMAIN entries |-> entries[i].templateErrors]
    OBVIOUS
  <2> QED
    BY <2>1 DEF TemplateErrors
<1>4. BadIncludes' = BadIncludes
  <2>1. [i \in DOMAIN entries |-> project[entries[i].file].badIncludes]'
          = [i \in DOMAIN entries |-> project[entries[i].file].badIncludes]
    OBVIOUS
  <2> QED
    BY <2>1 DEF BadIncludes
<1>5. Parsed' = Parsed
  BY DEF Parsed
<1>6. Unfinished' <=> Unfinished
  BY <1>5 DEF Unfinished, Ignored, file
<1> QED
  BY <1>1, <1>2, <1>3, <1>4, <1>5, <1>6

\* What the code tells, once it is known what was counted.
LEMMA CountedIsTold ==
  ASSUME WalkInv, FoundInv, EntriesInv, CountInv
  PROVE  ExitTellsTheVerdict
<1> DEFINE clean == /\ project # <<>>
                    /\ \A i \in DOMAIN project : Ignored(project[i]) \/ i \in Parsed
                    /\ context = {} /\ present = Exclusions
                    /\ \A i \in DOMAIN entries :
                         /\ check(entries[i]) = "SUCCESS" /\ entries[i].templateErrors = 0
                         /\ options.checkDeps => project[entries[i].file].badIncludes = 0
<1> SUFFICES ASSUME phase = "exited", options.text, failures < ExitCodes PROVE code = 0 <=> clean
  BY DEF ExitTellsTheVerdict, Parsed
<1>0. DOMAIN project = 1 .. Len(project) /\ Len(project) \in Nat /\ at \in 0 .. Len(project)
  BY ProjectIsList DEF IsList, WalkInv
<1>1. CASE code = 1 /\ Unfinished
  <2>1. ~ clean
    BY <1>0, <1>1 DEF Unfinished, file
  <2> QED
    BY <1>1, <2>1
<1>2. CASE Finished
  <2>1. failures = FormattingFailures + WrongNamespaces + TemplateErrors + BadIncludes
    BY <1>2 DEF Finished
  <2>2. /\ FormattingFailures \in Nat /\ WrongNamespaces \in Nat /\ TemplateErrors \in Nat
        /\ BadIncludes \in Nat
    BY FormattingCounts, EntriesAreCounted
  <2>3. failures \in Nat
    BY <2>1, <2>2
  <2>4. failures = 0 <=> /\ FormattingFailures = 0 /\ WrongNamespaces = 0
                         /\ TemplateErrors = 0 /\ BadIncludes = 0
    BY <2>1, <2>2
  <2>5. code = 0 <=> failures = 0
    <3>1. code = failures % ExitCodes /\ ExitCodes \in Nat
      BY <1>2, ProjectsAssumption DEF Finished
    <3>2. failures % ExitCodes = failures
      BY <2>3, <3>1
    <3> QED
      BY <3>1, <3>2
  <2>6. project # <<>> /\ \A i \in DOMAIN project : Ignored(project[i]) \/ i \in Parsed
    BY <1>0, <1>2 DEF Finished
  <2>7. FormattingFailures = 0 <=> context = {} /\ present = Exclusions
    BY FormattingCounts
  <2>8. /\ WrongNamespaces = 0 <=> \A i \in DOMAIN entries : check(entries[i]) = "SUCCESS"
        /\ TemplateErrors = 0 <=> \A i \in DOMAIN entries : entries[i].templateErrors = 0
        /\ BadIncludes = 0 <=>
             (options.checkDeps =>
                \A i \in DOMAIN entries : project[entries[i].file].badIncludes = 0)
    BY EntriesAreCounted
  <2> QED
    BY <2>4, <2>5, <2>6, <2>7, <2>8
<1> QED
  BY <1>1, <1>2 DEF CountInv

LEMMA InitCounts ==
  ASSUME Init
  PROVE  EntriesInv /\ CountInv
<1>1. entries = <<>> /\ at = 0 /\ phase = "walk" /\ failures = 0
  BY DEF Init
<1>2. entries \in Seq({})
  BY <1>1
<1> QED
  BY <1>1, <1>2 DEF EntriesInv, CountInv, Parsed

\* The run ends early, at a file that is not ignored, or without any.
LEMMA AbortCounts ==
  ASSUME WalkInv, EntriesInv, Abort, phase \in {"lines", "tokens"} \/ project = <<>>
  PROVE  EntriesInv' /\ CountInv'
<1>1. UNCHANGED <<options, project, at, context, present, entries>> /\ phase' = "exited" /\ code' = 1
  BY DEF Abort
<1>2. Unfinished
  <2>1. CASE phase \in {"lines", "tokens"}
    BY <2>1 DEF Unfinished, WalkInv, EntriesInv
  <2>2. CASE project = <<>>
    BY <2>2, Zenon DEF Unfinished
  <2> QED
    BY <2>1, <2>2
<1>3. Unfinished' /\ Parsed' = Parsed
  BY <1>1, <1>2, CountsStay
<1>4. EntriesInv'
  BY <1>1, <1>3 DEF EntriesInv, Ignored
<1> QED
  BY <1>1, <1>3, <1>4 DEF CountInv

\* A file is begun, or passed over.
LEMMA NextFileCounts ==
  ASSUME WalkInv, EntriesInv, CountInv, NextFile
  PROVE  EntriesInv' /\ CountInv'
<1>1. /\ phase = "walk" /\ at' = at + 1 /\ at \in Nat
      /\ UNCHANGED <<options, project, entries, failures>>
  BY ProjectIsList DEF NextFile, WalkInv
<1>2. Parsed' = Parsed
  BY <1>1 DEF Parsed
<1>3. \A i \in DOMAIN entries : entries[i].file \in 1 .. at /\ entries[i].file \in 1 .. at'
  BY <1>1 DEF EntriesInv
<1>4. at' \notin Parsed
  BY <1>1, <1>3 DEF Parsed
<1>5. \A j : Ignored(project[j])' = Ignored(project[j])
  BY <1>1 DEF Ignored
<1>6. \A j \in 1 .. at : Ignored(project[j]) \/ j \in Parsed
  BY <1>1 DEF EntriesInv
<1>7. \A j \in 1 .. at' : j \in 1 .. at \/ j = at'
  BY <1>1
<1>8. CASE Ignored(project[at + 1])
  <2>1. phase' = "walk"
    BY <1>1, <1>8 DEF NextFile
  <2>2. \A j \in 1 .. at' : Ignored(project[j])' \/ j \in Parsed'
    BY <1>1, <1>2, <1>6, <1>7, <1>8 DEF Ignored
  <2> QED
    BY <1>1, <1>2, <1>3, <2>1, <2>2 DEF EntriesInv, CountInv
<1>9. CASE ~ Ignored(project[at + 1])
  <2>1. phase' = "lines"
    BY <1>9 DEF NextFile
  <2>2. \A j \in 1 .. at' : Ignored(project[j])' \/ j \in Parsed' \/ j = at'
    BY <1>1, <1>2, <1>6, <1>7 DEF Ignored
  <2> QED
    BY <1>1, <1>2, <1>3, <1>4, <2>1, <2>2 DEF EntriesInv, CountInv
<1> QED
  BY <1>8, <1>9

\* A file was parsed.
LEMMA FileParsedCounts ==
  ASSUME WalkInv, FoundInv, EntriesInv, CountInv, FileParsed, ~ Abort
  PROVE  EntriesInv' /\ CountInv'
<1>1. /\ phase = "tokens" /\ phase' = "walk" /\ UNCHANGED <<options, project, at, failures>>
  BY DEF FileParsed
<1>2. PICK candidates :
        entries' = Append(entries, [file |-> at, namespaces |-> candidates,
                                    templateErrors |-> ParserEnd(parser).templateErrors])
  BY DEF FileParsed
<1> DEFINE entry == [file |-> at, namespaces |-> candidates,
                     templateErrors |-> ParserEnd(parser).templateErrors]
<1>3. entry.file = at /\ entry.templateErrors \in Nat
  BY EndIsParser DEF FoundInv, IsParser
<1>4. entries' = Append(entries, entry)
  BY <1>2
<1>5. at \in Nat /\ at > 0
  BY <1>1, ProjectIsList DEF WalkInv
<1> HIDE DEF entry
<1>6. /\ \E S : entries' \in Seq(S)
      /\ Len(entries) \in Nat /\ DOMAIN entries = 1 .. Len(entries)
      /\ DOMAIN entries' = 1 .. (Len(entries) + 1)
      /\ \A i \in 1 .. Len(entries) : entries'[i] = entries[i]
      /\ entries'[Len(entries) + 1] = entry
  <2>1. \E S : entries \in Seq(S)
    BY DEF EntriesInv
  <2> QED
    <3> DEFINE grown == Append(entries, entry)
    <3>1. /\ \E S : grown \in Seq(S)
          /\ Len(entries) \in Nat /\ DOMAIN entries = 1 .. Len(entries)
          /\ Len(grown) = Len(entries) + 1 /\ DOMAIN grown = 1 .. (Len(entries) + 1)
          /\ \A i \in 1 .. Len(entries) : grown[i] = entries[i]
          /\ grown[Len(entries) + 1] = entry
      BY <2>1, ListGrows
    <3>2. entries' = grown
      BY <1>4
    <3> HIDE DEF grown
    <3> QED
      BY <3>1, <3>2
<1>7. \A i \in DOMAIN entries' : entries'[i].file \in 1 .. at /\ entries'[i].templateErrors \in Nat
  <2> SUFFICES ASSUME NEW i \in DOMAIN entries'
               PROVE  entries'[i].file \in 1 .. at /\ entries'[i].templateErrors \in Nat
    OBVIOUS
  <2>1. CASE i \in 1 .. Len(entries)
    BY <1>6, <2>1 DEF EntriesInv
  <2>2. CASE i = Len(entries) + 1
    BY <1>3, <1>5, <1>6, <2>2
  <2> QED
    BY <1>6, <2>1, <2>2
<1>8. \A j : j \in Parsed \/ j = at => j \in Parsed'
  <2>1. ASSUME NEW j \in Parsed PROVE j \in Parsed'
    <3>1. PICK i \in DOMAIN entries : j = entries[i].file
      BY <2>1 DEF Parsed
    <3>2. i \in DOMAIN entries' /\ entries'[i].file = j
      BY <1>6, <3>1
    <3> QED
      BY <3>2 DEF Parsed
  <2>2. at \in Parsed'
    <3>1. Len(entries) + 1 \in DOMAIN entries' /\ entries'[Len(entries) + 1].file = at
      BY <1>3, <1>6
    <3> QED
      BY <3>1 DEF Parsed
  <2> QED
    BY <2>1, <2>2
<1>9. \A j \in 1 .. at' : Ignored(project[j])' \/ j \in Parsed'
  BY <1>1, <1>8 DEF EntriesInv, Ignored
<1> QED
  BY <1>1, <1>6, <1>7, <1>9 DEF EntriesInv, CountInv

\* A part is printed, or the run ends.
LEMMA PrintCounts ==
  ASSUME WalkInv, FoundInv, EntriesInv, CountInv,
         PrintFormatting \/ PrintNamespaces \/ PrintTemplateErrors \/ PrintDependencies \/ Exit
  PROVE  EntriesInv' /\ CountInv'
<1>1. /\ UNCHANGED <<options, project, at, context, present, entries>>
      /\ phase \in {"formatting", "namespaces", "templates", "dependencies", "done"}
      /\ phase' \in {"namespaces", "templates", "dependencies", "done", "exited"}
  BY DEF PrintFormatting, PrintNamespaces, PrintTemplateErrors, PrintDependencies, Counted, Exit
<1>2. /\ FormattingFailures' = FormattingFailures /\ WrongNamespaces' = WrongNamespaces
      /\ TemplateErrors' = TemplateErrors /\ BadIncludes' = BadIncludes /\ Parsed' = Parsed
  BY <1>1, CountsStay
<1>3. EntriesInv'
  BY <1>1, <1>2 DEF EntriesInv, Ignored
<1>4. /\ FormattingFailures \in Nat /\ WrongNamespaces \in Nat /\ TemplateErrors \in Nat
      /\ BadIncludes \in Nat
  BY FormattingCounts, EntriesAreCounted
<1>5. CASE PrintFormatting
  <2>1. phase = "formatting" /\ phase' = "namespaces" /\ failures' = failures + FormattingFailures
    BY <1>5 DEF PrintFormatting, Counted
  <2> QED
    BY <1>2, <1>3, <1>4, <2>1 DEF CountInv
<1>6. CASE PrintNamespaces
  <2>1. phase = "namespaces" /\ phase' = "templates" /\ failures' = failures + WrongNamespaces
    BY <1>6 DEF PrintNamespaces, Counted, WrongNamespaces
  <2> QED
    BY <1>2, <1>3, <2>1 DEF CountInv
<1>7. CASE PrintTemplateErrors
  <2>1. phase = "templates" /\ phase' = "dependencies" /\ failures' = failures + TemplateErrors
    BY <1>7 DEF PrintTemplateErrors, Counted, TemplateErrors
  <2> QED
    BY <1>2, <1>3, <2>1 DEF CountInv
<1>8. CASE PrintDependencies
  <2>1. phase = "dependencies" /\ phase' = "done" /\ failures' = failures + BadIncludes
    BY <1>8 DEF PrintDependencies, Counted, BadIncludes
  <2> QED
    BY <1>2, <1>3, <2>1 DEF CountInv
<1>9. CASE Exit
  <2>1. /\ phase = "done" /\ phase' = "exited" /\ failures' = failures
        /\ code' = IF options.text THEN failures % ExitCodes ELSE 0
    BY <1>9 DEF Exit
  <2>2. at = Len(project) /\ project # <<>>
    BY <2>1 DEF WalkInv
  <2>3. \A j \in 1 .. at' : Ignored(project[j])' \/ j \in Parsed'
    BY <1>1, <1>2, <2>1 DEF EntriesInv, Ignored
  <2>4. Finished'
    BY <1>1, <1>2, <2>1, <2>2, <2>3 DEF Finished, CountInv
  <2> QED
    BY <1>3, <2>1, <2>4 DEF CountInv
<1> QED
  BY <1>5, <1>6, <1>7, <1>8, <1>9

LEMMA StepCounts ==
  ASSUME WalkInv, FoundInv, EntriesInv, CountInv, [Next]_vars
  PROVE  EntriesInv' /\ CountInv'
<1>1. ASSUME UNCHANGED <<options, project, at, entries, failures>>,
             phase \in {"lines", "tokens"}, phase' \in {"lines", "tokens"}
      PROVE  EntriesInv' /\ CountInv'
  <2>1. Parsed' = Parsed
    BY <1>1 DEF Parsed
  <2>2. EntriesInv'
    BY <1>1, <2>1 DEF EntriesInv, Ignored
  <2> QED
    BY <1>1, <2>2 DEF CountInv
<1>2. CASE NextFile
  BY <1>2, NextFileCounts
<1>3. CASE ReadLine
  <2>1. phase \in {"lines", "tokens"}
    BY <1>3 DEF ReadLine
  <2>2. CASE Abort
    BY <2>1, <2>2, AbortCounts, Zenon
  <2>3. CASE ~ Abort
    <3>1. UNCHANGED <<options, project, at, entries, failures>> /\ phase' \in {"lines", "tokens"}
      BY <1>3, <2>3 DEF ReadLine
    <3> QED
      BY <1>1, <2>1, <3>1
  <2> QED
    BY <2>2, <2>3
<1>4. CASE FileRead
  <2>1. phase \in {"lines", "tokens"}
    BY <1>4 DEF FileRead
  <2>2. CASE Abort
    BY <2>1, <2>2, AbortCounts, Zenon
  <2>3. CASE ~ Abort
    <3>1. UNCHANGED <<options, project, at, entries, failures>> /\ phase' \in {"lines", "tokens"}
      BY <1>4, <2>3 DEF FileRead
    <3> QED
      BY <1>1, <2>1, <3>1
  <2> QED
    BY <2>2, <2>3
<1>5. CASE ParseLine
  <2>1. phase \in {"lines", "tokens"}
    BY <1>5 DEF ParseLine
  <2>2. CASE Abort
    BY <2>1, <2>2, AbortCounts, Zenon
  <2>3. CASE ~ Abort
    <3>1. UNCHANGED <<options, project, at, entries, failures>> /\ phase' \in {"lines", "tokens"}
      BY <1>5, <2>3 DEF ParseLine
    <3> QED
      BY <1>1, <2>1, <3>1
  <2> QED
    BY <2>2, <2>3
<1>6. CASE FileParsed
  <2>1. phase \in {"lines", "tokens"}
    BY <1>6 DEF FileParsed
  <2>2. CASE Abort
    BY <2>1, <2>2, AbortCounts, Zenon
  <2>3. CASE ~ Abort
    BY <1>6, <2>3, FileParsedCounts
  <2> QED
    BY <2>2, <2>3
<1>7. CASE WalkDone
  <2>1. CASE project = <<>>
    BY <1>7, <2>1, AbortCounts DEF WalkDone
  <2>2. CASE project # <<>>
    <3>1. /\ phase = "walk" /\ phase' = "formatting"
          /\ UNCHANGED <<options, project, at, entries, failures>>
      BY <1>7, <2>2 DEF WalkDone
    <3>2. Parsed' = Parsed
      BY <3>1 DEF Parsed
    <3>3. EntriesInv'
      BY <3>1, <3>2 DEF EntriesInv, Ignored
    <3> QED
      BY <3>1, <3>3 DEF CountInv
  <2> QED
    BY <2>1, <2>2
<1>8. CASE PrintFormatting \/ PrintNamespaces \/ PrintTemplateErrors \/ PrintDependencies \/ Exit
  BY <1>8, PrintCounts
<1>9. CASE Exited \/ UNCHANGED vars
  <2>1. UNCHANGED <<options, project, phase, at, context, present, entries, failures, code>>
    BY <1>9 DEF Exited, vars
  <2>2. /\ FormattingFailures' = FormattingFailures /\ WrongNamespaces' = WrongNamespaces
        /\ TemplateErrors' = TemplateErrors /\ BadIncludes' = BadIncludes
        /\ Parsed' = Parsed /\ (Unfinished' <=> Unfinished)
    BY <2>1, CountsStay
  <2>3. EntriesInv'
    BY <2>1, <2>2 DEF EntriesInv, Ignored
  <2>4. Finished' <=> Finished
    BY <2>1, <2>2 DEF Finished, Ignored
  <2> QED
    BY <2>1, <2>2, <2>3, <2>4 DEF CountInv
<1> QED
  BY <1>2, <1>3, <1>4, <1>5, <1>6, <1>7, <1>8, <1>9 DEF Next

\* In text mode, and below as many failures as there are exit codes, the exit code is 0 if
\* and only if every file that was not to be skipped was parsed and nothing was found
\* (checkProjectStructure.py:875-918), for all projects.
THEOREM ExitCodeTellsTheVerdict == Spec => []ExitTellsTheVerdict
<1> DEFINE Inv == /\ WalkInv /\ TwinInv /\ CarryOverReachesOneLine
                  /\ FoundInv /\ EntriesInv /\ CountInv
<1>1. Init => Inv
  BY InitWalk, InitTwin, InitFound, InitCounts
<1>2. Inv /\ [Next]_vars => Inv'
  BY StepWalk, StepTwin, StepFound, StepCounts
<1>3. Inv => ExitTellsTheVerdict
  BY CountedIsTold
<1> QED
  BY <1>1, <1>2, <1>3, PTL DEF Spec

-----------------------------------------------------------------------------
(* Sorting.                                                                *)

IsOrder(S) ==
    /\ \A a \in S : ~ __lt__(a, a)
    /\ \A a, b \in S : a = b \/ __lt__(a, b) \/ __lt__(b, a)
    /\ \A a, b, c \in S : __lt__(a, b) /\ __lt__(b, c) => __lt__(a, c)

IsRising(s) == \A i, j \in 1 .. Len(s) : i < j => ~ __lt__(s[j], s[i])

\* The same elements, each as often, in another order.
Rearranges(s, t) ==
    /\ Len(s) = Len(t)
    /\ \E q \in Bijection(1 .. Len(t), 1 .. Len(t)) : \A i \in 1 .. Len(t) : s[i] = t[q[i]]

LEMMA LeastNumber ==
  ASSUME NEW T, T \subseteq Nat, T # {}
  PROVE  Min(T) \in T /\ \A t \in T : Min(T) <= t
<1>1. PICK n \in T : \A m \in T : <<m, n>> \notin Before
  BY NumbersAreOrdered, WFMin, Zenon
<1>2. ASSUME NEW m \in T PROVE n <= m
  <2>1. n \in Nat /\ m \in Nat /\ ~ (m < n)
    BY <1>1 DEF Before
  <2> QED
    BY <2>1
<1>3. \E x \in T : \A y \in T : x <= y
  BY <1>2
<1> QED
  BY <1>3 DEF Min

\* A list with one element more.
HasAt(r, s, x, place) ==
    \A i \in 1 .. (Len(s) + 1) :
       /\ i < place => r[i] = s[i]
       /\ i = place => r[i] = x
       /\ i > place => r[i] = s[i - 1]

HasInserted(r, s, x) == \E place \in 1 .. (Len(s) + 1) : HasAt(r, s, x, place)

LEMMA InsertAtProperties ==
  ASSUME NEW S, NEW s \in Seq(S), NEW x \in S, NEW place \in 1 .. (Len(s) + 1)
  PROVE  /\ InsertAt(s, place, x) \in Seq(S) /\ Len(InsertAt(s, place, x)) = Len(s) + 1
         /\ HasAt(InsertAt(s, place, x), s, x, place)
<1> DEFINE p == SubSeq(s, 1, place - 1)
           q == SubSeq(s, place, Len(s))
           m == p \o <<x>>
<1>0. Len(s) \in Nat /\ place \in Int /\ \A i \in 1 .. Len(s) : s[i] \in S
  OBVIOUS
<1>1. p \in Seq(S) /\ Len(p) = place - 1 /\ \A i \in 1 .. (place - 1) : p[i] = s[i]
  <2>1. \A i \in 1 .. (place - 1) : s[i] \in S
    BY <1>0
  <2> QED
    BY <1>0, <2>1, SubSeqProperties
<1>2. q \in Seq(S) /\ Len(q) = Len(s) - place + 1 /\ \A i \in 1 .. (Len(s) - place + 1) : q[i] = s[place + i - 1]
  <2>1. \A i \in place .. Len(s) : s[i] \in S
    BY <1>0
  <2> QED
    BY <1>0, <2>1, SubSeqProperties
<1> HIDE DEF p, q
<1>3. <<x>> \in Seq(S) /\ Len(<<x>>) = 1 /\ <<x>>[1] = x
  OBVIOUS
<1>4. m \in Seq(S) /\ Len(m) = place /\ \A i \in 1 .. place : m[i] = IF i < place THEN s[i] ELSE x
  <2>1. /\ m \in Seq(S) /\ Len(m) = place
        /\ \A i \in 1 .. place : m[i] = IF i <= Len(p) THEN p[i] ELSE <<x>>[i - Len(p)]
    BY <1>1, <1>3, ConcatProperties
  <2> QED
    BY <2>1, <1>1, <1>3
<1> HIDE DEF m
<1>5. /\ m \o q \in Seq(S) /\ Len(m \o q) = Len(s) + 1
      /\ \A i \in 1 .. (Len(s) + 1) : (m \o q)[i] = IF i <= place THEN m[i] ELSE q[i - place]
  <2>1. /\ m \o q \in Seq(S) /\ Len(m \o q) = Len(m) + Len(q)
        /\ \A i \in 1 .. Len(m) + Len(q) :
             (m \o q)[i] = IF i <= Len(m) THEN m[i] ELSE q[i - Len(m)]
    BY <1>2, <1>4, ConcatProperties
  <2>2. Len(m) = place /\ Len(m) + Len(q) = Len(s) + 1
    BY <1>0, <1>2, <1>4
  <2> QED
    BY <2>1, <2>2
<1>6. InsertAt(s, place, x) = m \o q
  BY DEF InsertAt, m, p, q
<1>7. ASSUME NEW i \in 1 .. (Len(s) + 1)
      PROVE  /\ i < place => (m \o q)[i] = s[i]
             /\ i = place => (m \o q)[i] = x
             /\ i > place => (m \o q)[i] = s[i - 1]
  <2>0. i \in Int /\ (i <= place \/ i > place)
    BY <1>0
  <2>1. CASE i <= place
    BY <2>1, <1>4, <1>5
  <2>2. CASE i > place
    <3>1. i - place \in 1 .. (Len(s) - place + 1) /\ place + (i - place) - 1 = i - 1
      BY <2>2, <1>0
    <3>2. (m \o q)[i] = q[i - place]
      BY <2>2, <1>0, <1>5
    <3>3. q[i - place] = s[place + (i - place) - 1]
      BY <3>1, <1>2
    <3> QED
      BY <2>2, <3>1, <3>2, <3>3, <1>0
  <2> QED
    BY <2>0, <2>1, <2>2
<1> QED
  BY <1>5, <1>6, <1>7 DEF HasAt

\* An element is inserted where a list in order stays in order.
LEMMA InsertedRises ==
  ASSUME NEW S, IsOrder(S), NEW s \in Seq(S), NEW x \in S, IsRising(s)
  PROVE  /\ Inserted(s, x) \in Seq(S) /\ Len(Inserted(s, x)) = Len(s) + 1
         /\ IsRising(Inserted(s, x)) /\ HasInserted(Inserted(s, x), s, x)
<1> DEFINE behind == {i \in DOMAIN s : __lt__(x, s[i])}
           found == IF behind = {} THEN Len(s) + 1 ELSE Min(behind)
           r == Inserted(s, x)
<1>0. DOMAIN s = 1 .. Len(s) /\ Len(s) \in Nat /\ \A i \in 1 .. Len(s) : s[i] \in S
  OBVIOUS
<1>1. /\ found \in 1 .. (Len(s) + 1) /\ (found <= Len(s) => __lt__(x, s[found]))
      /\ \A i \in 1 .. Len(s) : i < found => ~ __lt__(x, s[i])
  <2>1. CASE behind = {}
    BY <2>1, <1>0
  <2>2. CASE behind # {}
    <3>1. behind \subseteq Nat
      BY <1>0
    <3>2. Min(behind) \in behind /\ \A i \in behind : Min(behind) <= i
      <4> HIDE DEF behind
      <4> QED
        BY <2>2, <3>1, LeastNumber
    <3>3. found = Min(behind) /\ found \in 1 .. Len(s) /\ __lt__(x, s[found])
      BY <2>2, <3>2, <1>0
    <3>4. ASSUME NEW i \in 1 .. Len(s), i < found PROVE ~ __lt__(x, s[i])
      <4>1. i \notin behind
        <5> HIDE DEF behind, found
        <5> QED
          BY <3>2, <3>3, <3>4
      <4> QED
        BY <4>1, <1>0
    <3> HIDE DEF found
    <3> QED
      BY <3>3, <3>4
  <2> QED
    BY <2>1, <2>2
<1>2. Inserted(s, x) = InsertAt(s, found, x)
  BY DEF Inserted
<1> HIDE DEF found, behind, r
<1>3. PICK place \in 1 .. (Len(s) + 1) :
           /\ Inserted(s, x) = InsertAt(s, place, x) /\ (place <= Len(s) => __lt__(x, s[place]))
           /\ \A i \in 1 .. Len(s) : i < place => ~ __lt__(x, s[i])
  BY <1>1, <1>2
<1>4. /\ r \in Seq(S) /\ Len(r) = Len(s) + 1
      /\ \A i \in 1 .. (Len(s) + 1) :
           /\ i < place => r[i] = s[i]
           /\ i = place => r[i] = x
           /\ i > place => r[i] = s[i - 1]
  <2>1. r \in Seq(S) /\ Len(r) = Len(s) + 1 /\ HasAt(r, s, x, place)
    BY <1>3, InsertAtProperties DEF r
  <2> QED
    BY <2>1 DEF HasAt
<1>5. ASSUME NEW i \in 1 .. (Len(s) + 1), NEW j \in 1 .. (Len(s) + 1), i < j, __lt__(r[j], r[i])
      PROVE  FALSE
  <2>0. \A k, l \in 1 .. Len(s) : k < l => ~ __lt__(s[l], s[k])
    BY DEF IsRising
  <2>1. CASE j < place
    <3>1. r[i] = s[i] /\ r[j] = s[j] /\ i \in 1 .. Len(s) /\ j \in 1 .. Len(s)
      BY <1>3, <1>4, <1>5, <2>1
    <3> QED
      BY <3>1, <2>0, <1>5
  <2>2. CASE j = place
    <3>1. r[i] = s[i] /\ r[j] = x /\ i \in 1 .. Len(s)
      BY <1>3, <1>4, <1>5, <2>2
    <3> QED
      BY <3>1, <1>3, <1>5, <2>2
  <2>3. CASE j > place /\ i > place
    <3>1. r[i] = s[i - 1] /\ r[j] = s[j - 1] /\ i - 1 \in 1 .. Len(s) /\ j - 1 \in 1 .. Len(s)
          /\ i - 1 < j - 1
      BY <1>3, <1>4, <1>5, <2>3
    <3> QED
      BY <3>1, <2>0, <1>5
  <2>4. CASE j > place /\ i < place
    <3>1. r[i] = s[i] /\ r[j] = s[j - 1] /\ i \in 1 .. Len(s) /\ j - 1 \in 1 .. Len(s) /\ i < j - 1
      BY <1>3, <1>4, <1>5, <2>4
    <3> QED
      BY <3>1, <2>0, <1>5
  <2>5. CASE j > place /\ i = place
    <3>1. r[i] = x /\ r[j] = s[j - 1] /\ j - 1 \in 1 .. Len(s) /\ place <= j - 1 /\ place \in 1 .. Len(s)
      BY <1>3, <1>4, <1>5, <2>5
    <3>2. __lt__(s[j - 1], x) /\ __lt__(x, s[place]) /\ s[place] \in S /\ s[j - 1] \in S
      BY <3>1, <1>0, <1>3, <1>5
    <3>3. __lt__(s[j - 1], s[place])
      BY <3>2 DEF IsOrder
    <3>4. CASE place = j - 1
      BY <3>2, <3>3, <3>4 DEF IsOrder
    <3>5. CASE place < j - 1
      BY <3>1, <3>3, <3>5, <2>0
    <3> QED
      BY <3>1, <3>4, <3>5, <1>3
  <2> QED
    BY <2>1, <2>2, <2>3, <2>4, <2>5, <1>3
<1>6. IsRising(r)
  BY <1>4, <1>5 DEF IsRising
<1>7. HasInserted(r, s, x)
  BY <1>4 DEF HasInserted, HasAt
<1> QED
  BY <1>4, <1>6, <1>7 DEF r

\* The elements of a list are inserted one after the other.
LEMMA ElementsAreInserted ==
  ASSUME NEW s, Len(s) \in Nat
  PROVE  /\ DOMAIN SortedFirst(s) = 0 .. Len(s)
         /\ SortedFirst(s)[0] = <<>>
         /\ \A i \in 1 .. Len(s) : SortedFirst(s)[i] = Inserted(SortedFirst(s)[i - 1], s[i])
<1> DEFINE Rec(g, k) == g = [i \in 0 .. k |-> IF i = 0 THEN <<>> ELSE Inserted(g[i - 1], s[i])]
           S == {k \in Nat : \E g : Rec(g, k)}
<1>1. 0 \in S
  <2> DEFINE g == [i \in 0 .. 0 |-> <<>>]
  <2>1. Rec(g, 0)
    OBVIOUS
  <2> QED
    BY <2>1
<1>2. ASSUME NEW k \in Nat, k \in S PROVE k + 1 \in S
  <2>1. PICK g : Rec(g, k)
    BY <1>2
  <2> DEFINE h == [i \in 0 .. (k + 1) |-> IF i = k + 1 THEN Inserted(g[k], s[k + 1]) ELSE g[i]]
  <2>2. ASSUME NEW i \in 0 .. (k + 1)
        PROVE  h[i] = IF i = 0 THEN <<>> ELSE Inserted(h[i - 1], s[i])
    <3>1. CASE i = k + 1
      <4>1. i # 0 /\ i - 1 = k /\ i - 1 # k + 1 /\ i - 1 \in 0 .. (k + 1)
        BY <3>1
      <4>2. h[i] = Inserted(g[k], s[k + 1])
        BY <3>1
      <4>3. h[i - 1] = g[k]
        BY <4>1
      <4> HIDE DEF h
      <4> QED
        BY <3>1, <4>1, <4>2, <4>3, Zenon
    <3>2. CASE i # k + 1
      <4>1. h[i] = g[i]
        BY <3>2
      <4>2. i \in 0 .. k
        BY <3>2
      <4>3. g[i] = IF i = 0 THEN <<>> ELSE Inserted(g[i - 1], s[i])
        BY <2>1, <4>2
      <4>4. i # 0 => h[i - 1] = g[i - 1]
        BY <4>2
      <4> QED
        BY <4>1, <4>3, <4>4
    <3> QED
      BY <3>1, <3>2
  <2>3. Rec(h, k + 1)
    <3> DEFINE b == [i \in 0 .. (k + 1) |-> IF i = 0 THEN <<>> ELSE Inserted(h[i - 1], s[i])]
    <3>1. h = b
      <4> HIDE DEF h
      <4>1. h = [i \in 0 .. (k + 1) |-> h[i]]
        BY DEF h
      <4> QED
        BY <4>1, <2>2
    <3> QED
      BY <3>1
  <2> HIDE DEF h
  <2> QED
    BY <2>3
<1>3. Len(s) \in S
  <2> HIDE DEF S
  <2> QED
    BY <1>1, <1>2, CountingUp
<1>4. SortedFirst(s) = CHOOSE g : Rec(g, Len(s))
  BY DEF SortedFirst
<1>5. Rec(SortedFirst(s), Len(s))
  <2>1. \E g : Rec(g, Len(s))
    BY <1>3
  <2> HIDE DEF Rec
  <2> QED
    BY <1>4, <2>1
<1>6. DOMAIN SortedFirst(s) = 0 .. Len(s)
  BY <1>5
<1>7. ASSUME NEW i \in 0 .. Len(s)
      PROVE  SortedFirst(s)[i] = IF i = 0 THEN <<>> ELSE Inserted(SortedFirst(s)[i - 1], s[i])
  BY <1>5
<1>8. 0 \in 0 .. Len(s) /\ \A i \in 1 .. Len(s) : i \in 0 .. Len(s) /\ i # 0
  OBVIOUS
<1> HIDE DEF Rec
<1> QED
  BY <1>6, <1>7, <1>8

\* One more place for one more element.
LEMMA PlacesShift ==
  ASSUME NEW k \in Nat, NEW q \in Bijection(1 .. k, 1 .. k), NEW place \in 1 .. (k + 1)
  PROVE  [i \in 1 .. (k + 1) |-> IF i < place THEN q[i] ELSE IF i = place THEN k + 1 ELSE q[i - 1]]
            \in Bijection(1 .. (k + 1), 1 .. (k + 1))
<1> DEFINE p == [i \in 1 .. (k + 1) |->
                    IF i < place THEN q[i] ELSE IF i = place THEN k + 1 ELSE q[i - 1]]
<1>0. /\ q \in [1 .. k -> 1 .. k]
      /\ \A a, b \in 1 .. k : q[a] = q[b] => a = b
      /\ \A t \in 1 .. k : \E i \in 1 .. k : q[i] = t
  BY DEF Bijection, Injection, Surjection, IsInjective
<1>1. /\ \A i \in 1 .. (k + 1) : i < place => i \in 1 .. k /\ p[i] = q[i] /\ q[i] \in 1 .. k
      /\ p[place] = k + 1
      /\ \A i \in 1 .. (k + 1) : i > place => i - 1 \in 1 .. k /\ p[i] = q[i - 1] /\ q[i - 1] \in 1 .. k
  <2>1. ASSUME NEW i \in 1 .. (k + 1), i < place
        PROVE  i \in 1 .. k /\ p[i] = q[i] /\ q[i] \in 1 .. k
    <3>1. i \in 1 .. k /\ p[i] = q[i]
      BY <2>1
    <3> QED
      BY <3>1, <1>0
  <2>2. p[place] = k + 1
    OBVIOUS
  <2>3. ASSUME NEW i \in 1 .. (k + 1), i > place
        PROVE  i - 1 \in 1 .. k /\ p[i] = q[i - 1] /\ q[i - 1] \in 1 .. k
    <3>1. i - 1 \in 1 .. k
      BY <2>3
    <3>2. p[i] = q[i - 1]
      BY <2>3
    <3> QED
      BY <3>1, <3>2, <1>0
  <2> HIDE DEF p
  <2> QED
    BY <2>1, <2>2, <2>3
<1>2. p \in [1 .. (k + 1) -> 1 .. (k + 1)]
  <2>1. ASSUME NEW i \in 1 .. (k + 1) PROVE p[i] \in 1 .. (k + 1)
    <3> HIDE DEF p
    <3>1. i < place \/ i = place \/ i > place
      OBVIOUS
    <3>2. \A m \in 1 .. k : m \in 1 .. (k + 1)
      OBVIOUS
    <3>3. k + 1 \in 1 .. (k + 1)
      OBVIOUS
    <3> QED
      BY <1>1, <3>1, <3>2, <3>3
  <2> HIDE DEF p
  <2>2. p = [i \in 1 .. (k + 1) |-> p[i]]
    BY DEF p
  <2> QED
    BY <2>1, <2>2
<1> HIDE DEF p
<1>3. ASSUME NEW a \in 1 .. (k + 1), NEW b \in 1 .. (k + 1), p[a] = p[b], a # b PROVE FALSE
  <2>0. \A m \in 1 .. k : m # k + 1
    OBVIOUS
  <2>1. CASE a < place /\ b < place
    BY <2>1, <1>0, <1>1, <1>3
  <2>2. CASE a > place /\ b > place
    <3>1. a - 1 = b - 1
      BY <2>2, <1>0, <1>1, <1>3
    <3> QED
      BY <3>1, <1>3
  <2>3. CASE a < place /\ b > place
    <3>1. a = b - 1
      BY <2>3, <1>0, <1>1, <1>3
    <3> QED
      BY <3>1, <2>3
  <2>4. CASE a > place /\ b < place
    <3>1. a - 1 = b
      BY <2>4, <1>0, <1>1, <1>3
    <3> QED
      BY <3>1, <2>4
  <2>5. CASE a = place /\ b # place
    BY <2>5, <2>0, <1>1, <1>3
  <2>6. CASE a # place /\ b = place
    BY <2>6, <2>0, <1>1, <1>3
  <2> QED
    BY <2>1, <2>2, <2>3, <2>4, <2>5, <2>6, <1>3
<1>4. ASSUME NEW t \in 1 .. (k + 1) PROVE \E i \in 1 .. (k + 1) : p[i] = t
  <2>1. CASE t = k + 1
    BY <2>1, <1>1
  <2>2. CASE t # k + 1
    <3>1. PICK i \in 1 .. k : q[i] = t
      BY <2>2, <1>0
    <3>2. CASE i < place
      BY <3>1, <3>2, <1>1
    <3>3. CASE i >= place
      <4>1. i + 1 \in 1 .. (k + 1) /\ i + 1 > place /\ (i + 1) - 1 = i
        BY <3>3
      <4>2. p[i + 1] = q[i]
        BY <4>1, <1>1
      <4> QED
        BY <3>1, <4>1, <4>2
    <3> QED
      BY <3>2, <3>3
  <2> QED
    BY <2>1, <2>2
<1>5. p \in Bijection(1 .. (k + 1), 1 .. (k + 1))
  BY <1>2, <1>3, <1>4 DEF Bijection, Injection, Surjection, IsInjective
<1> QED
  BY <1>5 DEF p

\* Sorting gives a list in order that has the same elements.
LEMMA SortRises ==
  ASSUME NEW S, IsOrder(S), NEW s \in Seq(S)
  PROVE  sort(s) \in Seq(S) /\ IsRising(sort(s)) /\ Rearranges(sort(s), s)
<1> DEFINE f(k) == SortedFirst(s)[k]
           Done(k) == /\ f(k) \in Seq(S) /\ Len(f(k)) = k /\ IsRising(f(k))
                      /\ \E q \in Bijection(1 .. k, 1 .. k) : \A i \in 1 .. k : f(k)[i] = s[q[i]]
           T == {k \in Nat : k <= Len(s) => Done(k)}
<1>0. Len(s) \in Nat /\ \A i \in 1 .. Len(s) : s[i] \in S
  OBVIOUS
<1>1. f(0) = <<>> /\ \A i \in 1 .. Len(s) : f(i) = Inserted(f(i - 1), s[i])
  BY <1>0, ElementsAreInserted
<1> HIDE DEF f
<1>2. 0 \in T
  <2>1. <<>> \in Seq(S) /\ Len(<<>>) = 0 /\ 1 .. 0 = {}
    OBVIOUS
  <2>2. IsRising(<<>>)
    BY <2>1 DEF IsRising
  <2>3. [i \in {} |-> i] \in Bijection({}, {})
    BY DEF Bijection, Injection, Surjection, IsInjective
  <2>4. Done(0)
    BY <2>1, <2>2, <2>3, <1>1
  <2> QED
    BY <2>4
<1>3. ASSUME NEW k \in Nat, k \in T PROVE k + 1 \in T
  <2> SUFFICES ASSUME k + 1 <= Len(s) PROVE Done(k + 1)
    OBVIOUS
  <2>1. Done(k)
    BY <1>3, <1>0
  <2>2. k + 1 \in 1 .. Len(s) /\ (k + 1) - 1 = k /\ s[k + 1] \in S
    BY <1>0
  <2>3. f(k + 1) = Inserted(f(k), s[k + 1])
    BY <1>1, <2>2
  <2>4. /\ f(k + 1) \in Seq(S) /\ Len(f(k + 1)) = k + 1 /\ IsRising(f(k + 1))
        /\ HasInserted(f(k + 1), f(k), s[k + 1])
    <3>1. f(k) \in Seq(S) /\ IsRising(f(k)) /\ Len(f(k)) = k
      BY <2>1
    <3>2. /\ Inserted(f(k), s[k + 1]) \in Seq(S)
          /\ Len(Inserted(f(k), s[k + 1])) = Len(f(k)) + 1
          /\ IsRising(Inserted(f(k), s[k + 1])) /\ HasInserted(Inserted(f(k), s[k + 1]), f(k), s[k + 1])
      BY <3>1, <2>2, InsertedRises
    <3> QED
      BY <3>1, <3>2, <2>3
  <2>5. PICK place \in 1 .. (k + 1) : \A i \in 1 .. (k + 1) :
             /\ i < place => f(k + 1)[i] = f(k)[i]
             /\ i = place => f(k + 1)[i] = s[k + 1]
             /\ i > place => f(k + 1)[i] = f(k)[i - 1]
    BY <2>1, <2>4 DEF HasInserted, HasAt
  <2>6. PICK q \in Bijection(1 .. k, 1 .. k) : \A i \in 1 .. k : f(k)[i] = s[q[i]]
    BY <2>1
  <2> DEFINE p == [i \in 1 .. (k + 1) |->
                      IF i < place THEN q[i] ELSE IF i = place THEN k + 1 ELSE q[i - 1]]
  <2>7. p \in Bijection(1 .. (k + 1), 1 .. (k + 1))
    BY PlacesShift
  <2>8. ASSUME NEW i \in 1 .. (k + 1) PROVE f(k + 1)[i] = s[p[i]]
    <3>1. CASE i < place
      <4>1. p[i] = q[i] /\ i \in 1 .. k
        BY <3>1
      <4> QED
        BY <3>1, <4>1, <2>5, <2>6
    <3>2. CASE i = place
      <4>1. p[i] = k + 1
        BY <3>2
      <4> QED
        BY <3>2, <4>1, <2>5
    <3>3. CASE i > place
      <4>1. p[i] = q[i - 1] /\ i - 1 \in 1 .. k
        BY <3>3
      <4> QED
        BY <3>3, <4>1, <2>5, <2>6
    <3> QED
      BY <3>1, <3>2, <3>3
  <2> HIDE DEF p
  <2> QED
    BY <2>4, <2>7, <2>8
<1>4. Done(Len(s))
  <2>1. Len(s) \in T
    <3> HIDE DEF T
    <3> QED
      BY <1>0, <1>2, <1>3, CountingUp
  <2> QED
    BY <2>1, <1>0
<1> QED
  BY <1>4 DEF sort, Rearranges, f

LEMMA RearrangesBack ==
  ASSUME NEW s, NEW t, Len(t) \in Nat, Rearranges(s, t)
  PROVE  Rearranges(t, s)
<1> DEFINE D == 1 .. Len(t)
<1>1. PICK q \in Bijection(D, D) : \A i \in D : s[i] = t[q[i]]
  BY DEF Rearranges
<1> HIDE DEF D
<1>2. /\ q \in [D -> D]
      /\ \A a, b \in D : q[a] = q[b] => a = b
      /\ \A j \in D : \E i \in D : q[i] = j
  BY DEF Bijection, Injection, Surjection, IsInjective
<1> DEFINE p == [j \in D |-> CHOOSE i \in D : q[i] = j]
<1>3. \A j \in D : p[j] \in D /\ q[p[j]] = j
  BY <1>2
<1>4. p \in [D -> D]
  BY <1>3
<1> HIDE DEF p
<1>5. \A a, b \in D : p[a] = p[b] => a = b
  BY <1>3
<1>6. \A i \in D : p[q[i]] = i
  BY <1>2, <1>3
<1>7. p \in Bijection(D, D)
  BY <1>2, <1>4, <1>5, <1>6 DEF Bijection, Injection, Surjection, IsInjective
<1>8. \A j \in D : t[j] = s[p[j]]
  BY <1>1, <1>3
<1> QED
  BY <1>7, <1>8 DEF Rearranges, D

LEMMA RearrangesOn ==
  ASSUME NEW s, NEW t, NEW u, Rearranges(s, t), Rearranges(t, u)
  PROVE  Rearranges(s, u)
<1> DEFINE D == 1 .. Len(u)
<1>0. Len(s) = Len(u) /\ Len(t) = Len(u)
  BY DEF Rearranges
<1>1. PICK p \in Bijection(D, D) : \A i \in D : s[i] = t[p[i]]
  BY <1>0 DEF Rearranges
<1>2. PICK q \in Bijection(D, D) : \A i \in D : t[i] = u[q[i]]
  BY <1>0 DEF Rearranges
<1> HIDE DEF D
<1>3. /\ p \in [D -> D] /\ q \in [D -> D]
      /\ \A a, b \in D : p[a] = p[b] => a = b
      /\ \A a, b \in D : q[a] = q[b] => a = b
      /\ \A j \in D : \E i \in D : p[i] = j
      /\ \A j \in D : \E i \in D : q[i] = j
  BY DEF Bijection, Injection, Surjection, IsInjective
<1> DEFINE r == [i \in D |-> q[p[i]]]
<1>4. r \in [D -> D] /\ \A i \in D : r[i] = q[p[i]] /\ p[i] \in D
  BY <1>3
<1> HIDE DEF r
<1>5. \A a, b \in D : r[a] = r[b] => a = b
  BY <1>3, <1>4
<1>6. ASSUME NEW j \in D PROVE \E i \in D : r[i] = j
  <2>1. PICK m \in D : q[m] = j
    BY <1>3
  <2>2. PICK i \in D : p[i] = m
    BY <1>3
  <2> QED
    BY <2>1, <2>2, <1>4
<1>7. r \in Bijection(D, D)
  BY <1>4, <1>5, <1>6 DEF Bijection, Injection, Surjection, IsInjective
<1>8. \A i \in D : s[i] = u[r[i]]
  BY <1>1, <1>2, <1>4
<1> QED
  BY <1>0, <1>7, <1>8 DEF Rearranges, D

\* In two lists with the same elements, as many are up to any element.
NotBehind(s, x) == {i \in 1 .. Len(s) : ~ __lt__(x, s[i])}

LEMMA AsManyBefore ==
  ASSUME NEW s, NEW t, Len(t) \in Nat, Rearranges(s, t), NEW x
  PROVE  /\ IsFiniteSet(NotBehind(s, x)) /\ IsFiniteSet(NotBehind(t, x))
         /\ Cardinality(NotBehind(s, x)) = Cardinality(NotBehind(t, x))
<1> DEFINE D == 1 .. Len(t)
           A == {i \in D : ~ __lt__(x, s[i])}
           B == {i \in D : ~ __lt__(x, t[i])}
<1>1. PICK q \in Bijection(D, D) : \A i \in D : s[i] = t[q[i]]
  BY DEF Rearranges
<1>2. /\ q \in [D -> D]
      /\ \A a, b \in D : q[a] = q[b] => a = b
      /\ \A j \in D : \E i \in D : q[i] = j
  <2> HIDE DEF D
  <2> QED
    BY DEF Bijection, Injection, Surjection, IsInjective
<1>3. NotBehind(s, x) = A /\ NotBehind(t, x) = B
  BY DEF NotBehind, Rearranges
<1>4. IsFiniteSet(D)
  BY FS_Interval
<1>5. IsFiniteSet(A)
  BY <1>4, FS_Subset
<1> HIDE DEF D
<1> DEFINE p == [i \in A |-> q[i]]
<1>6. p \in [A -> B] /\ (\A a, b \in A : p[a] = p[b] => a = b) /\ \A j \in B : \E i \in A : p[i] = j
  <2>1. \A i \in A : q[i] \in B
    BY <1>1, <1>2
  <2>2. \A j \in B : \E i \in A : q[i] = j
    BY <1>1, <1>2
  <2> QED
    BY <1>2, <2>1, <2>2
<1> HIDE DEF A, B, p
<1>7. p \in Bijection(A, B)
  BY <1>6 DEF Bijection, Injection, Surjection, IsInjective
<1>8. IsFiniteSet(B) /\ Cardinality(B) = Cardinality(A)
  BY <1>5, <1>7, FS_Bijection DEF ExistsBijection
<1> QED
  BY <1>3, <1>5, <1>8

\* A list that is in order has all elements before the place of a greater one.
LEMMA NotFewer ==
  ASSUME NEW S, IsOrder(S), NEW s \in Seq(S), IsRising(s), NEW k \in 1 .. Len(s),
         IsFiniteSet(NotBehind(s, s[k]))
  PROVE  Cardinality(NotBehind(s, s[k])) >= k
<1>1. ASSUME NEW i \in 1 .. k PROVE i \in NotBehind(s, s[k])
  <2>1. s[k] \in S /\ i \in 1 .. Len(s) /\ k \in Nat /\ (i = k \/ i < k)
    OBVIOUS
  <2>2. ~ __lt__(s[k], s[i])
    BY <2>1 DEF IsRising, IsOrder
  <2> QED
    BY <2>1, <2>2 DEF NotBehind
<1>2. 1 .. k \in SUBSET NotBehind(s, s[k])
  BY <1>1
<1>3. Cardinality(1 .. k) = k /\ k \in Nat
  BY FS_Interval
<1>4. Cardinality(1 .. k) <= Cardinality(NotBehind(s, s[k]))
  BY <1>2, FS_Subset
<1>5. Cardinality(NotBehind(s, s[k])) \in Nat
  BY FS_CardinalityType
<1> QED
  BY <1>3, <1>4, <1>5

LEMMA Fewer ==
  ASSUME NEW S, IsOrder(S), NEW s \in Seq(S), IsRising(s), NEW k \in 1 .. Len(s),
         NEW x \in S, __lt__(x, s[k])
  PROVE  Cardinality(NotBehind(s, x)) < k
<1>1. ASSUME NEW i \in NotBehind(s, x) PROVE i \in 1 .. (k - 1)
  <2>1. i \in 1 .. Len(s) /\ s[i] \in S /\ s[k] \in S /\ ~ __lt__(x, s[i])
    BY DEF NotBehind
  <2>2. CASE i > k
    <3>1. ~ __lt__(s[i], s[k])
      BY <2>1, <2>2 DEF IsRising
    <3>2. s[i] = s[k] \/ __lt__(s[k], s[i])
      BY <2>1, <3>1 DEF IsOrder
    <3>3. __lt__(x, s[i])
      BY <2>1, <3>2 DEF IsOrder
    <3> QED
      BY <2>1, <3>3
  <2>3. CASE i = k
    BY <2>1, <2>3
  <2>4. CASE i < k
    BY <2>1, <2>4
  <2> QED
    BY <2>1, <2>2, <2>3, <2>4
<1>2. NotBehind(s, x) \in SUBSET (1 .. (k - 1))
  BY <1>1
<1>3. IsFiniteSet(1 .. (k - 1)) /\ Cardinality(1 .. (k - 1)) = k - 1
  <2>1. k \in Int /\ k - 1 \in Int /\ 1 \in Int /\ k >= 1
    OBVIOUS
  <2>2. /\ IsFiniteSet(1 .. (k - 1))
        /\ Cardinality(1 .. (k - 1)) = IF 1 > k - 1 THEN 0 ELSE (k - 1) - 1 + 1
    BY <2>1, FS_Interval
  <2> QED
    BY <2>1, <2>2
<1>4. Cardinality(NotBehind(s, x)) <= k - 1 /\ IsFiniteSet(NotBehind(s, x))
  BY <1>2, <1>3, FS_Subset
<1>5. Cardinality(NotBehind(s, x)) \in Nat
  BY <1>4, FS_CardinalityType
<1> QED
  BY <1>4, <1>5

\* The same elements are in order in one way.
LEMMA OneOrder ==
  ASSUME NEW S, IsOrder(S), NEW s \in Seq(S), NEW t \in Seq(S), IsRising(s), IsRising(t),
         Rearranges(s, t)
  PROVE  s = t
<1>0. Len(s) \in Nat /\ Len(t) = Len(s)
  BY DEF Rearranges
<1>1. ASSUME NEW k \in 1 .. Len(s) PROVE s[k] = t[k]
  <2>0. s[k] \in S /\ t[k] \in S /\ k \in 1 .. Len(t) /\ k \in Nat
    BY <1>0
  <2>1. CASE __lt__(s[k], t[k])
    <3>1. /\ IsFiniteSet(NotBehind(s, s[k])) /\ IsFiniteSet(NotBehind(t, s[k]))
          /\ Cardinality(NotBehind(s, s[k])) = Cardinality(NotBehind(t, s[k]))
      BY <1>0, AsManyBefore
    <3>2. Cardinality(NotBehind(s, s[k])) >= k
      BY <3>1, NotFewer
    <3>3. Cardinality(NotBehind(t, s[k])) < k
      BY <2>0, <2>1, Fewer
    <3>4. Cardinality(NotBehind(t, s[k])) \in Nat
      BY <3>1, FS_CardinalityType
    <3> QED
      BY <2>0, <3>1, <3>2, <3>3, <3>4
  <2>2. CASE __lt__(t[k], s[k])
    <3>1. /\ IsFiniteSet(NotBehind(s, t[k])) /\ IsFiniteSet(NotBehind(t, t[k]))
          /\ Cardinality(NotBehind(s, t[k])) = Cardinality(NotBehind(t, t[k]))
      BY <1>0, AsManyBefore
    <3>2. Cardinality(NotBehind(t, t[k])) >= k
      BY <2>0, <3>1, NotFewer
    <3>3. Cardinality(NotBehind(s, t[k])) < k
      BY <2>0, <2>2, Fewer
    <3>4. Cardinality(NotBehind(t, t[k])) \in Nat
      BY <3>1, FS_CardinalityType
    <3> QED
      BY <2>0, <3>1, <3>2, <3>3, <3>4
  <2> QED
    BY <2>0, <2>1, <2>2 DEF IsOrder
<1> QED
  BY <1>0, <1>1, SeqEqual

\* Sorting gives the same, whatever order the elements come in.
LEMMA SortIsTheSame ==
  ASSUME NEW S, IsOrder(S), NEW s \in Seq(S), NEW t \in Seq(S), Rearranges(s, t)
  PROVE  sort(s) = sort(t)
<1>1. sort(s) \in Seq(S) /\ IsRising(sort(s)) /\ Rearranges(sort(s), s)
  BY SortRises
<1>2. sort(t) \in Seq(S) /\ IsRising(sort(t)) /\ Rearranges(sort(t), t)
  BY SortRises
<1>3. Rearranges(t, sort(t))
  BY <1>2, RearrangesBack
<1>4. Rearranges(sort(s), sort(t))
  BY <1>1, <1>3, RearrangesOn
<1> QED
  BY <1>1, <1>2, <1>4, OneOrder

-----------------------------------------------------------------------------
(* The order of includes.                                                  *)

LEMMA RankTells ==
  ASSUME NEW e \in ToSet(PathOrder), NEW f \in ToSet(PathOrder)
  PROVE  Rank(e) \in Nat /\ (Rank(e) = Rank(f) => e = f)
<1>1. DOMAIN PathOrder \subseteq Nat
  BY PathOrderAssumption
<1>2. \A x \in ToSet(PathOrder) : \E i \in DOMAIN PathOrder : PathOrder[i] = x
  BY DEF ToSet
<1>3. \A x \in ToSet(PathOrder) : Rank(x) \in DOMAIN PathOrder /\ PathOrder[Rank(x)] = x
  BY <1>2 DEF Rank
<1> QED
  BY <1>1, <1>3

\* What the first difference of two paths says.
AgreeBelow(p, q, n) == \A i \in 1 .. (n - 1) : p[i] = q[i]

FirstDifference(p, q, n) ==
    /\ n \in 1 .. Len(q) /\ AgreeBelow(p, q, n)
    /\ n = Len(p) + 1 \/ (n \in 1 .. Len(p) /\ Rank(p[n]) < Rank(q[n]))

LEMMA SameStart ==
  ASSUME NEW S, NEW p \in Seq(S), NEW q \in Seq(S), NEW n \in Nat, n <= Len(p), n <= Len(q)
  PROVE  SubSeq(p, 1, n) = SubSeq(q, 1, n) <=> \A i \in 1 .. n : p[i] = q[i]
<1>1. ASSUME NEW s \in Seq(S), n <= Len(s)
      PROVE  /\ SubSeq(s, 1, n) \in Seq(S) /\ Len(SubSeq(s, 1, n)) = n
             /\ \A i \in 1 .. n : SubSeq(s, 1, n)[i] = s[i]
  <2>1. Len(s) \in Nat /\ \A i \in 1 .. n : s[i] \in S
    BY <1>1
  <2>2. /\ SubSeq(s, 1, n) \in Seq(S)
        /\ Len(SubSeq(s, 1, n)) = IF 1 <= n THEN n - 1 + 1 ELSE 0
        /\ \A i \in 1 .. (n - 1 + 1) : SubSeq(s, 1, n)[i] = s[1 + i - 1]
    BY <2>1, SubSeqProperties
  <2> QED
    BY <2>2
<1>2. /\ SubSeq(p, 1, n) \in Seq(S) /\ Len(SubSeq(p, 1, n)) = n
      /\ \A i \in 1 .. n : SubSeq(p, 1, n)[i] = p[i]
  BY <1>1
<1>3. /\ SubSeq(q, 1, n) \in Seq(S) /\ Len(SubSeq(q, 1, n)) = n
      /\ \A i \in 1 .. n : SubSeq(q, 1, n)[i] = q[i]
  BY <1>1
<1>4. ASSUME \A i \in 1 .. n : p[i] = q[i] PROVE SubSeq(p, 1, n) = SubSeq(q, 1, n)
  BY <1>2, <1>3, <1>4, SeqEqual
<1> QED
  BY <1>2, <1>3, <1>4

LEMMA BeforeMeans ==
  ASSUME NEW S, NEW p \in Seq(S), NEW q \in Seq(S)
  PROVE  PathBefore(p, q) <=> \E n \in Nat : FirstDifference(p, q, n)
<1>0. /\ Len(p) \in Nat /\ Len(q) \in Nat /\ DOMAIN p = 1 .. Len(p) /\ DOMAIN q = 1 .. Len(q)
  OBVIOUS
<1>7. Len(p) \in Nat /\ Len(q) \in Nat
  OBVIOUS
<1>1. ASSUME IsStrictPrefix(p, q) PROVE FirstDifference(p, q, Len(p) + 1)
  <2>1. Len(p) <= Len(q) /\ SubSeq(p, 1, Len(p)) = SubSeq(q, 1, Len(p)) /\ p # q
    BY <1>1 DEF IsStrictPrefix, IsPrefix
  <2>2. \A i \in 1 .. Len(p) : p[i] = q[i]
    BY <2>1, <1>0, SameStart
  <2>3. Len(p) # Len(q)
    BY <2>1, <2>2, SeqEqual
  <2>4. Len(p) <= Len(q)
    BY <2>1
  <2>5. Len(p) + 1 \in 1 .. Len(q) /\ (Len(p) + 1) - 1 = Len(p)
    BY <2>3, <2>4, <1>7
  <2> QED
    BY <2>2, <2>5 DEF FirstDifference, AgreeBelow
<1>2. ASSUME FirstDifference(p, q, Len(p) + 1) PROVE IsStrictPrefix(p, q)
  <2>1. Len(p) + 1 \in 1 .. Len(q) /\ \A i \in 1 .. Len(p) : p[i] = q[i]
    <3>1. (Len(p) + 1) - 1 = Len(p)
      BY <1>0
    <3> QED
      BY <1>2, <3>1 DEF FirstDifference, AgreeBelow
  <2>2. Len(p) <= Len(q) /\ Len(p) # Len(q)
    <3>1. Len(p) + 1 \in 1 .. Len(q)
      BY <2>1
    <3> QED
      BY <3>1, <1>7
  <2>3. SubSeq(p, 1, Len(p)) = SubSeq(q, 1, Len(p))
    <3>1. Len(p) \in Nat /\ Len(p) <= Len(p) /\ Len(p) <= Len(q)
      BY <2>2, <1>7
    <3>2. SubSeq(p, 1, Len(p)) = SubSeq(q, 1, Len(p)) <=> \A i \in 1 .. Len(p) : p[i] = q[i]
      BY <3>1, SameStart
    <3> QED
      BY <2>1, <3>2
  <2> QED
    BY <2>2, <2>3 DEF IsStrictPrefix, IsPrefix
<1>3. ASSUME NEW n \in DOMAIN p \cap DOMAIN q
      PROVE  SubSeq(p, 1, n - 1) = SubSeq(q, 1, n - 1) <=> AgreeBelow(p, q, n)
  <2>1. n - 1 \in Nat /\ n - 1 <= Len(p) /\ n - 1 <= Len(q)
    BY <1>0
  <2> QED
    BY <2>1, SameStart DEF AgreeBelow
<1>4. ASSUME NEW n \in Nat, n # Len(p) + 1
      PROVE  FirstDifference(p, q, n) <=>
               /\ n \in DOMAIN p \cap DOMAIN q
               /\ SubSeq(p, 1, n - 1) = SubSeq(q, 1, n - 1) /\ Rank(p[n]) < Rank(q[n])
  BY <1>0, <1>3, <1>4 DEF FirstDifference
<1>5. \A n \in DOMAIN p \cap DOMAIN q : n \in Nat /\ n # Len(p) + 1
  BY <1>0
<1>6. Len(p) + 1 \in Nat
  BY <1>0
<1> QED
  BY <1>1, <1>2, <1>4, <1>5, <1>6 DEF PathBefore

LEMMA PathsAreOrdered ==
  LET Paths == Seq(ToSet(PathOrder))
  IN  /\ \A p \in Paths : ~ PathBefore(p, p)
      /\ \A p, q \in Paths : p = q \/ PathBefore(p, q) \/ PathBefore(q, p)
      /\ \A p, q, r \in Paths : PathBefore(p, q) /\ PathBefore(q, r) => PathBefore(p, r)
<1> DEFINE S == ToSet(PathOrder)
<1>0. \A e, f \in S : Rank(e) \in Nat /\ (Rank(e) = Rank(f) => e = f)
  BY RankTells
<1> HIDE DEF S
<1>1. ASSUME NEW p \in Seq(S), PathBefore(p, p) PROVE FALSE
  <2>1. PICK n \in Nat : FirstDifference(p, p, n)
    BY <1>1, BeforeMeans
  <2>2. n \in 1 .. Len(p) /\ Rank(p[n]) < Rank(p[n]) /\ p[n] \in S
    BY <2>1 DEF FirstDifference
  <2> QED
    BY <2>2, <1>0
<1>2. ASSUME NEW p \in Seq(S), NEW q \in Seq(S), p # q PROVE PathBefore(p, q) \/ PathBefore(q, p)
  <2>0. Len(p) \in Nat /\ Len(q) \in Nat
    OBVIOUS
  <2> DEFINE T == {n \in Nat \ {0} : n > Len(p) \/ n > Len(q) \/ p[n] # q[n]}
  <2>1. T # {} /\ T \subseteq Nat
    <3>1. Len(p) + 1 \in T
      BY <2>0
    <3> QED
      BY <3>1
  <2> DEFINE n == Min(T)
  <2>2. n \in T /\ \A m \in T : n <= m
    <3> HIDE DEF T
    <3> QED
      BY <2>1, LeastNumber
  <2> HIDE DEF n
  <2>3. ASSUME NEW i \in 1 .. (n - 1) PROVE i \notin T
    <3> HIDE DEF T
    <3>1. ~ (n <= i)
      BY <2>1, <2>2
    <3> QED
      BY <3>1, <2>2
  <2>4. \A i \in 1 .. (n - 1) : p[i] = q[i] /\ i <= Len(p) /\ i <= Len(q)
    BY <2>2, <2>3, <2>0
  <2>5. n \in Nat \ {0} /\ (n > Len(p) \/ n > Len(q) \/ p[n] # q[n])
    BY <2>2
  <2>6. n <= Len(p) + 1 /\ n <= Len(q) + 1
    <3>1. n = 1 \/ n - 1 \in 1 .. (n - 1)
      BY <2>5
    <3>2. CASE n = 1
      BY <3>2, <2>0
    <3>3. CASE n - 1 \in 1 .. (n - 1)
      BY <3>3, <2>4, <2>5, <2>0
    <3> QED
      BY <3>1, <3>2, <3>3
  <2>7. CASE n <= Len(p) /\ n <= Len(q)
    <3>1. p[n] \in S /\ q[n] \in S /\ p[n] # q[n] /\ n \in 1 .. Len(p) /\ n \in 1 .. Len(q)
      BY <2>5, <2>7, <2>0
    <3>2. Rank(p[n]) < Rank(q[n]) \/ Rank(q[n]) < Rank(p[n])
      BY <3>1, <1>0
    <3>3. FirstDifference(p, q, n) \/ FirstDifference(q, p, n)
      BY <3>1, <3>2, <2>4 DEF FirstDifference, AgreeBelow
    <3> QED
      BY <3>3, <2>5, BeforeMeans
  <2>8. CASE n > Len(p) /\ n <= Len(q)
    <3>1. FirstDifference(p, q, n)
      BY <2>4, <2>5, <2>6, <2>8, <2>0 DEF FirstDifference, AgreeBelow
    <3> QED
      BY <3>1, <2>5, BeforeMeans
  <2>9. CASE n <= Len(p) /\ n > Len(q)
    <3>1. FirstDifference(q, p, n)
      BY <2>4, <2>5, <2>6, <2>9, <2>0 DEF FirstDifference, AgreeBelow
    <3> QED
      BY <3>1, <2>5, BeforeMeans
  <2>10. CASE n > Len(p) /\ n > Len(q)
    <3>1. Len(p) = n - 1 /\ Len(q) = n - 1
      BY <2>5, <2>6, <2>10, <2>0
    <3> QED
      BY <3>1, <2>4, <1>2, SeqEqual
  <2> QED
    BY <2>7, <2>8, <2>9, <2>10, <2>5, <2>0
<1>3. ASSUME NEW p \in Seq(S), NEW q \in Seq(S), NEW r \in Seq(S), PathBefore(p, q), PathBefore(q, r)
      PROVE  PathBefore(p, r)
  <2>1. PICK m \in Nat : FirstDifference(p, q, m)
    BY <1>3, BeforeMeans
  <2>2. PICK n \in Nat : FirstDifference(q, r, n)
    BY <1>3, BeforeMeans
  <2>3. /\ Len(p) \in Nat /\ Len(q) \in Nat /\ Len(r) \in Nat
        /\ m \in 1 .. Len(q) /\ n \in 1 .. Len(r)
        /\ \A i \in 1 .. (m - 1) : p[i] = q[i]
        /\ \A i \in 1 .. (n - 1) : q[i] = r[i]
        /\ m = Len(p) + 1 \/ (m \in 1 .. Len(p) /\ Rank(p[m]) < Rank(q[m]))
        /\ n = Len(q) + 1 \/ (n \in 1 .. Len(q) /\ Rank(q[n]) < Rank(r[n]))
    BY <2>1, <2>2 DEF FirstDifference, AgreeBelow
  <2>4. CASE m < n
    <3>1. m \in 1 .. Len(r) /\ m \in 1 .. (n - 1) /\ q[m] = r[m] /\ \A i \in 1 .. (m - 1) : q[i] = r[i]
      BY <2>3, <2>4
    <3>2. \A i \in 1 .. (m - 1) : p[i] = r[i]
      BY <3>1, <2>3
    <3>3. FirstDifference(p, r, m)
      BY <3>1, <3>2, <2>3 DEF FirstDifference, AgreeBelow
    <3> QED
      BY <3>3, BeforeMeans
  <2>5. CASE m = n
    <3>1. \A i \in 1 .. (m - 1) : p[i] = r[i]
      BY <2>3, <2>5
    <3>2. m \in 1 .. Len(q) /\ m \in 1 .. Len(r) /\ Rank(q[m]) < Rank(r[m])
      BY <2>3, <2>5
    <3>3. m \in 1 .. Len(p) => Rank(p[m]) < Rank(q[m])
      BY <2>3
    <3>4. m \in 1 .. Len(p) => Rank(p[m]) < Rank(r[m])
      <4> SUFFICES ASSUME m \in 1 .. Len(p) PROVE Rank(p[m]) < Rank(r[m])
        OBVIOUS
      <4>1. p[m] \in S /\ q[m] \in S /\ r[m] \in S
        BY <3>2
      <4>2. Rank(p[m]) \in Nat /\ Rank(q[m]) \in Nat /\ Rank(r[m]) \in Nat
        BY <4>1, <1>0
      <4> QED
        BY <4>2, <3>2, <3>3
    <3>5. FirstDifference(p, r, m)
      BY <3>1, <3>2, <3>4, <2>3 DEF FirstDifference, AgreeBelow
    <3> QED
      BY <3>5, BeforeMeans
  <2>6. CASE m > n
    <3>1. n \in 1 .. Len(q) /\ n \in 1 .. (m - 1) /\ p[n] = q[n] /\ Rank(q[n]) < Rank(r[n])
      BY <2>3, <2>6
    <3>2. n \in 1 .. Len(p)
      BY <3>1, <2>3
    <3>3. \A i \in 1 .. (n - 1) : p[i] = r[i]
      <4>1. \A i \in 1 .. (n - 1) : i \in 1 .. (m - 1)
        BY <2>3, <2>6
      <4> QED
        BY <4>1, <2>3
    <3>4. FirstDifference(p, r, n)
      BY <3>1, <3>2, <3>3, <2>3 DEF FirstDifference, AgreeBelow
    <3> QED
      BY <3>4, BeforeMeans
  <2> QED
    BY <2>3, <2>4, <2>5, <2>6
<1> QED
  BY <1>1, <1>2, <1>3 DEF S

\* The first test that does not tie decides.
Answers == {"a", "b", "tie"}

FourTests(tests, d, t1, t2, t3, t4) ==
    tests = <<t1, t2>> \o <<t3, t4>> /\ d = {i \in DOMAIN tests : tests[i] # "tie"}

FourDecide(tests, d, t1, t2, t3, t4) ==
    /\ d = {} <=> t1 = "tie" /\ t2 = "tie" /\ t3 = "tie" /\ t4 = "tie"
    /\ d # {} =>
         (tests[Min(d)] = "a" <=>
            \/ t1 = "a"
            \/ t1 = "tie" /\ t2 = "a"
            \/ t1 = "tie" /\ t2 = "tie" /\ t3 = "a"
            \/ t1 = "tie" /\ t2 = "tie" /\ t3 = "tie" /\ t4 = "a")

LEMMA FirstOfFour ==
  ASSUME NEW t1 \in Answers, NEW t2 \in Answers, NEW t3 \in Answers, NEW t4 \in Answers,
         NEW tests, NEW d, FourTests(tests, d, t1, t2, t3, t4)
  PROVE  FourDecide(tests, d, t1, t2, t3, t4)
<1>0. tests = <<t1, t2>> \o <<t3, t4>> /\ d = {i \in DOMAIN tests : tests[i] # "tie"}
  BY DEF FourTests
<1>1. /\ DOMAIN tests = 1 .. 4
      /\ tests[1] = t1 /\ tests[2] = t2 /\ tests[3] = t3 /\ tests[4] = t4
  <2>1. <<t1, t2>> \in Seq(Answers) /\ <<t3, t4>> \in Seq(Answers)
    OBVIOUS
  <2>2. Len(<<t1, t2>>) = 2 /\ Len(<<t3, t4>>) = 2
    OBVIOUS
  <2>3. /\ tests \in Seq(Answers) /\ Len(tests) = 2 + 2
        /\ \A i \in 1 .. 2 + 2 : tests[i] = IF i <= 2 THEN <<t1, t2>>[i] ELSE <<t3, t4>>[i - 2]
    BY <1>0, <2>1, <2>2, ConcatProperties
  <2> QED
    BY <2>3
<1>2. \A i : i \in d <=> i \in 1 .. 4 /\ tests[i] # "tie"
  BY <1>0, <1>1
<1>3. d \subseteq Nat
  BY <1>2
<1>4. ASSUME d # {} PROVE Min(d) \in d /\ \A i \in d : Min(d) <= i
  BY <1>3, <1>4, LeastNumber
<1>5. d = {} <=> t1 = "tie" /\ t2 = "tie" /\ t3 = "tie" /\ t4 = "tie"
  BY <1>1, <1>2
<1>6. ASSUME d # {}
      PROVE  \/ Min(d) = 1 /\ t1 # "tie"
             \/ Min(d) = 2 /\ t1 = "tie" /\ t2 # "tie"
             \/ Min(d) = 3 /\ t1 = "tie" /\ t2 = "tie" /\ t3 # "tie"
             \/ Min(d) = 4 /\ t1 = "tie" /\ t2 = "tie" /\ t3 = "tie" /\ t4 # "tie"
  <2>1. PICK m \in 1 .. 4 : m = Min(d) /\ tests[m] # "tie" /\ \A i \in d : m <= i
    BY <1>2, <1>4, <1>6
  <2>2. ASSUME NEW i \in 1 .. 4, i < m PROVE tests[i] = "tie"
    <3>1. i \in Nat /\ m \in Nat /\ ~ (m <= i)
      BY <2>2
    <3>2. i \notin d
      BY <2>1, <3>1
    <3> QED
      BY <3>2, <1>2
  <2>3. CASE m = 1
    BY <2>1, <2>3, <1>1
  <2>4. CASE m = 2
    <3>1. tests[1] = "tie"
      BY <2>2, <2>4
    <3> QED
      BY <2>1, <2>4, <3>1, <1>1
  <2>5. CASE m = 3
    <3>1. tests[1] = "tie" /\ tests[2] = "tie"
      BY <2>2, <2>5
    <3> QED
      BY <2>1, <2>5, <3>1, <1>1
  <2>6. CASE m = 4
    <3>1. tests[1] = "tie" /\ tests[2] = "tie" /\ tests[3] = "tie"
      BY <2>2, <2>6
    <3> QED
      BY <2>1, <2>6, <3>1, <1>1
  <2>7. m = 1 \/ m = 2 \/ m = 3 \/ m = 4
    OBVIOUS
  <2> QED
    BY <2>3, <2>4, <2>5, <2>6, <2>7
<1> QED
  BY <1>1, <1>5, <1>6 DEF Answers, FourDecide

LEMMA FirstOfTwo ==
  ASSUME NEW t1 \in Answers, NEW t2 \in Answers, NEW tests, tests = <<t1, t2>> \o <<>>,
         NEW d, d = {i \in DOMAIN tests : tests[i] # "tie"}
  PROVE  /\ d = {} <=> t1 = "tie" /\ t2 = "tie"
         /\ d # {} => (tests[Min(d)] = "a" <=> t1 = "a" \/ (t1 = "tie" /\ t2 = "a"))
<1>1. DOMAIN tests = 1 .. 2 /\ tests[1] = t1 /\ tests[2] = t2
  <2>1. <<t1, t2>> \in Seq(Answers)
    OBVIOUS
  <2>2. tests = <<t1, t2>>
    BY <2>1, ConcatEmptySeq
  <2> QED
    BY <2>2
<1>2. \A i : i \in d <=> i \in 1 .. 2 /\ tests[i] # "tie"
  BY <1>1
<1>3. d \subseteq Nat
  BY <1>2
<1>4. ASSUME d # {} PROVE Min(d) \in d /\ \A i \in d : Min(d) <= i
  BY <1>3, <1>4, LeastNumber
<1>5. d = {} <=> t1 = "tie" /\ t2 = "tie"
  BY <1>1, <1>2
<1>6. ASSUME d # {} PROVE (Min(d) = 1 /\ t1 # "tie") \/ (Min(d) = 2 /\ t1 = "tie" /\ t2 # "tie")
  <2>1. PICK m \in 1 .. 2 : m = Min(d) /\ tests[m] # "tie" /\ \A i \in d : m <= i
    BY <1>2, <1>4, <1>6
  <2>2. \A i \in 1 .. 2 : i < m => tests[i] = "tie"
    BY <2>1, <1>2
  <2>3. m = 1 \/ m = 2
    OBVIOUS
  <2> QED
    BY <2>1, <2>2, <2>3, <1>1
<1> QED
  BY <1>1, <1>5, <1>6 DEF Answers

\* The tests as comparisons of numbers.
Quote(x) == IF x.quote = "quotes" THEN 0 ELSE 1
ExternalKey(x) == IF x.external THEN 0 ELSE 1
CppKey(x) == IF x.cpp THEN 0 ELSE 1
CKey(x) == IF x.cHeader /\ ~ x.cpp THEN 1 ELSE 0
DepthKey(x) == IF Len(x.path) = 1 THEN 0 ELSE IF Len(x.path) = 2 THEN 2 ELSE 1

Compares(t, m, n) == t \in Answers /\ (t = "a" <=> m < n) /\ (t = "tie" <=> m = n)

LEMMA IncludeTypes ==
  ASSUME NEW x, IsInclude(x)
  PROVE  /\ x.quote \in {"quotes", "brackets"} /\ x.path \in Seq(ToSet(PathOrder)) /\ Len(x.path) \in Nat \ {0}
         /\ x.external \in BOOLEAN /\ x.cpp \in BOOLEAN /\ x.cHeader \in BOOLEAN
         /\ x.quote = "quotes" => ~ x.external /\ ~ x.cpp /\ ~ x.cHeader
<1>1. x.path \in Seq(ToSet(PathOrder)) /\ x.path # <<>>
  BY DEF IsInclude, Includes
<1>2. Len(x.path) \in Nat \ {0}
  BY <1>1
<1> QED
  BY <1>1, <1>2 DEF IsInclude, Includes

LEMMA PreferCompares ==
  ASSUME NEW a, NEW b, IsInclude(a), IsInclude(b)
  PROVE  /\ Compares(check_external_include(a, b), ExternalKey(a), ExternalKey(b))
         /\ Compares(check_cpp_include(a, b), CppKey(a), CppKey(b))
<1>1. /\ a.external \in BOOLEAN /\ a.cpp \in BOOLEAN
      /\ b.external \in BOOLEAN /\ b.cpp \in BOOLEAN
  BY IncludeTypes
<1> QED
  BY <1>1 DEF Compares, check_external_include, check_cpp_include, Prefer, Decide, Answers,
              ExternalKey, CppKey

LEMMA DepthCompares ==
  ASSUME NEW a, NEW b, IsInclude(a), IsInclude(b)
  PROVE  Compares(check_include_depth(a, b), DepthKey(a), DepthKey(b))
<1>1. \A la, lb \in Nat \ {0} : Len(a.path) = la /\ Len(b.path) = lb =>
         Compares(check_include_depth(a, b), DepthKey(a), DepthKey(b))
  BY DEF Compares, check_include_depth, Prefer, Decide, Answers, DepthKey
<1>2. Len(a.path) \in Nat \ {0} /\ Len(b.path) \in Nat \ {0}
  BY IncludeTypes
<1> QED
  BY <1>1, <1>2

LEMMA PrioritiesAreNumbers ==
  ASSUME NEW path
  PROVE  LocalPriority(path) \in Int
<1>1. \A e : Lookup(INCLUDE_PRIORITIES_1LVL, e, 1) \in Int
  BY DEF Lookup, INCLUDE_PRIORITIES_1LVL
<1>2. \A e : Lookup(INCLUDE_PRIORITIES_2LVL, e, 0) \in Int
  BY DEF Lookup, INCLUDE_PRIORITIES_2LVL
<1> QED
  BY <1>1, <1>2 DEF LocalPriority

LEMMA LocalCompares ==
  ASSUME NEW a, NEW b
  PROVE  Compares(check_local_include(a, b), LocalPriority(a.path), LocalPriority(b.path))
<1>1. LocalPriority(a.path) \in Int /\ LocalPriority(b.path) \in Int
  BY PrioritiesAreNumbers
<1> QED
  BY <1>1 DEF Compares, check_local_include, Decide, Answers

\* The chain of tests is a comparison of three numbers and then of the paths.
Key1(x) == IF x.quote = "quotes" THEN LocalPriority(x.path) ELSE CKey(x)
Key2(x) == IF x.quote = "quotes" THEN DepthKey(x) ELSE ExternalKey(x)
Key3(x) == IF x.quote = "quotes" THEN 0 ELSE CppKey(x)

LEMMA KeyTypes ==
  ASSUME NEW x
  PROVE  Quote(x) \in Int /\ Key1(x) \in Int /\ Key2(x) \in Int /\ Key3(x) \in Int
<1>1. LocalPriority(x.path) \in Int
  BY PrioritiesAreNumbers
<1>2. CKey(x) \in Int /\ DepthKey(x) \in Int /\ ExternalKey(x) \in Int /\ CppKey(x) \in Int
  BY DEF CKey, DepthKey, ExternalKey, CppKey
<1> QED
  BY <1>1, <1>2 DEF Quote, Key1, Key2, Key3

Earlier(a, b) ==
    \/ Quote(a) < Quote(b)
    \/ Quote(a) = Quote(b) /\ Key1(a) < Key1(b)
    \/ Quote(a) = Quote(b) /\ Key1(a) = Key1(b) /\ Key2(a) < Key2(b)
    \/ Quote(a) = Quote(b) /\ Key1(a) = Key1(b) /\ Key2(a) = Key2(b) /\ Key3(a) < Key3(b)
    \/ /\ Quote(a) = Quote(b) /\ Key1(a) = Key1(b) /\ Key2(a) = Key2(b) /\ Key3(a) = Key3(b)
       /\ PathBefore(a.path, b.path)

LEMMA LessMeans ==
  ASSUME NEW a, NEW b, IsInclude(a), IsInclude(b)
  PROVE  __lt__(a, b) <=> Earlier(a, b)
<1>0. /\ a.quote \in {"quotes", "brackets"} /\ b.quote \in {"quotes", "brackets"}
      /\ a.cpp \in BOOLEAN /\ a.cHeader \in BOOLEAN /\ b.cpp \in BOOLEAN /\ b.cHeader \in BOOLEAN
      /\ a.quote = "quotes" => ~ a.external /\ ~ a.cpp
      /\ b.quote = "quotes" => ~ b.external /\ ~ b.cpp
  BY IncludeTypes
<1> DEFINE t1 == check_external_include(a, b)
           t2 == check_cpp_include(a, b)
           t3 == check_local_include(a, b)
           t4 == check_include_depth(a, b)
           four == <<t1, t2>> \o <<t3, t4>>
           two == <<t1, t2>> \o <<>>
           d4 == {i \in DOMAIN four : four[i] # "tie"}
           d2 == {i \in DOMAIN two : two[i] # "tie"}
<1>1. /\ Compares(t1, ExternalKey(a), ExternalKey(b)) /\ Compares(t2, CppKey(a), CppKey(b))
      /\ Compares(t3, LocalPriority(a.path), LocalPriority(b.path))
      /\ Compares(t4, DepthKey(a), DepthKey(b))
  BY PreferCompares, LocalCompares, DepthCompares
<1>2. compare_paths(a, b) <=>
         IF a.quote = "quotes"
         THEN IF d4 = {} THEN PathBefore(a.path, b.path) ELSE four[Min(d4)] = "a"
         ELSE IF d2 = {} THEN PathBefore(a.path, b.path) ELSE two[Min(d2)] = "a"
  <2>1. CASE a.quote = "quotes"
    BY <2>1 DEF compare_paths
  <2>2. CASE a.quote # "quotes"
    BY <2>2 DEF compare_paths
  <2> QED
    BY <2>1, <2>2
<1> HIDE DEF t1, t2, t3, t4
<1>3. t1 \in Answers /\ t2 \in Answers /\ t3 \in Answers /\ t4 \in Answers
  BY <1>1 DEF Compares
<1> HIDE DEF four, two
<1>9. four = <<t1, t2>> \o <<t3, t4>> /\ d4 = {i \in DOMAIN four : four[i] # "tie"}
  BY DEF four
<1>10. two = <<t1, t2>> \o <<>> /\ d2 = {i \in DOMAIN two : two[i] # "tie"}
  BY DEF two
<1> HIDE DEF d4, d2
<1>11. FourDecide(four, d4, t1, t2, t3, t4)
  BY <1>3, <1>9, FirstOfFour DEF FourTests
<1>4. /\ d4 = {} <=> t1 = "tie" /\ t2 = "tie" /\ t3 = "tie" /\ t4 = "tie"
      /\ d4 # {} =>
              (four[Min(d4)] = "a" <=>
                 \/ t1 = "a"
                 \/ t1 = "tie" /\ t2 = "a"
                 \/ t1 = "tie" /\ t2 = "tie" /\ t3 = "a"
                 \/ t1 = "tie" /\ t2 = "tie" /\ t3 = "tie" /\ t4 = "a")
  BY <1>11 DEF FourDecide
<1>5. /\ d2 = {} <=> t1 = "tie" /\ t2 = "tie"
      /\ d2 # {} => (two[Min(d2)] = "a" <=> t1 = "a" \/ (t1 = "tie" /\ t2 = "a"))
  BY <1>3, <1>10, FirstOfTwo
<1> DEFINE w4 == four[Min(d4)]
           w2 == two[Min(d2)]
<1> HIDE DEF w4, w2
<1>6. CASE a.quote = "quotes" /\ b.quote = "quotes"
  <2>1. t1 = "tie" /\ t2 = "tie"
    BY <1>0, <1>1, <1>6 DEF Compares, ExternalKey, CppKey
  <2>2. compare_paths(a, b) <=>
          \/ t3 = "a"
          \/ t3 = "tie" /\ t4 = "a"
          \/ t3 = "tie" /\ t4 = "tie" /\ PathBefore(a.path, b.path)
    BY <1>2, <1>3, <1>4, <1>6, <2>1 DEF w4, Answers
  <2>3. __lt__(a, b) <=> compare_paths(a, b)
    BY <1>6 DEF __lt__
  <2>4. /\ Quote(a) = 0 /\ Quote(b) = 0 /\ Key3(a) = 0 /\ Key3(b) = 0
        /\ Key1(a) = LocalPriority(a.path) /\ Key1(b) = LocalPriority(b.path)
        /\ Key2(a) = DepthKey(a) /\ Key2(b) = DepthKey(b)
    BY <1>6 DEF Quote, Key1, Key2, Key3
  <2> QED
    BY <1>1, <2>2, <2>3, <2>4 DEF Compares, Earlier
<1>7. CASE a.quote = "brackets" /\ b.quote = "brackets"
  <2>1. compare_paths(a, b) <=>
          \/ t1 = "a"
          \/ t1 = "tie" /\ t2 = "a"
          \/ t1 = "tie" /\ t2 = "tie" /\ PathBefore(a.path, b.path)
    BY <1>2, <1>3, <1>5, <1>7 DEF w2, Answers
  <2>2. /\ Quote(a) = 1 /\ Quote(b) = 1 /\ Key3(a) = CppKey(a) /\ Key3(b) = CppKey(b)
        /\ Key1(a) = CKey(a) /\ Key1(b) = CKey(b)
        /\ Key2(a) = ExternalKey(a) /\ Key2(b) = ExternalKey(b)
    BY <1>7 DEF Quote, Key1, Key2, Key3
  <2>3. __lt__(a, b) <=>
          IF Key1(a) # Key1(b) THEN Key1(a) < Key1(b) ELSE compare_paths(a, b)
    BY <1>0, <1>7, <2>2 DEF __lt__, CKey
  <2>4. Key1(a) \in Int /\ Key1(b) \in Int
    BY KeyTypes
  <2> QED
    BY <1>1, <2>1, <2>2, <2>3, <2>4 DEF Compares, Earlier
<1>8. CASE a.quote # b.quote
  BY <1>0, <1>8 DEF __lt__, Earlier, Quote
<1> QED
  BY <1>0, <1>6, <1>7, <1>8

\* Includes that are told apart by delimiter and path are ordered.
LEMMA IncludesAreOrdered ==
  ASSUME NEW S, \A x \in S : IsInclude(x),
         \A x, y \in S : x.quote = y.quote /\ x.path = y.path => x = y
  PROVE  IsOrder(S)
<1> DEFINE Paths == Seq(ToSet(PathOrder))
<1>0. /\ \A p \in Paths : ~ PathBefore(p, p)
      /\ \A p, q \in Paths : p = q \/ PathBefore(p, q) \/ PathBefore(q, p)
      /\ \A p, q, r \in Paths : PathBefore(p, q) /\ PathBefore(q, r) => PathBefore(p, r)
  BY PathsAreOrdered
<1>1. \A x \in S : x.path \in Paths /\ x.quote \in {"quotes", "brackets"}
  BY IncludeTypes
<1>2. \A x \in S : Quote(x) \in Int /\ Key1(x) \in Int /\ Key2(x) \in Int /\ Key3(x) \in Int
  BY KeyTypes
<1>3. \A x, y \in S : __lt__(x, y) <=> Earlier(x, y)
  BY LessMeans
<1>4. ASSUME NEW a \in S PROVE ~ __lt__(a, a)
  BY <1>0, <1>1, <1>2, <1>3 DEF Earlier
<1>5. ASSUME NEW a \in S, NEW b \in S PROVE a = b \/ __lt__(a, b) \/ __lt__(b, a)
  <2> SUFFICES ASSUME ~ Earlier(a, b), ~ Earlier(b, a) PROVE a = b
    BY <1>3
  <2>1. Quote(a) = Quote(b)
    BY <1>2 DEF Earlier
  <2>2. Key1(a) = Key1(b)
    BY <1>2, <2>1 DEF Earlier
  <2>3. Key2(a) = Key2(b)
    BY <1>2, <2>1, <2>2 DEF Earlier
  <2>4. Key3(a) = Key3(b)
    BY <1>2, <2>1, <2>2, <2>3 DEF Earlier
  <2>5. a.path = b.path
    BY <1>0, <1>1, <2>1, <2>2, <2>3, <2>4 DEF Earlier
  <2>6. a.quote = b.quote
    BY <1>1, <2>1 DEF Quote
  <2> QED
    BY <2>5, <2>6
<1>6. ASSUME NEW a \in S, NEW b \in S, NEW c \in S, __lt__(a, b), __lt__(b, c)
      PROVE  __lt__(a, c)
  <2>1. Earlier(a, b) /\ Earlier(b, c)
    BY <1>3, <1>6
  <2>2. PathBefore(a.path, b.path) /\ PathBefore(b.path, c.path) => PathBefore(a.path, c.path)
    BY <1>0, <1>1
  <2>3. /\ Quote(a) \in Int /\ Key1(a) \in Int /\ Key2(a) \in Int /\ Key3(a) \in Int
        /\ Quote(b) \in Int /\ Key1(b) \in Int /\ Key2(b) \in Int /\ Key3(b) \in Int
        /\ Quote(c) \in Int /\ Key1(c) \in Int /\ Key2(c) \in Int /\ Key3(c) \in Int
    BY <1>2
  <2>4. Earlier(a, c)
    BY <2>1, <2>2, <2>3 DEF Earlier
  <2> QED
    BY <2>4, <1>3
<1> QED
  BY <1>4, <1>5, <1>6 DEF IsOrder

-----------------------------------------------------------------------------
(* The includes of a file.                                                 *)

\* While a file is read, the includes that are found are those of its lines.
IncludesInv == phase \in {"lines", "tokens"} => header.includes \in Seq(IncludesOf(file))

LEMMA IncludesGrow ==
  ASSUME NEW S, NEW s \in Seq(S), NEW n, NEW h, "includes" \in DOMAIN h, h.includes = s,
         NEW line, line.include \in Seq(S)
  PROVE  HeaderStep(h, n, line).includes \in Seq(S)
<1>1. s \o line.include \in Seq(S)
  BY ConcatProperties
<1>2. HeaderStep(h, n, line).includes \in {s, s \o line.include}
  BY DEF HeaderStep
<1> QED
  BY <1>1, <1>2

LEMMA LineIncludes ==
  ASSUME NEW f, IsFile(f), NEW n \in DOMAIN f.lines
  PROVE  f.lines[n].include \in Seq(IncludesOf(f))
<1> DEFINE s == f.lines[n].include
<1>1. s \in Seq(Includes)
  BY DEF IsFile, IsLine
<1> HIDE DEF s
<1>2. s \in Seq(Range(s))
  BY <1>1, SeqOfRange
<1>3. Range(s) \subseteq IncludesOf(f)
  BY DEF IncludesOf, Range, ToSet, s
<1>4. Seq(Range(s)) \subseteq Seq(IncludesOf(f))
  BY <1>3, SeqMonotonic
<1> QED
  BY <1>2, <1>4 DEF s

\* The fields of the memory of directives.
HasIncludes == "includes" \in DOMAIN header

LEMMA InitIncludes ==
  ASSUME Init
  PROVE  HasIncludes /\ IncludesInv
  BY DEF Init, HasIncludes, IncludesInv, NewHeader

LEMMA StepIncludes ==
  ASSUME WalkInv, HasIncludes, IncludesInv, [Next]_vars
  PROVE  HasIncludes' /\ IncludesInv'
<1>1. ASSUME UNCHANGED header, phase' \notin {"lines", "tokens"} PROVE HasIncludes' /\ IncludesInv'
  BY <1>1 DEF HasIncludes, IncludesInv
<1>2. ASSUME UNCHANGED header, phase \in {"lines", "tokens"}, UNCHANGED <<project, at>>
      PROVE  HasIncludes' /\ IncludesInv'
  BY <1>2 DEF HasIncludes, IncludesInv, file
<1>3. ASSUME Abort PROVE HasIncludes' /\ IncludesInv'
  BY <1>1, <1>3 DEF Abort, scan
<1>4. CASE NextFile
  <2>1. CASE Ignored(project[at + 1])
    BY <1>1, <1>4, <2>1 DEF NextFile, scan
  <2>2. CASE ~ Ignored(project[at + 1])
    <3>1. header' = NewHeader
      BY <1>4, <2>2 DEF NextFile
    <3>2. "includes" \in DOMAIN header' /\ header'.includes = <<>>
      BY <3>1 DEF NewHeader
    <3> QED
      BY <3>2 DEF HasIncludes, IncludesInv
  <2> QED
    BY <2>1, <2>2
<1>5. CASE ReadLine /\ ~ Abort
  <2> DEFINE line == Lines[pos + 1]
  <2>1. /\ phase = "lines" /\ pos < Len(Lines) /\ header' = HeaderStep(header, pos + 1, line)
        /\ UNCHANGED <<project, at>>
    BY <1>5 DEF ReadLine
  <2>2. at > 0 /\ pos \in Nat
    BY <2>1, ProjectIsList DEF WalkInv
  <2>3. IsFile(file) /\ pos + 1 \in DOMAIN file.lines
    BY <2>1, <2>2, FileTypes DEF IsList, Lines
  <2>4. line.include \in Seq(IncludesOf(file))
    BY <2>3, LineIncludes DEF Lines
  <2>5. header.includes \in Seq(IncludesOf(file))
    BY <2>1 DEF IncludesInv
  <2> HIDE DEF line
  <2>6. header'.includes \in Seq(IncludesOf(file))
    BY <2>1, <2>4, <2>5, IncludesGrow DEF HasIncludes
  <2>7. "includes" \in DOMAIN header'
    BY <2>1 DEF HasIncludes, HeaderStep
  <2> QED
    BY <2>1, <2>6, <2>7 DEF HasIncludes, IncludesInv, file
<1>6. CASE FileRead /\ ~ Abort
  BY <1>2, <1>6 DEF FileRead, scan
<1>7. CASE ParseLine /\ ~ Abort
  BY <1>2, <1>7 DEF ParseLine, scan
<1>8. CASE FileParsed /\ ~ Abort
  BY <1>1, <1>8 DEF FileParsed, scan
<1>9. CASE (ReadLine \/ FileRead \/ ParseLine \/ FileParsed) /\ Abort
  BY <1>3, <1>9
<1>10. CASE WalkDone
  BY <1>1, <1>3, <1>10 DEF WalkDone, scan
<1>11. CASE PrintFormatting \/ PrintNamespaces \/ PrintTemplateErrors \/ PrintDependencies
  BY <1>1, <1>11 DEF PrintFormatting, PrintNamespaces, PrintTemplateErrors, PrintDependencies,
                     Counted, scan
<1>12. CASE Exit
  BY <1>1, <1>12 DEF Exit, scan
<1>13. CASE Exited \/ UNCHANGED vars
  <2>1. UNCHANGED <<header, phase, project, at>>
    BY <1>13 DEF Exited, vars
  <2> QED
    BY <2>1 DEF HasIncludes, IncludesInv, file
<1> QED
  BY <1>4, <1>5, <1>6, <1>7, <1>8, <1>9, <1>10, <1>11, <1>12, <1>13 DEF Next

\* The includes of a file as they are compared.
Fixed(f) == {fix_relative(f.directory, x) : x \in IncludesOf(f)}

\* They are includes that delimiter and path tell apart, and are not changed again.
LEMMA FixedOnce ==
  ASSUME NEW own, IsList(own), NEW x, IsInclude(x)
  PROVE  LET y == fix_relative(own, x)
         IN  IsInclude(y) /\ y.quote = x.quote /\ fix_relative(own, y) = y
<1> DEFINE y == fix_relative(own, x)
<1>1. x.path \in Seq(ToSet(PathOrder)) /\ x.path # <<>> /\ Len(x.path) \in Nat \ {0}
  BY IncludeTypes DEF IsInclude
<1>2. CASE y = x
  BY <1>2
<1>3. CASE y # x
  <2> DEFINE e == Last(x.path)
  <2>1. /\ y = [x EXCEPT !.path = <<e>>] /\ Len(x.path) = Len(own) + 1
    BY <1>3 DEF fix_relative
  <2>2. e \in ToSet(PathOrder)
    BY <1>1 DEF Last
  <2> HIDE DEF e
  <2>3. y.path = <<e>> /\ y.quote = x.quote /\ IsInclude(y)
    <3>1. x \in Includes /\ <<e>> \in Seq(ToSet(PathOrder)) /\ <<e>> # <<>>
      BY <2>2 DEF IsInclude
    <3>2. /\ y \in Includes /\ y.path = <<e>> /\ y.quote = x.quote
          /\ y.external = x.external /\ y.cpp = x.cpp /\ y.cHeader = x.cHeader
      BY <2>1, <3>1 DEF Includes
    <3> HIDE DEF y
    <3> QED
      BY <3>1, <3>2 DEF IsInclude
  <2>4. [y EXCEPT !.path = <<e>>] = y
    BY <2>1 DEF IsInclude, Includes
  <2>5. Last(y.path) = e
    BY <2>3 DEF Last
  <2>6. fix_relative(own, y) \in {y, [y EXCEPT !.path = <<Last(y.path)>>]}
    BY DEF fix_relative
  <2> QED
    BY <2>3, <2>4, <2>5, <2>6
<1> QED
  BY <1>2, <1>3

LEMMA FixedAreOrdered ==
  ASSUME NEW f, IsFile(f)
  PROVE  IsOrder(Fixed(f)) /\ \A y \in Fixed(f) : fix_relative(f.directory, y) = y
<1> DEFINE X == IncludesOf(f)
           S == Fixed(f)
<1>1. /\ IsList(f.directory)
      /\ \A x \in X : IsInclude(x) /\ (x.quote = "brackets" => fix_relative(f.directory, x) = x)
      /\ \A x, y \in X : x.quote = y.quote /\ x.path = y.path => x = y
  BY DEF IsFile, AreIncludesOf
<1>2. \A y \in S : \E x \in X : y = fix_relative(f.directory, x)
  BY DEF Fixed
<1> HIDE DEF X, S
<1>3. \A y \in S : IsInclude(y) /\ fix_relative(f.directory, y) = y
  BY <1>1, <1>2, FixedOnce
<1>4. ASSUME NEW y \in S, y.quote = "brackets" PROVE y \in X
  BY <1>1, <1>2, <1>4, FixedOnce
<1>5. ASSUME NEW y \in S, NEW z \in S, y.quote = z.quote, y.path = z.path PROVE y = z
  <2>1. y.quote \in {"quotes", "brackets"}
    BY <1>3, IncludeTypes
  <2>2. CASE y.quote = "brackets"
    BY <1>1, <1>4, <1>5, <2>2
  <2>3. CASE y.quote = "quotes"
    <3>1. /\ y \in Includes /\ z \in Includes
          /\ ~ y.external /\ ~ y.cpp /\ ~ y.cHeader /\ ~ z.external /\ ~ z.cpp /\ ~ z.cHeader
      BY <1>3, <1>5, <2>3 DEF IsInclude
    <3>2. y.external = z.external /\ y.cpp = z.cpp /\ y.cHeader = z.cHeader
      BY <3>1 DEF Includes
    <3> QED
      BY <1>5, <3>1, <3>2 DEF Includes
  <2> QED
    BY <2>1, <2>2, <2>3
<1>6. IsOrder(S)
  BY <1>3, <1>5, IncludesAreOrdered
<1> QED
  BY <1>3, <1>6 DEF S

\* The own header goes to the front of what is sorted.
FirstPlace(f, sorted) ==
    LET places == {i \in 1 .. Len(sorted) : <<sorted[i].quote, sorted[i].path>> = f.firstInclude}
    IN  IF places # {} THEN Min(places) ELSE 0

OwnFirst(f, sorted) ==
    IF f.isHeader \/ FirstPlace(f, sorted) = 0 THEN sorted
    ELSE <<sorted[FirstPlace(f, sorted)]>> \o SubSeq(sorted, 1, FirstPlace(f, sorted) - 1)
         \o SubSeq(sorted, FirstPlace(f, sorted) + 1, Len(sorted))

FixedList(f, includes) == [i \in DOMAIN includes |-> fix_relative(f.directory, includes[i])]

LEMMA ProperMeans ==
  ASSUME NEW f, NEW includes
  PROVE  ProperOrder(f, includes) = OwnFirst(f, sort(FixedList(f, includes)))
  BY DEF ProperOrder, OwnFirst, FixedList, SelectInSeq, FirstPlace

LEMMA FirstPlaceIsOne ==
  ASSUME NEW f, NEW sorted, Len(sorted) \in Nat
  PROVE  FirstPlace(f, sorted) \in 0 .. Len(sorted)
<1> DEFINE places == {i \in 1 .. Len(sorted) : <<sorted[i].quote, sorted[i].path>> = f.firstInclude}
<1>1. places \subseteq 1 .. Len(sorted) /\ FirstPlace(f, sorted) = IF places # {} THEN Min(places) ELSE 0
  BY DEF FirstPlace
<1> HIDE DEF places
<1>2. places \subseteq Nat
  BY <1>1
<1>3. CASE places = {}
  BY <1>1, <1>3
<1>4. CASE places # {}
  <2>1. Min(places) \in places
    BY <1>2, <1>4, LeastNumber
  <2>2. FirstPlace(f, sorted) = Min(places)
    BY <1>1, <1>4
  <2>3. Min(places) \in 1 .. Len(sorted)
    BY <1>1, <2>1
  <2> QED
    BY <2>2, <2>3
<1> QED
  BY <1>3, <1>4

LEMMA OwnFirstRearranges ==
  ASSUME NEW S, NEW f, NEW s \in Seq(S)
  PROVE  OwnFirst(f, s) \in Seq(S) /\ Rearranges(OwnFirst(f, s), s)
<1> DEFINE place == FirstPlace(f, s)
           n == Len(s)
           D == 1 .. Len(s)
<1>0. n \in Nat /\ (\A i \in D : s[i] \in S) /\ place \in 0 .. n
  BY FirstPlaceIsOne
<1>1. CASE f.isHeader \/ place = 0
  <2>1. OwnFirst(f, s) = s
    BY <1>1 DEF OwnFirst
  <2> DEFINE q == [i \in D |-> i]
  <2>2. q \in Bijection(D, D)
    <3>1. q \in [D -> D] /\ \A i \in D : q[i] = i
      OBVIOUS
    <3> HIDE DEF q
    <3> QED
      BY <3>1 DEF Bijection, Injection, Surjection, IsInjective
  <2>3. \A i \in D : s[i] = s[q[i]]
    OBVIOUS
  <2> HIDE DEF q
  <2> QED
    BY <2>1, <2>2, <2>3 DEF Rearranges
<1>2. CASE ~ (f.isHeader \/ place = 0)
  <2> DEFINE a == <<s[place]>>
             b == SubSeq(s, 1, place - 1)
             c == SubSeq(s, place + 1, n)
             m == a \o b
             r == m \o c
  <2>0. OwnFirst(f, s) = r
    BY <1>2 DEF OwnFirst
  <2>1. place \in D /\ place \in Int
    BY <1>0, <1>2
  <2> HIDE DEF place
  <2>2. a \in Seq(S) /\ Len(a) = 1 /\ a[1] = s[place]
    BY <1>0, <2>1
  <2>3. b \in Seq(S) /\ Len(b) = place - 1 /\ \A i \in 1 .. (place - 1) : b[i] = s[i]
    <3>1. \A i \in 1 .. (place - 1) : s[i] \in S
      BY <1>0, <2>1
    <3> QED
      BY <1>0, <2>1, <3>1, SubSeqProperties
  <2>4. c \in Seq(S) /\ Len(c) = n - place /\ \A i \in 1 .. (n - place) : c[i] = s[place + i]
    <3>1. \A i \in (place + 1) .. n : s[i] \in S
      BY <1>0, <2>1
    <3> QED
      BY <1>0, <2>1, <3>1, SubSeqProperties
  <2> HIDE DEF a, b, c
  <2>5. /\ m \in Seq(S) /\ Len(m) = place
        /\ \A i \in 1 .. place : m[i] = IF i = 1 THEN s[place] ELSE s[i - 1]
    <3>1. /\ a \o b \in Seq(S) /\ Len(a \o b) = 1 + (place - 1)
          /\ \A i \in 1 .. 1 + (place - 1) : (a \o b)[i] = IF i <= 1 THEN a[i] ELSE b[i - 1]
      <4>1. /\ a \o b \in Seq(S) /\ Len(a \o b) = Len(a) + Len(b)
            /\ \A i \in 1 .. Len(a) + Len(b) :
                 (a \o b)[i] = IF i <= Len(a) THEN a[i] ELSE b[i - Len(a)]
        BY <2>2, <2>3, ConcatProperties
      <4>2. Len(a) = 1 /\ Len(b) = place - 1
        BY <2>2, <2>3
      <4> QED
        BY <4>1, <4>2
    <3>2. ASSUME NEW i \in 1 .. place PROVE (a \o b)[i] = IF i = 1 THEN s[place] ELSE s[i - 1]
      <4>1. CASE i = 1
        BY <2>1, <2>2, <3>1, <4>1
      <4>2. CASE i # 1
        <5>1. i - 1 \in 1 .. (place - 1) /\ ~ (i <= 1) /\ i \in 1 .. 1 + (place - 1)
          BY <2>1, <4>2
        <5> QED
          BY <2>3, <3>1, <4>2, <5>1
      <4> QED
        BY <4>1, <4>2
    <3> QED
      BY <2>1, <3>1, <3>2
  <2> HIDE DEF m
  <2> DEFINE q == [i \in D |-> IF i = 1 THEN place ELSE IF i <= place THEN i - 1 ELSE i]
  <2>6. /\ r \in Seq(S) /\ Len(r) = n /\ \A i \in D : r[i] = s[q[i]]
    <3>1. /\ r \in Seq(S) /\ Len(r) = place + (n - place)
          /\ \A i \in 1 .. place + (n - place) : r[i] = IF i <= place THEN m[i] ELSE c[i - place]
      <4>1. /\ m \o c \in Seq(S) /\ Len(m \o c) = Len(m) + Len(c)
            /\ \A i \in 1 .. Len(m) + Len(c) :
                 (m \o c)[i] =
                      IF i <= Len(m) THEN m[i] ELSE c[i - Len(m)]
        BY <2>4, <2>5, ConcatProperties
      <4>2. Len(m) = place /\ Len(c) = n - place
        BY <2>4, <2>5
      <4> QED
        BY <4>1, <4>2
    <3>2. ASSUME NEW i \in D PROVE r[i] = s[q[i]]
      <4>0. i \in 1 .. place + (n - place) /\ i \in Int
        BY <1>0, <2>1
      <4>1. CASE i <= place
        <5>1. r[i] = IF i = 1 THEN s[place] ELSE s[i - 1]
          BY <2>1, <2>5, <3>1, <4>0, <4>1
        <5> QED
          BY <4>1, <5>1, <2>1, <4>0
      <4>2. CASE i > place
        <5>1. i - place \in 1 .. (n - place) /\ place + (i - place) = i
          BY <1>0, <2>1, <4>2
        <5>2. r[i] = s[i]
          BY <2>1, <2>4, <3>1, <4>0, <4>2, <5>1
        <5>3. q[i] = i
          BY <2>1, <4>0, <4>2
        <5> QED
          BY <5>2, <5>3
      <4> QED
        <5>1. i <= place \/ i > place
          BY <2>1, <4>0
        <5> QED
          BY <4>1, <4>2, <5>1
    <3> QED
      BY <1>0, <2>1, <3>1, <3>2
  <2>7. q \in Bijection(D, D)
    <3>1. q \in [D -> D] /\ \A i \in D : q[i] = IF i = 1 THEN place ELSE IF i <= place THEN i - 1 ELSE i
      BY <1>0, <2>1
    <3> HIDE DEF q
    <3>2. \A i, j \in D : q[i] = q[j] => i = j
      BY <1>0, <2>1, <3>1
    <3>3. ASSUME NEW j \in D PROVE \E i \in D : q[i] = j
      <4> DEFINE i == IF j = place THEN 1 ELSE IF j < place THEN j + 1 ELSE j
      <4>1. i \in D /\ q[i] = j
        BY <1>0, <2>1, <3>1
      <4> QED
        BY <4>1
    <3> QED
      BY <3>1, <3>2, <3>3 DEF Bijection, Injection, Surjection, IsInjective
  <2> HIDE DEF r, q
  <2> QED
    BY <2>0, <2>6, <2>7 DEF Rearranges
<1> QED
  BY <1>1, <1>2

\* What is found in another order is sorted in the same way.
LEMMA ProperIsTheSame ==
  ASSUME NEW f, IsFile(f), NEW s \in Seq(IncludesOf(f)), NEW order \in SetToSeqs(DOMAIN s)
  PROVE  ProperOrder(f, [i \in DOMAIN s |-> s[order[i]]]) = ProperOrder(f, s)
<1> DEFINE S == Fixed(f)
           D == 1 .. Len(s)
           t == [i \in DOMAIN s |-> s[order[i]]]
           fs == FixedList(f, s)
           ft == FixedList(f, t)
<1>0. DOMAIN s = D /\ Len(s) \in Nat /\ \A i \in D : s[i] \in IncludesOf(f)
  OBVIOUS
<1>1. IsFiniteSet(D) /\ Cardinality(D) = Len(s)
  <2>1. Len(s) \in Nat
    BY <1>0
  <2>2. IsFiniteSet(1 .. Len(s)) /\ Cardinality(1 .. Len(s)) = IF 1 > Len(s) THEN 0 ELSE Len(s) - 1 + 1
    BY <2>1, FS_Interval
  <2> QED
    BY <2>1, <2>2
<1>2. order \in [D -> D] /\ \A i, j \in D : i # j => order[i] # order[j]
  BY <1>0, <1>1 DEF SetToSeqs
<1>3. /\ fs \in Seq(S) /\ Len(fs) = Len(s) /\ \A i \in D : fs[i] = fix_relative(f.directory, s[i])
  <2>1. \A i \in D : fix_relative(f.directory, s[i]) \in S
    BY <1>0 DEF Fixed
  <2> QED
    BY <1>0, <2>1 DEF FixedList
<1>4. /\ ft \in Seq(S) /\ Len(ft) = Len(s) /\ \A i \in D : ft[i] = fix_relative(f.directory, s[order[i]])
  <2>1. \A i \in D : fix_relative(f.directory, s[order[i]]) \in S
    BY <1>0, <1>2 DEF Fixed
  <2> DEFINE g(i) == fix_relative(f.directory, s[order[i]])
  <2>2. ft = [i \in D |-> g(i)]
    BY <1>0 DEF FixedList
  <2>3. Len(s) \in Nat /\ \A i \in D : g(i) \in S
    BY <1>0, <2>1
  <2> HIDE DEF g
  <2>4. [i \in D |-> g(i)] \in Seq(S) /\ Len([i \in D |-> g(i)]) = Len(s)
    BY <2>3
  <2>5. ft \in Seq(S) /\ Len(ft) = Len(s) /\ \A i \in D : ft[i] = g(i)
    BY <2>2, <2>4
  <2> QED
    BY <2>5 DEF g
<1> HIDE DEF fs, ft
<1>5. order \in Bijection(D, D)
  <2> HIDE DEF D
  <2>1. order \in Injection(D, D)
    BY <1>2 DEF Injection, IsInjective
  <2>2. order \in Surjection(D, D)
    BY <1>1, <2>1, FS_Injection
  <2> QED
    BY <2>1, <2>2 DEF Bijection
<1>6. Rearranges(ft, fs)
  <2>1. \A i \in D : order[i] \in D /\ ft[i] = fs[order[i]]
    BY <1>2, <1>3, <1>4
  <2>2. Len(ft) = Len(fs) /\ D = 1 .. Len(fs)
    BY <1>3, <1>4
  <2> HIDE DEF D
  <2> QED
    BY <1>5, <2>1, <2>2 DEF Rearranges
<1>7. sort(ft) = sort(fs)
  BY <1>3, <1>4, <1>6, FixedAreOrdered, SortIsTheSame
<1> QED
  BY <1>7, ProperMeans DEF fs, ft

\* What is in its proper order stays so.
LEMMA ProperStays ==
  ASSUME NEW f, IsFile(f), NEW s \in Seq(IncludesOf(f))
  PROVE  ProperOrder(f, ProperOrder(f, s)) = ProperOrder(f, s)
<1> DEFINE S == Fixed(f)
           fs == FixedList(f, s)
           sorted == sort(fs)
           proper == OwnFirst(f, sorted)
<1>1. IsOrder(S) /\ \A y \in S : fix_relative(f.directory, y) = y
  BY FixedAreOrdered
<1>2. fs \in Seq(S)
  <2>1. \A i \in 1 .. Len(s) : fix_relative(f.directory, s[i]) \in S
    BY DEF Fixed
  <2> QED
    BY <2>1 DEF FixedList
<1> HIDE DEF S, fs
<1>3. sorted \in Seq(S) /\ Rearranges(sorted, fs)
  BY <1>1, <1>2, SortRises
<1> HIDE DEF sorted
<1>4. proper \in Seq(S) /\ Rearranges(proper, sorted)
  BY <1>3, OwnFirstRearranges
<1>5. ProperOrder(f, s) = proper
  BY ProperMeans DEF fs, sorted
<1> HIDE DEF proper
<1>6. FixedList(f, proper) = proper
  <2>1. FixedList(f, proper) = [i \in 1 .. Len(proper) |-> proper[i]]
    BY <1>1, <1>4 DEF FixedList
  <2> QED
    BY <1>4, <2>1
<1>7. Rearranges(proper, fs)
  BY <1>3, <1>4, RearrangesOn
<1>8. sort(proper) = sorted
  BY <1>1, <1>2, <1>4, <1>7, SortIsTheSame DEF sorted
<1>9. ProperOrder(f, proper) = OwnFirst(f, sort(FixedList(f, proper)))
  BY ProperMeans
<1> QED
  BY <1>5, <1>6, <1>8, <1>9 DEF proper

\* The order of the includes of a file does not depend on the order they are found in, and
\* what a report asks for is accepted (checkProjectStructure.py:83-222, 288-348): the tests
\* that compare two includes are a total order of those that a file can have, of any number.
THEOREM IncludesAreOrderedOnce == Spec => []IncludesHaveOneOrder
<1>1. Init => WalkInv /\ HasIncludes /\ IncludesInv
  BY InitWalk, InitIncludes
<1>2. WalkInv /\ HasIncludes /\ IncludesInv /\ [Next]_vars => (WalkInv /\ HasIncludes /\ IncludesInv)'
  BY StepWalk, StepIncludes
<1>3. WalkInv /\ IncludesInv => IncludesHaveOneOrder
  <2> SUFFICES ASSUME WalkInv, IncludesInv, phase = "tokens" PROVE IncludesHaveOneOrder
    BY DEF IncludesHaveOneOrder
  <2>1. IsFile(file)
    BY FileTypes DEF WalkInv
  <2>2. header.includes \in Seq(IncludesOf(file))
    BY DEF IncludesInv
  <2>3. \A order \in SetToSeqs(DOMAIN header.includes) :
          ProperOrder(file, [i \in DOMAIN header.includes |-> header.includes[order[i]]])
            = ProperOrder(file, header.includes)
    BY <2>1, <2>2, ProperIsTheSame
  <2>4. ProperOrder(file, ProperOrder(file, header.includes)) = ProperOrder(file, header.includes)
    BY <2>1, <2>2, ProperStays
  <2> QED
    BY <2>3, <2>4 DEF IncludesHaveOneOrder
<1> QED
  BY <1>1, <1>2, <1>3, PTL DEF Spec

-----------------------------------------------------------------------------
(* The namespace of a file.                                                *)

\* What it means to be a prefix.
LEMMA PrefixMeans ==
  ASSUME NEW x \in Seq(AnyToken), NEW y \in Seq(AnyToken), x # <<>>
  PROVE  /\ IsPrefix(x, x)
         /\ IsPrefix(x, y) => Len(x) <= Len(y) /\ StartsWith(y, x)
         /\ IsPrefix(x, y) /\ Len(y) <= Len(x) => x = y
<1> DEFINE n == Len(x)
<1>1. n \in Nat \ {0} /\ Len(y) \in Nat
  BY EmptySeq
<1>2. IsPrefix(x, y) => n <= Len(y) /\ SubSeq(x, 1, n) = SubSeq(y, 1, n)
  BY DEF IsPrefix
<1>3. IsPrefix(x, y) => \A i \in 1 .. n : x[i] = y[i]
  BY <1>1, <1>2
<1>4. IsPrefix(x, y) => StartsWith(y, x)
  <2> SUFFICES ASSUME IsPrefix(x, y) PROVE StartsWith(y, x)
    OBVIOUS
  <2>1. y[n] = Last(x) /\ n <= Len(y)
    BY <1>1, <1>2, <1>3 DEF Last
  <2>2. Front(x) = SubSeq(y, 1, n - 1)
    <3>1. SubSeq(x, 1, n - 1) = SubSeq(y, 1, n - 1)
      BY <1>1, <1>2, <1>3
    <3> QED
      BY <3>1 DEF Front
  <2> QED
    BY <2>1, <2>2 DEF StartsWith
<1>5. IsPrefix(x, y) /\ Len(y) <= n => x = y
  BY <1>1, <1>2, <1>3
<1>6. IsPrefix(x, x)
  BY <1>1 DEF IsPrefix
<1> QED
  BY <1>2, <1>4, <1>5, <1>6

\* The shortest name is that of the namespace that encloses all others, if there is one.
LEMMA ShortestEncloses ==
  ASSUME NEW spaces, \A m \in spaces : m.name \in Seq(AnyToken) /\ m.name # <<>>,
         NEW names, names = {m.name : m \in {m \in spaces : namespace_filter(m)}},
         \A x, y \in names : StartsWith(y, x) => IsPrefix(x, y),
         NEW found \in get_shortest_namespace_set(spaces)
  PROVE  LET enclosing == {x \in names : \A y \in names : IsPrefix(x, y)}
         IN  found = IF enclosing # {} THEN enclosing ELSE names
<1> DEFINE enclosing == {x \in names : \A y \in names : IsPrefix(x, y)}
           shortest == {x \in names : \A y \in names : Len(x) <= Len(y)}
<1>1. \A x \in names : x \in Seq(AnyToken) /\ x # <<>>
  OBVIOUS
<1>2. /\ names = {} => found = {}
      /\ names # {} => \E x \in shortest : found = IF \A y \in names : StartsWith(y, x) THEN {x} ELSE names
  BY DEF get_shortest_namespace_set
<1>3. \A x \in enclosing : x \in names /\ \A y \in names : IsPrefix(x, y)
  OBVIOUS
<1>4. \A x \in shortest : x \in names /\ \A y \in names : Len(x) <= Len(y)
  OBVIOUS
<1>5. \A x \in names : (\A y \in names : IsPrefix(x, y)) => x \in enclosing
  OBVIOUS
<1>6. CASE enclosing = {}
  <2>1. names = {} => found = names
    BY <1>2
  <2>2. ASSUME NEW x \in shortest PROVE ~ \A y \in names : StartsWith(y, x)
    BY <1>4, <1>5, <1>6
  <2>3. names # {} => found = names
    BY <1>2, <2>2
  <2> QED
    BY <1>6, <2>1, <2>3
<1>7. CASE enclosing # {}
  <2>1. PICK e \in enclosing : TRUE
    BY <1>7
  <2>2. e \in names /\ \A y \in names : IsPrefix(e, y)
    BY <1>3, <2>1
  <2>3. ASSUME NEW x \in names, Len(x) <= Len(e) PROVE x = e
    BY <1>1, <2>2, <2>3, PrefixMeans
  <2>4. ASSUME NEW x \in enclosing PROVE x = e
    <3>1. x \in names /\ IsPrefix(x, e)
      BY <1>3, <2>2
    <3>2. Len(x) <= Len(e)
      BY <1>1, <2>2, <3>1, PrefixMeans
    <3> QED
      BY <2>3, <3>1, <3>2
  <2>5. ASSUME NEW x \in shortest PROVE x = e
    BY <1>4, <2>2, <2>3
  <2>6. \A y \in names : StartsWith(y, e)
    BY <1>1, <2>2, PrefixMeans
  <2>7. PICK x \in shortest : found = IF \A y \in names : StartsWith(y, x) THEN {x} ELSE names
    BY <1>2, <2>2
  <2> HIDE DEF enclosing, shortest
  <2>8. found = {e}
    <3>1. x = e
      BY <2>5
    <3> QED
      BY <2>6, <2>7, <3>1
  <2>9. enclosing = {e}
    BY <2>1, <2>4
  <2> QED
    BY <2>8, <2>9 DEF enclosing
<1> QED
  BY <1>6, <1>7

-----------------------------------------------------------------------------
(* What the parser of a run has read.                                      *)

TokensOf(f) == [n \in DOMAIN f.lines |-> f.lines[n].toks]

\* The parser reads the lines of a file one after the other, and what it found at the end
\* decides about the namespace of the file.
ParseInv ==
    /\ \E S : entries \in Seq(S)
    /\ phase = "tokens" => parser = Reads(NewParser, JoinedTo(TokensOf(file))[pos])
    /\ (phase = "walk" /\ at > 0 /\ ~ Ignored(file)) =>
         /\ parser = ParserEnd(Reads(NewParser, Joined(TokensOf(file))))
         /\ Last(entries).namespaces \in get_shortest_namespace_set(parser.namespaces)

\* The tokens of the lines read so far.
LEMMA LinesFollow ==
  ASSUME NEW f, IsFile(f)
  PROVE  /\ Len(f.lines) \in Nat /\ JoinedTo(TokensOf(f))[0] = <<>>
         /\ Joined(TokensOf(f)) = JoinedTo(TokensOf(f))[Len(f.lines)]
         /\ \A k \in Nat : k + 1 <= Len(f.lines) =>
              /\ JoinedTo(TokensOf(f))[k + 1] = JoinedTo(TokensOf(f))[k] \o f.lines[k + 1].toks
              /\ f.lines[k + 1].toks \in Seq(AnyToken)
              /\ JoinedTo(TokensOf(f))[k] \in Seq(AnyToken)
<1> DEFINE list == TokensOf(f)
           n == Len(f.lines)
           text == JoinedTo(list)
           S == {k \in 0 .. n : text[k] \in Seq(AnyToken)}
<1>1. n \in Nat /\ DOMAIN f.lines = 1 .. n /\ \A i \in 1 .. n : f.lines[i].toks \in Seq(STRING)
  BY DEF IsFile, IsList, IsLine
<1>2. Len(list) = n /\ \A i \in 1 .. n : list[i] = f.lines[i].toks
  BY <1>1 DEF TokensOf
<1>3. \A i \in 1 .. n : list[i] \in Seq(AnyToken)
  BY <1>1, <1>2, TokensAre
<1> HIDE DEF list, n
<1>4. /\ Joined(list) = text[Len(list)] /\ text[0] = <<>>
      /\ \A k \in Nat : k + 1 <= Len(list) => text[k + 1] = text[k] \o list[k + 1]
  BY <1>1, <1>2, JoinedMeans
<1> HIDE DEF text
<1>5. ASSUME NEW k \in Nat, k + 1 <= n
      PROVE  text[k + 1] = text[k] \o list[k + 1] /\ list[k + 1] = f.lines[k + 1].toks /\ list[k + 1] \in Seq(AnyToken)
  <2>1. k + 1 \in 1 .. n
    BY <1>1, <1>5
  <2> QED
    BY <1>2, <1>3, <1>4, <1>5, <2>1
<1>6. 0 \in S
  <2>1. 0 \in 0 .. n
    BY <1>1
  <2>2. <<>> \in Seq(AnyToken)
    OBVIOUS
  <2> QED
    BY <1>4, <2>1, <2>2, Zenon
<1>7. ASSUME NEW k \in Nat, k + 1 <= n, k \in S PROVE k + 1 \in S
  <2> DEFINE a == text[k]
             b == list[k + 1]
  <2>1. a \in Seq(AnyToken) /\ b \in Seq(AnyToken) /\ text[k + 1] = a \o b
    BY <1>5, <1>7
  <2> HIDE DEF a, b
  <2>2. a \o b \in Seq(AnyToken)
    BY <2>1, TokensOfBoth
  <2>3. k + 1 \in 0 .. n
    BY <1>1, <1>7
  <2> QED
    BY <2>1, <2>2, <2>3
<1>8. ASSUME NEW k \in 0 .. n PROVE k \in S
  <2>1. \A j \in Nat : j + 1 <= k /\ j \in S => j + 1 \in S
    BY <1>1, <1>7
  <2>2. k \in Nat
    BY <1>1
  <2> HIDE DEF S
  <2> QED
    BY <1>6, <2>1, <2>2, CountingUpTo
<1>9. \A k \in Nat : k + 1 <= n => text[k] \in Seq(AnyToken)
  BY <1>1, <1>8
<1>10. Joined(list) = text[n]
  BY <1>2, <1>4
<1> QED
  BY <1>1, <1>4, <1>5, <1>9, <1>10 DEF list, n, text

LEMMA InitParse ==
  ASSUME Init
  PROVE  ParseInv
<1>1. entries = <<>> /\ phase = "walk" /\ at = 0
  BY DEF Init
<1>2. \E S : <<>> \in Seq(S)
  OBVIOUS
<1> QED
  BY <1>1, <1>2 DEF ParseInv

\* A line is parsed.
LEMMA ParseLineParses ==
  ASSUME WalkInv, ParseInv, ParseLine, ~ Abort
  PROVE  ParseInv'
<1> DEFINE toks == Lines[pos + 1].toks
           text == JoinedTo(TokensOf(file))
<1>1. /\ phase = "tokens" /\ phase' = "tokens" /\ pos' = pos + 1 /\ pos < Len(Lines)
      /\ parser' = Reads(parser, toks) /\ UNCHANGED <<project, at, entries>>
  BY DEF ParseLine, Reads
<1>2. pos \in Nat /\ at > 0
  BY <1>1 DEF WalkInv
<1>3. IsFile(file)
  BY <1>2, FileTypes
<1>4. pos + 1 <= Len(file.lines)
  <2>1. Len(Lines) \in Nat
    BY <1>2, FileTypes DEF IsList
  <2> QED
    BY <1>1, <1>2, <2>1 DEF Lines
<1>5. /\ text[pos + 1] = text[pos] \o toks /\ toks \in Seq(AnyToken) /\ text[pos] \in Seq(AnyToken)
  BY <1>2, <1>3, <1>4, LinesFollow DEF Lines
<1>6. parser = Reads(NewParser, text[pos])
  BY <1>1 DEF ParseInv
<1> DEFINE a == text[pos]
<1> HIDE DEF toks
<1>7. Reads(NewParser, a \o toks) = Reads(Reads(NewParser, a), toks)
  <2> HIDE DEF a
  <2> QED
    BY <1>5, ReadsOn DEF a
<1>8. parser' = Reads(NewParser, text[pos + 1])
  BY <1>1, <1>5, <1>6, <1>7
<1>9. file' = file
  BY <1>1 DEF file
<1>10. (\E S : entries \in Seq(S))'
  BY <1>1 DEF ParseInv
<1> QED
  BY <1>1, <1>8, <1>9, <1>10 DEF ParseInv

\* A file was parsed.
LEMMA FileParsedParses ==
  ASSUME WalkInv, ParseInv, FileParsed, ~ Abort
  PROVE  ParseInv'
<1> DEFINE p == ParserEnd(parser)
<1>1. /\ phase = "tokens" /\ phase' = "walk" /\ pos = Len(Lines) /\ parser' = p
      /\ UNCHANGED <<options, project, at>>
  BY DEF FileParsed
<1>2. PICK candidates \in get_shortest_namespace_set(p.namespaces) :
        entries' = Append(entries, [file |-> at, namespaces |-> candidates,
                                    templateErrors |-> p.templateErrors])
  BY DEF FileParsed
<1> DEFINE entry == [file |-> at, namespaces |-> candidates, templateErrors |-> p.templateErrors]
<1>3. entry.namespaces = candidates /\ entries' = Append(entries, entry)
  BY <1>2
<1> HIDE DEF entry
<1>4. (\E S : entries' \in Seq(S)) /\ Last(entries') = entry
  <2> DEFINE grown == Append(entries, entry)
  <2>1. \E S : entries \in Seq(S)
    BY DEF ParseInv
  <2>2. /\ \E S : grown \in Seq(S)
        /\ Len(grown) = Len(entries) + 1
        /\ grown[Len(entries) + 1] = entry
    BY <2>1, ListGrows
  <2>3. entries' = grown
    BY <1>3
  <2> HIDE DEF grown
  <2> QED
    BY <2>2, <2>3 DEF Last
<1>5. IsFile(file)
  BY <1>1, FileTypes DEF WalkInv
<1>6. parser = Reads(NewParser, Joined(TokensOf(file)))
  <2>1. Joined(TokensOf(file)) = JoinedTo(TokensOf(file))[Len(file.lines)]
    BY <1>5, LinesFollow
  <2> QED
    BY <1>1, <2>1 DEF ParseInv, Lines
<1>7. file' = file
  BY <1>1 DEF file
<1>8. Last(entries').namespaces \in get_shortest_namespace_set(parser'.namespaces)
  BY <1>1, <1>2, <1>3, <1>4
<1>9. parser' = ParserEnd(Reads(NewParser, Joined(TokensOf(file'))))
  BY <1>1, <1>6, <1>7
<1> HIDE DEF p
<1> QED
  BY <1>1, <1>4, <1>8, <1>9 DEF ParseInv

\* A file was read, and its tokens are next.
LEMMA FileReadParses ==
  ASSUME WalkInv, ParseInv, FileRead, ~ Abort
  PROVE  ParseInv'
<1>1. phase = "lines" /\ phase' = "tokens" /\ pos' = 0 /\ parser' = NewParser /\ UNCHANGED <<project, at, entries>>
  BY DEF FileRead
<1>2. IsFile(file)
  BY <1>1, FileTypes DEF WalkInv
<1>3. JoinedTo(TokensOf(file))[0] = <<>>
  BY <1>2, LinesFollow
<1>4. Reads(NewParser, <<>>) = NewParser
  BY ReadsNothing
<1>5. file' = file
  BY <1>1 DEF file
<1>6. (\E S : entries \in Seq(S))'
  BY <1>1 DEF ParseInv
<1> QED
  BY <1>1, <1>3, <1>4, <1>5, <1>6 DEF ParseInv

\* Every action keeps to what was read.
LEMMA StepParse ==
  ASSUME WalkInv, ParseInv, [Next]_vars
  PROVE  ParseInv'
<1>1. ASSUME UNCHANGED entries, phase' \notin {"walk", "tokens"} PROVE ParseInv'
  BY <1>1 DEF ParseInv
<1>2. ASSUME Abort PROVE ParseInv'
  BY <1>1, <1>2 DEF Abort
<1>3. CASE NextFile
  <2>1. CASE Ignored(project[at + 1])
    <3>1. UNCHANGED <<phase, options, project, entries>> /\ phase = "walk" /\ at' = at + 1
      BY <1>3, <2>1 DEF NextFile
    <3>2. Ignored(file)'
      BY <2>1, <3>1 DEF Ignored, file
    <3>3. (\E S : entries \in Seq(S))'
      BY <3>1 DEF ParseInv
    <3> QED
      BY <3>1, <3>2, <3>3 DEF ParseInv
  <2>2. CASE ~ Ignored(project[at + 1])
    BY <1>1, <1>3, <2>2 DEF NextFile
  <2> QED
    BY <2>1, <2>2
<1>4. CASE ReadLine /\ ~ Abort
  BY <1>1, <1>4 DEF ReadLine
<1>5. CASE FileRead /\ ~ Abort
  BY <1>5, FileReadParses
<1>6. CASE ParseLine /\ ~ Abort
  BY <1>6, ParseLineParses
<1>7. CASE FileParsed /\ ~ Abort
  BY <1>7, FileParsedParses
<1>8. CASE (ReadLine \/ FileRead \/ ParseLine \/ FileParsed) /\ Abort
  BY <1>2, <1>8
<1>9. CASE WalkDone
  BY <1>1, <1>2, <1>9 DEF WalkDone
<1>10. CASE PrintFormatting \/ PrintNamespaces \/ PrintTemplateErrors \/ PrintDependencies
  BY <1>1, <1>10 DEF PrintFormatting, PrintNamespaces, PrintTemplateErrors, PrintDependencies, Counted
<1>11. CASE Exit
  BY <1>1, <1>11 DEF Exit
<1>12. CASE Exited \/ UNCHANGED vars
  <2>1. UNCHANGED <<options, entries, phase, project, at, pos, parser>>
    BY <1>12 DEF Exited, vars
  <2>2. UNCHANGED file
    BY <2>1 DEF file
  <2> QED
    BY <2>1, <2>2 DEF ParseInv, Ignored
<1> QED
  BY <1>3, <1>4, <1>5, <1>6, <1>7, <1>8, <1>9, <1>10, <1>11, <1>12 DEF Next

\* A file that is written as the namespace parser expects is judged by what it declares
\* (Parser.py; checkProjectStructure.py:478-501): whatever its pieces, however they are spread
\* over its lines, and whatever was parsed before, the parser finds each of its namespaces
\* with the kinds of declarations in it, and the namespace of the file is the one that
\* encloses all others.
THEOREM DeclaredNamespacesAreFound == Spec => []NamespacesAreFound
<1>1. Init => WalkInv /\ ParseInv
  BY InitWalk, InitParse
<1>2. WalkInv /\ ParseInv /\ [Next]_vars => (WalkInv /\ ParseInv)'
  BY StepWalk, StepParse
<1>3. WalkInv /\ ParseInv => NamespacesAreFound
  <2> SUFFICES ASSUME WalkInv, ParseInv, phase = "walk", at > 0, file.declares # <<>>, ~ Ignored(file)
               PROVE  NamespacesAreFound
    BY DEF NamespacesAreFound
  <2> DEFINE declared == Declared(file.declares[1])
             names == {ns.name : ns \in {ns \in declared : namespace_filter(ns)}}
             enclosing == {x \in names : \A y \in names : IsPrefix(x, y)}
             told == \A x, y \in names : StartsWith(y, x) => IsPrefix(x, y)
             found == Last(entries).namespaces
  <2>1. IsText(file.declares[1]) /\ TextOfPieces(file.declares[1]) = Joined(TokensOf(file))
    <3>1. IsFile(file)
      BY FileTypes
    <3> QED
      BY <3>1 DEF IsFile, TokensOf
  <2>2. /\ parser = ParserEnd(Reads(NewParser, TextOfPieces(file.declares[1])))
        /\ found \in get_shortest_namespace_set(parser.namespaces)
    BY <2>1 DEF ParseInv
  <2>3. parser.namespaces = declared
    BY <2>1, <2>2, TextIsParsed
  <2>4. \A m \in declared : m.name \in Seq(AnyToken) /\ m.name # <<>>
    BY <2>1, DeclaredNames
  <2>5. found \in get_shortest_namespace_set(declared)
    BY <2>2, <2>3
  <2> HIDE DEF declared, found
  <2>6. told => found = IF enclosing # {} THEN enclosing ELSE names
    <3> SUFFICES ASSUME told PROVE found = IF enclosing # {} THEN enclosing ELSE names
      OBVIOUS
    <3> HIDE DEF names
    <3> QED
      BY <2>4, <2>5, ShortestEncloses DEF names
  <2> QED
    BY <2>3, <2>6 DEF NamespacesAreFound, declared, found
<1> QED
  BY <1>1, <1>2, <1>3, PTL DEF Spec
=============================================================================
