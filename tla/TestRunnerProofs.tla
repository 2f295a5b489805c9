--------------------------- MODULE TestRunnerProofs ---------------------------
(***************************************************************************)
(* What `nexl test' keeps, for any files, labels, names, tags and seeds,   *)
(* any number of forms, tests, commands and kills.                         *)
(***************************************************************************)
EXTENDS TestRunner, SublistsProofs

-----------------------------------------------------------------------------
(* Types.                                                                  *)

(* What the items a file declares, the registries, the run of a file and   *)
(* the open describe forms are.                                            *)
FullNames == Seq(Labels) \X Names
HooksOf(kind) == [file : ToSet(Files), kind : {kind}, path : Seq(Nat), at : Nat]
Tests == [file : ToSet(Files), kind : {"test"}, path : Seq(Nat), at : Nat,
          scope : Seq(Labels), meta : Metas, labels : Seq(Labels), name : Names,
          setups : Seq(HooksOf("setup")), teardowns : Seq(HooksOf("teardown"))]
Marks == {"describe", "setup", "teardown", "setupAll", "teardownAll"}
Items == Tests \cup UNION {HooksOf(kind) : kind \in Marks}
Results == [test : Tests, status : {"passed", "failed", "skipped"}]

Registries ==
    [tests : Seq(Tests), describe : Seq(Labels), focus : SUBSET FullNames,
     tags : SUBSET (FullNames \X SUBSET Tags), flaky : SUBSET (FullNames \X {Retries}),
     setup : Seq(HooksOf("setup")), teardown : Seq(HooksOf("teardown")),
     setupAll : Seq(HooksOf("setupAll")), teardownAll : Seq(HooksOf("teardownAll")),
     failedSeeds : Seq(Seeds), overrides : Seq(Seeds)]

Runs ==
    [tests : Seq(Tests), flaky : SUBSET (FullNames \X {Retries}), tries : Nat,
     setupAll : Seq(HooksOf("setupAll")), teardownAll : Seq(HooksOf("teardownAll")),
     results : Seq(Results)]

Scopes == [label : Labels, at : Nat, setup : Nat, teardown : Nat]

(* The phases in which a file is being worked on.                          *)
InFile == {"eval", "setup-all", "tests"}

(* The fields of the runner keep their types; scopes are only open while a *)
(* file is evaluated.                                                      *)
Typed ==
    /\ phase \in {"none", "next"} \cup InFile
    /\ args \in Args
    /\ rest \in Seq(ToSet(Files)) /\ (phase \in InFile => rest # <<>>)
    /\ scopes \in Seq(Scopes) /\ (phase # "eval" => scopes = <<>>)
    /\ registry \in Registries
    /\ run \in Runs
    /\ allPassed \in BOOLEAN
    /\ verdict \in {"none", "ok", "failed"}
    /\ disk \in Seq(Seeds)
    /\ declared \in Seq(Items)
    /\ trace \in Seq([what : Items, ok : BOOLEAN])
    /\ failedHere \in SUBSET Seeds
    /\ broken \in {"no", "run", "eval"}

(* The open describe forms remember depths of the hook stacks, the inner   *)
(* ones no smaller depths than the outer ones.                             *)
ScopesBounded ==
    \A k \in DOMAIN scopes :
        /\ scopes[k].setup <= Len(registry.setup)
        /\ scopes[k].teardown <= Len(registry.teardown)
        /\ \A l \in 1..k : /\ scopes[l].setup <= scopes[k].setup
                           /\ scopes[l].teardown <= scopes[k].teardown

(* Outside of a file nothing is waiting to run.                            *)
AtRest ==
    /\ phase = "none" => registry = EmptyRegistry /\ declared = <<>> /\ trace = <<>>
    /\ phase = "eval" => run = NoRun /\ trace = <<>>

(* The test that is about to run has retries left or just used the last.   *)
RetriesKept == run.tests # <<>> => run.tries <= RetriesOf(Head(run.tests))

-----------------------------------------------------------------------------
(* The exit status.                                                        *)

(* A test of this file has failed.                                         *)
SomeFailed == \E i \in DOMAIN run.results : run.results[i].status = "failed"

(* Before the verdict nothing is reported, and whatever broke is           *)
(* remembered until then: in the command's flag, or among the results of   *)
(* the file that is running.                                               *)
VerdictInv ==
    /\ phase # "none" => verdict = "none"
    /\ VerdictHonest
    /\ phase # "none" /\ broken # "no" =>
          ~allPassed \/ (phase = "tests" /\ SomeFailed)

(* The seeds to be written for a file are those that failed in it.         *)
SeedsInv == phase \in InFile => ToSet(registry.failedSeeds) = failedHere

-----------------------------------------------------------------------------
(* Evaluation.                                                             *)

(* The hooks that follow describe forms, and those that are the file's.    *)
HookKinds == {"setup", "teardown"}
AllKinds == {"setupAll", "teardownAll"}

(* Items know their place; a path leads through earlier items.             *)
WellPlaced(decl) ==
    \A i \in DOMAIN decl :
        /\ decl[i].at = i
        /\ \A j \in DOMAIN decl[i].path : decl[i].path[j] < i

(* Items stand where they say, and scopes were opened by earlier items.    *)
Ordered ==
    /\ WellPlaced(declared)
    /\ \A k \in DOMAIN scopes : scopes[k].at <= Len(declared)

(* The items of a kind, and those of them in force at a place of the file. *)
Places(decl, kind) == {i \in DOMAIN decl : decl[i].kind = kind}
OfKind(decl, kind) == Sublist(decl, Places(decl, kind))
PlacesInForce(decl, kind, path) ==
    {i \in DOMAIN decl : decl[i].kind = kind /\ IsPrefix(decl[i].path, path)}
InForce(decl, kind, path) == Sublist(decl, PlacesInForce(decl, kind, path))

(* The registries hold what has been declared.                             *)
RegistryFollows ==
    phase = "eval" =>
        /\ \A kind \in HookKinds : registry[kind] = InForce(declared, kind, Here)
        /\ \A kind \in AllKinds : registry[kind] = OfKind(declared, kind)
        /\ registry.tests = OfKind(declared, "test")

(* An open describe form remembers what was in force around it.            *)
ScopesRemember ==
    \A k \in DOMAIN scopes, kind \in HookKinds :
        SubSeq(registry[kind], 1, scopes[k][kind]) = InForce(declared, kind, SubSeq(Here, 1, k - 1))

(* The label stack ends with the labels of the open describe forms, and is *)
(* nothing but them until an evaluation is broken off inside of one.       *)
LabelsFollow ==
    /\ IsSuffix(ScopeLabels, registry.describe)
    /\ broken # "eval" => registry.describe = ScopeLabels

-----------------------------------------------------------------------------
(* Running.                                                                *)

(* Where an item of a kind was executed.                                   *)
TracedAt(kind) == {i \in DOMAIN trace : trace[i].what.kind = kind}

(* What is still to run was declared by this file.  Setups either have run *)
(* or are due before any test; teardowns run once each, in the order of    *)
(* the file, when no test is left.                                         *)
DueAreDeclared ==
    /\ phase \in {"setup-all", "tests"} => ToSet(run.tests) \subseteq ToSet(declared)
    /\ phase = "setup-all" =>
          /\ registry.teardownAll = OfKind(declared, "teardownAll")
          /\ ToSet(run.setupAll) \subseteq ToSet(declared)
          /\ DOMAIN trace \subseteq TracedAt("setupAll")
          /\ \A i \in Places(declared, "setupAll") :
                \/ declared[i] \in ToSet(run.setupAll)
                \/ \E j \in DOMAIN trace : trace[j] = Traced(declared[i], TRUE)
    /\ phase = "tests" =>
          /\ \A i \in Places(declared, "setupAll") :
                \E j \in DOMAIN trace :
                    /\ trace[j] = Traced(declared[i], TRUE)
                    /\ \A l \in TracedAt("test") : j < l
          /\ run.tests # <<>> => TracedAt("teardownAll") = {}
          /\ \A i \in DOMAIN run.teardownAll :
                /\ run.teardownAll[i] \in ToSet(declared)
                /\ \A j \in DOMAIN run.teardownAll : j < i => run.teardownAll[j].at < run.teardownAll[i].at
                /\ \A j \in TracedAt("teardownAll") : trace[j].what.at < run.teardownAll[i].at

(* What has run and what is left are what the file selects, in order.      *)
SelectionInv ==
    /\ phase = "eval" => registry.focus = FocusDeclared /\ registry.tags = TagsDeclared
    /\ phase = "setup-all" => run.tests = SelectedByFile /\ run.results = <<>>
    /\ phase = "tests" =>
          [i \in DOMAIN run.results |-> run.results[i].test] \o run.tests = SelectedByFile

-----------------------------------------------------------------------------
(* Sequences.                                                              *)

(* A function on the positions of a sequence is a sequence as long as it.  *)
LEMMA MapSeq ==
    ASSUME NEW S, NEW T, NEW s \in Seq(S), NEW f \in [DOMAIN s -> T]
    PROVE  f \in Seq(T) /\ Len(f) = Len(s)
  <1>1. Len(s) \in Nat /\ DOMAIN s = 1..Len(s)
    BY LenProperties
  <1>2. f \in [1..Len(s) -> T]
    BY <1>1
  <1>3. QED
    BY <1>1, <1>2, SeqDef, LenProperties

(* The elements of a sequence.                                             *)
LEMMA SetOf ==
    ASSUME NEW S, NEW s \in Seq(S)
    PROVE  /\ ToSet(s) \subseteq S
           /\ \A i \in DOMAIN s : s[i] \in ToSet(s)
           /\ \A x \in ToSet(s) : \E i \in DOMAIN s : x = s[i]
  BY ElementOfSeq, LenProperties DEF ToSet

(* A sequence from behind has the same type.                               *)
LEMMA ReverseType ==
    ASSUME NEW S, NEW s \in Seq(S)
    PROVE  Reverse(s) \in Seq(S) /\ Len(Reverse(s)) = Len(s)
  <1> DEFINE n == Len(s)
  <1>1. n \in Nat /\ \A i \in 1..n : s[i] \in S
    BY LenProperties, ElementOfSeq
  <1> HIDE DEF n
  <1>2. \A i \in 1..n : (n - i) + 1 \in 1..n
    BY <1>1
  <1>3. Reverse(s) \in [1..n -> S]
    BY <1>1, <1>2 DEF Reverse, n
  <1>4. QED
    BY <1>1, <1>3, SeqDef, LenProperties DEF n

(* The head of a sequence that is not empty, and its tail.                 *)
LEMMA HeadIn ==
    ASSUME NEW S, NEW s \in Seq(S), s # <<>>
    PROVE  Head(s) \in S /\ Head(s) \in ToSet(s) /\ Tail(s) \in Seq(S)
  <1>1. Head(s) \in S /\ Tail(s) \in Seq(S) /\ Head(s) = s[1] /\ 1 \in DOMAIN s
    BY HeadTailProperties, LenProperties
  <1>2. QED
    BY <1>1 DEF ToSet

-----------------------------------------------------------------------------
(* Types.                                                                  *)

(* The place being evaluated, and its labels, are sequences.               *)
LEMMA HereType ==
    ASSUME scopes \in Seq(Scopes)
    PROVE  /\ Here \in Seq(Nat) /\ Len(Here) = Len(scopes)
           /\ ScopeLabels \in Seq(Labels) /\ Len(ScopeLabels) = Len(scopes)
  <1>1. \A i \in DOMAIN scopes : scopes[i].at \in Nat /\ scopes[i].label \in Labels
    <2>1. \A i \in DOMAIN scopes : scopes[i] \in Scopes
      BY ElementOfSeq, LenProperties
    <2>2. QED
      BY <2>1 DEF Scopes
  <1>2. Here \in [DOMAIN scopes -> Nat] /\ ScopeLabels \in [DOMAIN scopes -> Labels]
    BY <1>1 DEF Here, ScopeLabels
  <1>3. QED
    BY <1>2, MapSeq

(* What is written at a place of a file is a hook of its kind.             *)
LEMMA WrittenType ==
    ASSUME Typed, phase = "eval", NEW kind
    PROVE  Written(kind) \in HooksOf(kind)
  <1>1. File \in ToSet(Files)
    BY HeadIn DEF Typed, InFile, File
  <1>2. Here \in Seq(Nat) /\ Len(declared) \in Nat
    BY HereType, LenProperties DEF Typed
  <1>3. QED
    BY <1>1, <1>2 DEF Written, HooksOf

(* Performing a check or a hook touches the seeds only.                    *)
LEMMA PerformType ==
    ASSUME Typed, NEW o \in Outcomes, Perform(o)
    PROVE  /\ registry' \in Registries
           /\ registry' = [registry EXCEPT !.overrides = registry'.overrides,
                                           !.failedSeeds = registry.failedSeeds \o o.seeds]
           /\ failedHere' \in SUBSET Seeds
           /\ failedHere' = failedHere \cup ToSet(o.seeds)
           /\ o.seeds \in Seq(Seeds)
  <1>1. o.seeds \in Seq(Seeds)
    <2>1. o.seeds = <<>> \/ \E seed \in Seeds : o.seeds = <<seed>>
      BY DEF Outcomes
    <2>2. \A seed \in Seeds : <<seed>> \in Seq(Seeds)
      OBVIOUS
    <2>3. <<>> \in Seq(Seeds)
      OBVIOUS
    <2>4. QED
      BY <2>1, <2>2, <2>3
  <1>2. registry.failedSeeds \o o.seeds \in Seq(Seeds)
    BY <1>1, ConcatProperties DEF Typed, Registries
  <1>3. registry' = After(registry, o)
    BY DEF Perform
  <1>4. After(registry, o).overrides \in Seq(Seeds)
    BY EmptySeq DEF After, Typed, Registries
  <1>5. registry' \in Registries
    BY <1>2, <1>3, <1>4 DEF After, Typed, Registries
  <1>6. registry' = [registry EXCEPT !.overrides = registry'.overrides,
                                     !.failedSeeds = registry.failedSeeds \o o.seeds]
    BY <1>3 DEF After, Typed, Registries
  <1>7. ToSet(o.seeds) \subseteq Seeds
    BY <1>1, SetOf
  <1>8. QED
    BY <1>1, <1>5, <1>6, <1>7 DEF Perform, Typed

(* The state in which a process has just started is typed.                 *)
LEMMA EmptyTypes ==
    /\ EmptyRegistry \in Registries
    /\ NoRun \in Runs
    /\ <<>> \in Seq(Items) /\ <<>> \in Seq(Seeds) /\ <<>> \in Seq(Scopes)
    /\ <<>> \in Seq(ToSet(Files)) /\ <<>> \in Seq([what : Items, ok : BOOLEAN])
  BY DEF EmptyRegistry, Registries, NoRun, Runs

(* The runner is typed at first.                                           *)
LEMMA TypedInit == Init => Typed
  BY EmptyTypes DEF Init, Typed, InFile

(* The rest of the files is a sequence of files.                           *)
LEMMA NextFileType ==
    ASSUME Typed, rest # <<>>, NEW passed \in BOOLEAN, NextFile(passed)
    PROVE  /\ phase' = "next"
           /\ allPassed' = (allPassed /\ passed)
           /\ allPassed' \in BOOLEAN
           /\ rest' \in Seq(ToSet(Files))
  BY HeadIn, EmptyTypes DEF Typed, NextFile

(* A form that declares an item keeps the types.                           *)
LEMMA DeclareType ==
    ASSUME Typed, phase = "eval", NEW d \in Items, Declare(d),
           registry' \in Registries, scopes' \in Seq(Scopes),
           UNCHANGED <<EvalFrame, phase, broken>>
    PROVE  Typed'
  <1>1. declared' \in Seq(Items)
    BY AppendProperties DEF Typed, Declare
  <1>2. QED
    BY <1>1 DEF Typed, EvalFrame, InFile

(* Every hook registry is typed, and one more hook keeps it.               *)
LEMMA HookType ==
    ASSUME Typed, NEW kind \in {"setup", "teardown", "setupAll", "teardownAll"},
           RegisterHook(kind)
    PROVE  Typed'
  <1>1. phase = "eval"
    BY DEF RegisterHook, Evaluating
  <1>2. Written(kind) \in HooksOf(kind) /\ Written(kind) \in Items
    BY <1>1, WrittenType DEF Items, Marks
  <1>3. registry[kind] \in Seq(HooksOf(kind))
    BY DEF Typed, Registries
  <1>4. Append(registry[kind], Written(kind)) \in Seq(HooksOf(kind))
    BY <1>2, <1>3, AppendProperties
  <1>5. registry' \in Registries
    BY <1>4 DEF RegisterHook, Typed, Registries
  <1>6. QED
    BY <1>1, <1>2, <1>5, DeclareType DEF RegisterHook, Typed

(* A test is what Tests says.                                              *)
LEMMA WrittenTestType ==
    ASSUME Typed, phase = "eval", NEW n \in Names, NEW m \in Metas
    PROVE  WrittenTest(n, m) \in Tests
  <1>1. File \in ToSet(Files)
    BY HeadIn DEF Typed, InFile, File
  <1>2. Here \in Seq(Nat) /\ ScopeLabels \in Seq(Labels) /\ Len(declared) \in Nat
    BY HereType, LenProperties DEF Typed
  <1>3. registry.describe \in Seq(Labels) /\ registry.setup \in Seq(HooksOf("setup"))
    BY DEF Typed, Registries
  <1>4. Reverse(registry.teardown) \in Seq(HooksOf("teardown"))
    BY ReverseType DEF Typed, Registries
  <1>5. <<>> \in Seq(HooksOf("setup")) /\ <<>> \in Seq(HooksOf("teardown"))
    OBVIOUS
  <1>6. QED
    BY <1>1, <1>2, <1>3, <1>4, <1>5 DEF Tests, Prefixed, WrittenTest

(* A test that is registered keeps the types.                              *)
LEMMA DeftestType ==
    ASSUME Typed, NEW n \in Names, NEW m \in Metas, Deftest(n, m)
    PROVE  Typed'
  <1> DEFINE full == FullName(Prefixed(n))
             test == WrittenTest(n, m)
  <1>1. phase = "eval" /\ Declare(test)
    BY DEF Deftest, Evaluating
  <1>2. test \in Tests
    BY <1>1, WrittenTestType
  <1>3. full \in FullNames
    BY DEF FullNames, FullName, Prefixed, Typed, Registries
  <1>4. registry' = [registry EXCEPT
              !.tests = Append(@, test),
              !.focus = IF m = "focus" THEN @ \cup {full} ELSE @,
              !.tags  = IF m \in Tags THEN Insert(@, full, {m}) ELSE @,
              !.flaky = IF m = "flaky" THEN Insert(@, full, Retries) ELSE @]
    BY DEF Deftest
  <1> HIDE DEF test, full
  <1>5. Append(registry.tests, test) \in Seq(Tests)
    BY <1>2, AppendProperties DEF Typed, Registries
  <1>6. m \in Tags => Insert(registry.tags, full, {m}) \in SUBSET (FullNames \X SUBSET Tags)
    BY <1>3 DEF Insert, Typed, Registries
  <1>7. Insert(registry.flaky, full, Retries) \in SUBSET (FullNames \X {Retries})
    BY <1>3 DEF Insert, Typed, Registries
  <1>8. registry' \in Registries
    BY <1>3, <1>4, <1>5, <1>6, <1>7 DEF Typed, Registries
  <1>9. UNCHANGED <<EvalFrame, phase, broken, scopes>>
    BY DEF Deftest
  <1>10. QED
    BY <1>1, <1>2, <1>8, <1>9, DeclareType DEF Typed, Items

(* A prefix of a typed sequence is typed; so is what a filter keeps.       *)
LEMMA CutType ==
    ASSUME NEW S, NEW s \in Seq(S), NEW k \in Nat, k <= Len(s)
    PROVE  /\ SubSeq(s, 1, k) \in Seq(S) /\ Len(SubSeq(s, 1, k)) = k
           /\ \A i \in 1..k : SubSeq(s, 1, k)[i] = s[i]
  BY SubSeqProperties, LenProperties

(* A sequence without its last element, and that element.                  *)
LEMMA FrontType ==
    ASSUME NEW S, NEW s \in Seq(S), s # <<>>
    PROVE  /\ Len(s) \in Nat \ {0} /\ Front(s) \in Seq(S) /\ Len(Front(s)) = Len(s) - 1
           /\ \A i \in 1..(Len(s) - 1) : Front(s)[i] = s[i]
           /\ Last(s) = s[Len(s)] /\ Last(s) \in S /\ Len(s) \in DOMAIN s
  <1>1. Len(s) \in Nat /\ Len(s) # 0
    BY LenProperties, EmptySeq, SeqEqual
  <1>2. Len(s) - 1 \in Nat /\ Len(s) - 1 <= Len(s)
    BY <1>1
  <1>3. s[Len(s)] \in S
    BY <1>1, ElementOfSeq
  <1>4. Len(s) \in DOMAIN s
    BY <1>1, LenProperties
  <1>5. QED
    BY <1>1, <1>2, <1>3, <1>4, CutType DEF Front, Last

(* What the code of a test, a hook or a file does keeps the types.         *)
LEMMA PerformTyped ==
    ASSUME Typed, NEW o \in Outcomes, Perform(o),
           phase' \in {phase, "next"} \ {"none"}, phase # "none",
           scopes' \in {scopes, <<>>}, phase' # "eval" => scopes' = <<>>,
           rest' \in Seq(ToSet(Files)), phase' # "next" => rest' # <<>>,
           run' \in Runs, allPassed' \in BOOLEAN,
           declared' \in {declared, <<>>}, trace' \in Seq([what : Items, ok : BOOLEAN]),
           broken' \in {"no", "run", "eval"}, UNCHANGED <<args, verdict, disk>>
    PROVE  Typed'
  <1>1. registry' \in Registries /\ failedHere' \in SUBSET Seeds
    BY PerformType
  <1>2. QED
    BY <1>1, EmptyTypes DEF Typed, InFile

(* The types are kept by the evaluation of a form.                         *)
LEMMA TypedEval ==
    ASSUME Typed, ScopesBounded,
           \/ \E l \in Labels : Describe(l)
           \/ EndDescribe \/ Setup \/ Teardown \/ SetupAll \/ TeardownAll
           \/ \E n \in Names, m \in Metas : Deftest(n, m)
           \/ TopLevelCheck \/ EvalFails \/ EvalEnds
    PROVE  Typed'
  <1>1. ASSUME NEW l \in Labels, Describe(l)
        PROVE  Typed'
    <2>1. phase = "eval"
      BY <1>1 DEF Describe, Evaluating
    <2>2. Written("describe") \in Items
      BY <2>1, WrittenType DEF Items, Marks
    <2>3. [registry EXCEPT !.describe = Append(@, l)] \in Registries
      BY AppendProperties DEF Typed, Registries
    <2>4. /\ Len(declared) \in Nat /\ Len(registry.setup) \in Nat
          /\ Len(registry.teardown) \in Nat
      BY LenProperties DEF Typed, Registries
    <2>5. [label |-> l, at |-> Len(declared) + 1, setup |-> Len(registry.setup),
           teardown |-> Len(registry.teardown)] \in Scopes
      BY <2>4 DEF Scopes
    <2>6. scopes' \in Seq(Scopes)
      BY <1>1, <2>5, AppendProperties DEF Describe, Typed
    <2>7. QED
      BY <1>1, <2>1, <2>2, <2>3, <2>6, DeclareType DEF Describe
  <1>2. CASE EndDescribe
    <2> DEFINE last == Last(scopes)
    <2>1. last \in Scopes /\ Front(scopes) \in Seq(Scopes)
      BY <1>2, FrontType DEF EndDescribe, Typed
    <2>2. last.setup <= Len(registry.setup) /\ last.teardown <= Len(registry.teardown)
      <3>1. scopes # <<>> /\ scopes \in Seq(Scopes)
        BY <1>2 DEF EndDescribe, Typed
      <3>2. last = scopes[Len(scopes)] /\ Len(scopes) \in DOMAIN scopes
        BY <3>1, FrontType
      <3>3. QED
        BY <3>2 DEF ScopesBounded
    <2>3. /\ SubSeq(registry.setup, 1, last.setup) \in Seq(HooksOf("setup"))
          /\ SubSeq(registry.teardown, 1, last.teardown) \in Seq(HooksOf("teardown"))
      BY <2>1, <2>2, CutType DEF Typed, Registries, Scopes
    <2>4. registry.describe # <<>> => Front(registry.describe) \in Seq(Labels)
      BY FrontType DEF Typed, Registries
    <2>5. Front(<<>>) = <<>>
      BY DEF Front
    <2>6. Front(registry.describe) \in Seq(Labels)
      BY <2>4, <2>5, EmptySeq
    <2> HIDE DEF last
    <2>7. registry' \in Registries
      BY <1>2, <2>3, <2>6 DEF EndDescribe, Typed, Registries, last
    <2>8. QED
      BY <1>2, <2>1, <2>7 DEF EndDescribe, EvalFrame, Typed, InFile
  <1>3. CASE Setup \/ Teardown \/ SetupAll \/ TeardownAll
    BY <1>3, HookType DEF Setup, Teardown, SetupAll, TeardownAll
  <1>4. ASSUME NEW n \in Names, NEW m \in Metas, Deftest(n, m)
        PROVE  Typed'
    BY <1>4, DeftestType
  <1>5. CASE TopLevelCheck
    <2>1. PICK o \in Outcomes : Perform(o)
      BY <1>5 DEF TopLevelCheck
    <2>2. QED
      BY <1>5, <2>1, PerformTyped DEF TopLevelCheck, Typed, InFile
  <1>6. CASE EvalFails
    <2>1. PICK o \in Outcomes : Perform(o)
      BY <1>6 DEF EvalFails
    <2>2. /\ phase' = "next" /\ allPassed' \in BOOLEAN /\ rest' \in Seq(ToSet(Files))
      BY <1>6, NextFileType DEF EvalFails, Typed, InFile
    <2>3. QED
      BY <1>6, <2>1, <2>2, PerformTyped DEF EvalFails, Typed, InFile
  <1>7. CASE EvalEnds
    <2> DEFINE kept == Filter(registry.tests, LAMBDA t : Selected(t, registry.focus, registry.tags))
    <2>1. kept \in Seq(Tests)
      BY SublistType DEF Filter, Typed, Registries
    <2>2. run' = [NoRun EXCEPT !.tests = kept, !.flaky = registry.flaky,
                               !.setupAll = registry.setupAll]
      BY <1>7 DEF EvalEnds
    <2> HIDE DEF kept
    <2>3. run' \in Runs
      BY <2>1, <2>2, EmptyTypes DEF Typed, Registries, Runs
    <2>4. registry' \in Registries
      <3>1. <<>> \in Seq(Tests) /\ <<>> \in Seq(HooksOf("setupAll"))
        OBVIOUS
      <3>2. QED
        BY <1>7, <3>1 DEF EvalEnds, Typed, Registries
    <2>5. QED
      BY <1>7, <2>3, <2>4 DEF EvalEnds, Typed, InFile
  <1>8. QED
    BY <1>1, <1>2, <1>3, <1>4, <1>5, <1>6, <1>7

(* What is due to be run is typed.                                         *)
LEMMA ThunkType ==
    ASSUME NEW t \in Tests
    PROVE  Thunk(t) \in Seq(Items)
  <1>1. t.setups \in Seq(Items) /\ t.teardowns \in Seq(Items)
    BY SeqMonotonic DEF Tests, Items, Marks
  <1>2. <<t>> \in Seq(Items)
    BY DEF Items
  <1>3. QED
    BY <1>1, <1>2, ConcatProperties DEF Thunk

(* The trace of a thunk, up to what failed.                                *)
LEMMA TracedThunk ==
    ASSUME NEW t \in Tests, NEW last \in 0..Len(Thunk(t)),
           NEW ok \in [1..last -> BOOLEAN]
    PROVE  [i \in 1..last |-> Traced(Thunk(t)[i], ok[i])] \in Seq([what : Items, ok : BOOLEAN])
  <1>1. Len(Thunk(t)) \in Nat /\ \A i \in 1..Len(Thunk(t)) : Thunk(t)[i] \in Items
    BY ThunkType, LenProperties, ElementOfSeq
  <1>2. last \in Nat /\ \A i \in 1..last : Traced(Thunk(t)[i], ok[i]) \in [what : Items, ok : BOOLEAN]
    BY <1>1 DEF Traced
  <1>3. QED
    BY <1>2, SeqDef

(* Changing fields of a run.                                               *)
LEMMA RunUpdates ==
    ASSUME NEW A, NEW B, NEW C, NEW D, NEW E, NEW F,
           NEW r \in [tests : A, flaky : B, tries : C, setupAll : D, teardownAll : E, results : F],
           NEW a \in A, NEW c \in C, NEW f \in F
    PROVE  [r EXCEPT !.tests = a, !.tries = c, !.results = f]
             \in [tests : A, flaky : B, tries : C, setupAll : D, teardownAll : E, results : F]
  OBVIOUS

(* Two ways of updating a run, with results or without.                    *)
LEMMA RunUpdate ==
    ASSUME NEW r \in Runs, NEW a \in Seq(Tests), NEW c \in Nat, NEW f \in Seq(Results)
    PROVE  /\ [r EXCEPT !.tests = a, !.tries = c, !.results = f] \in Runs
           /\ [r EXCEPT !.tries = c] \in Runs
  <1>1. [r EXCEPT !.tests = a, !.tries = c, !.results = f] \in Runs
    BY RunUpdates DEF Runs
  <1>2. [r EXCEPT !.tests = r.tests, !.tries = c, !.results = r.results] \in Runs
    BY RunUpdates DEF Runs
  <1>3. [r EXCEPT !.tests = r.tests, !.tries = c, !.results = r.results] = [r EXCEPT !.tries = c]
    BY DEF Runs
  <1>4. QED
    BY <1>1, <1>2, <1>3

(* A test that is counted leaves the runner typed.                         *)
LEMMA CountedType ==
    ASSUME Typed, run.tests # <<>>, NEW status \in {"passed", "failed", "skipped"}
    PROVE  /\ Counted(Head(run.tests), status) \in Runs
           /\ Counted(Head(run.tests), status) =
                [run EXCEPT !.tests = Tail(run.tests), !.tries = 0,
                            !.results = Append(run.results,
                                               [test |-> Head(run.tests), status |-> status])]
  <1> DEFINE result == [test |-> Head(run.tests), status |-> status]
  <1>1. Head(run.tests) \in Tests /\ Tail(run.tests) \in Seq(Tests)
    BY HeadIn DEF Typed, Runs
  <1>2. result \in Results
    BY <1>1 DEF Results
  <1>3. Append(run.results, result) \in Seq(Results)
    BY <1>2, AppendProperties DEF Typed, Runs
  <1> HIDE DEF result
  <1>4. Counted(Head(run.tests), status) =
            [run EXCEPT !.tests = Tail(run.tests), !.tries = 0,
                        !.results = Append(run.results, result)]
    BY DEF Counted, result
  <1>5. Counted(Head(run.tests), status) \in Runs
    <2>1. run \in Runs
      BY DEF Typed
    <2>2. 0 \in Nat
      OBVIOUS
    <2>3. [run EXCEPT !.tests = Tail(run.tests), !.tries = 0,
                      !.results = Append(run.results, result)] \in Runs
      BY <1>1, <1>3, <2>1, <2>2, RunUpdate
    <2>4. QED
      BY <1>4, <2>3
  <1>6. QED
    BY <1>4, <1>5 DEF result

(* A test that is run keeps the types.                                     *)
LEMMA TypedRunTest ==
    ASSUME Typed, RunTest
    PROVE  Typed'
  <1> DEFINE t == Head(run.tests)
  <1>1. /\ phase = "tests" /\ run.tests # <<>> /\ t \in Tests
        /\ UNCHANGED <<phase, args, rest, scopes, allPassed, verdict, disk, declared>>
    BY HeadIn DEF RunTest, Typed, Runs
  <1>2. CASE run' = Counted(t, "skipped") /\ trace' = Append(trace, Traced(t, TRUE))
             /\ UNCHANGED <<registry, failedHere, broken>>
    <2>1. Traced(t, TRUE) \in [what : Items, ok : BOOLEAN]
      BY <1>1 DEF Traced, Items
    <2>2. trace' \in Seq([what : Items, ok : BOOLEAN])
      BY <1>2, <2>1, AppendProperties DEF Typed
    <2>3. run' \in Runs
      BY <1>1, <1>2, CountedType
    <2>4. QED
      BY <1>1, <1>2, <2>2, <2>3 DEF Typed, InFile
  <1>3. ASSUME NEW o \in Outcomes, Perform(o), run' = Counted(t, "passed"), UNCHANGED broken,
               trace' = trace \o [i \in 1..Len(Thunk(t)) |-> Traced(Thunk(t)[i], TRUE)]
        PROVE  Typed'
    <2> DEFINE n == Len(Thunk(t))
               ok == [i \in 1..n |-> TRUE]
    <2>1. n \in 0..n /\ ok \in [1..n -> BOOLEAN] /\ \A i \in 1..n : ok[i] = TRUE
      BY <1>1, ThunkType, LenProperties
    <2>2. [i \in 1..n |-> Traced(Thunk(t)[i], ok[i])] \in Seq([what : Items, ok : BOOLEAN])
      BY <1>1, <2>1, TracedThunk
    <2>3. trace' = trace \o [i \in 1..n |-> Traced(Thunk(t)[i], ok[i])]
      BY <1>3
    <2> HIDE DEF n, ok
    <2>4. trace' \in Seq([what : Items, ok : BOOLEAN])
      BY <2>2, <2>3, ConcatProperties DEF Typed
    <2>5. run' \in Runs
      BY <1>1, <1>3, CountedType
    <2>6. QED
      BY <1>1, <1>3, <2>4, <2>5, PerformTyped DEF Typed, InFile
  <1>4. ASSUME NEW o \in Outcomes, NEW last \in 1..Len(Thunk(t)), Perform(o),
               trace' = trace \o [i \in 1..last |-> Traced(Thunk(t)[i], i < last)],
               run' \in Runs, broken' \in {"no", "run", "eval"}
        PROVE  Typed'
    <2> DEFINE ok == [i \in 1..last |-> i < last]
    <2>1. last \in 0..Len(Thunk(t)) /\ ok \in [1..last -> BOOLEAN]
      BY <1>1, ThunkType, LenProperties
    <2>2. [i \in 1..last |-> Traced(Thunk(t)[i], ok[i])] \in Seq([what : Items, ok : BOOLEAN])
      BY <1>1, <2>1, TracedThunk
    <2>3. [i \in 1..last |-> Traced(Thunk(t)[i], ok[i])] = [i \in 1..last |-> Traced(Thunk(t)[i], i < last)]
      OBVIOUS
    <2> HIDE DEF ok
    <2>4. trace' \in Seq([what : Items, ok : BOOLEAN])
      BY <1>4, <2>2, <2>3, ConcatProperties DEF Typed
    <2>5. QED
      BY <1>1, <1>4, <2>4, PerformTyped DEF Typed, InFile
  <1>5. [run EXCEPT !.tries = @ + 1] \in Runs
    <2>1. run.tries + 1 \in Nat /\ run \in Runs
      BY DEF Typed, Runs
    <2>2. run.tests \in Seq(Tests) /\ run.results \in Seq(Results)
      BY DEF Typed, Runs
    <2>3. QED
      BY <2>1, <2>2, RunUpdate
  <1>6. Counted(t, "failed") \in Runs
    BY <1>1, CountedType
  <1> HIDE DEF t
  <1>7. ASSUME NEW o \in Outcomes, NEW last \in 1..Len(Thunk(t)), Perform(o),
               trace' = trace \o [i \in 1..last |-> Traced(Thunk(t)[i], i < last)],
               IF CanRetry(t)
               THEN run' = [run EXCEPT !.tries = @ + 1] /\ UNCHANGED broken
               ELSE /\ run' = Counted(t, "failed")
                    /\ broken' = IF broken = "no" THEN "run" ELSE broken
        PROVE  Typed'
    BY <1>4, <1>5, <1>6, <1>7 DEF Typed
  <1>8. QED
    BY <1>2, <1>3, <1>7 DEF RunTest, t

(* The types are kept by every step of a command but those of evaluation.  *)
LEMMA TypedRun ==
    ASSUME Typed,
           \/ StartCommand \/ BeginFile \/ RunSetupAll \/ SetupAllDone \/ RunTest
           \/ RunTeardownAll \/ EndFile \/ EndCommand \/ Kill \/ UNCHANGED vars
    PROVE  Typed'
  <1>1. CASE StartCommand
    <2>1. Files \in Seq(ToSet(Files)) /\ \A f \in ToSet(Files) : <<f>> \in Seq(ToSet(Files))
      <3>1. \A i \in DOMAIN Files : Files[i] \in ToSet(Files)
        BY DEF ToSet
      <3>2. Files \in [DOMAIN Files -> ToSet(Files)]
        BY <3>1, RunnerAssumption
      <3>3. Files \in Seq(ToSet(Files))
        BY <3>2, MapSeq, RunnerAssumption
      <3>4. QED
        BY <3>3
    <2>2. rest' \in Seq(ToSet(Files)) /\ args' \in Args
      BY <1>1, <2>1 DEF StartCommand
    <2>3. QED
      BY <1>1, <2>2 DEF StartCommand, Typed, InFile
  <1>2. CASE BeginFile
    <2>1. Prepared(registry) \in Registries
      BY EmptyTypes DEF Prepared, registry_clear, EmptyRegistry, Typed, Registries
    <2>2. {} \in SUBSET Seeds
      OBVIOUS
    <2>3. QED
      BY <1>2, <2>1, <2>2, EmptyTypes DEF BeginFile, Typed, InFile
  <1>3. CASE RunSetupAll
    <2>1. PICK o \in Outcomes :
            /\ Perform(o)
            /\ trace' = Append(trace, Traced(Head(run.setupAll), o.ok))
            /\ run' = [run EXCEPT !.setupAll = Tail(@)]
            /\ IF o.ok THEN UNCHANGED <<phase, allPassed, rest, broken>>
               ELSE NextFile(FALSE) /\ broken' = IF broken = "no" THEN "run" ELSE broken
      BY <1>3 DEF RunSetupAll
    <2>2. /\ phase = "setup-all" /\ run.setupAll # <<>>
          /\ UNCHANGED <<args, scopes, verdict, disk, declared>>
      BY <1>3 DEF RunSetupAll
    <2>3. /\ Head(run.setupAll) \in HooksOf("setupAll")
          /\ Tail(run.setupAll) \in Seq(HooksOf("setupAll"))
      BY <2>2, HeadIn DEF Typed, Runs
    <2>4. run' \in Runs
      BY <2>1, <2>3 DEF Typed, Runs
    <2>5. Traced(Head(run.setupAll), o.ok) \in [what : Items, ok : BOOLEAN]
      BY <2>3 DEF Traced, Items, Marks, Outcomes
    <2>6. trace' \in Seq([what : Items, ok : BOOLEAN])
      BY <2>1, <2>5, AppendProperties DEF Typed
    <2>7. /\ phase' \in {"setup-all", "next"} /\ allPassed' \in BOOLEAN
          /\ rest' \in Seq(ToSet(Files)) /\ (phase' # "next" => rest' # <<>>)
      BY <2>1, <2>2, NextFileType DEF Typed, InFile
    <2>8. broken' \in {"no", "run", "eval"}
      BY <2>1 DEF Typed
    <2>9. QED
      BY <2>1, <2>2, <2>4, <2>6, <2>7, <2>8, PerformTyped DEF Typed
  <1>4. CASE SetupAllDone
    <2>1. run' \in Runs
      BY <1>4 DEF SetupAllDone, Typed, Registries, Runs
    <2>2. registry' \in Registries
      <3>1. <<>> \in Seq(HooksOf("teardownAll"))
        OBVIOUS
      <3>2. QED
        BY <1>4, <3>1 DEF SetupAllDone, Typed, Registries
    <2>3. QED
      BY <1>4, <2>1, <2>2 DEF SetupAllDone, Typed, InFile
  <1>5. CASE RunTest
    BY <1>5, TypedRunTest
  <1>6. CASE RunTeardownAll
    <2>1. PICK o \in Outcomes :
            Perform(o) /\ trace' = Append(trace, Traced(Head(run.teardownAll), o.ok))
      BY <1>6 DEF RunTeardownAll
    <2>2. /\ phase = "tests" /\ run.teardownAll # <<>>
          /\ run' = [run EXCEPT !.teardownAll = Tail(@)]
          /\ UNCHANGED <<phase, args, rest, scopes, allPassed, verdict, disk, declared, broken>>
      BY <1>6 DEF RunTeardownAll
    <2>3. /\ Head(run.teardownAll) \in HooksOf("teardownAll")
          /\ Tail(run.teardownAll) \in Seq(HooksOf("teardownAll"))
      BY <2>2, HeadIn DEF Typed, Runs
    <2>4. run' \in Runs
      BY <2>2, <2>3 DEF Typed, Runs
    <2>5. Traced(Head(run.teardownAll), o.ok) \in [what : Items, ok : BOOLEAN]
      BY <2>3 DEF Traced, Items, Marks, Outcomes
    <2>6. trace' \in Seq([what : Items, ok : BOOLEAN])
      BY <2>1, <2>5, AppendProperties DEF Typed
    <2>7. QED
      BY <2>1, <2>2, <2>4, <2>6, PerformTyped DEF Typed, InFile
  <1>7. CASE EndFile
    <2> DEFINE passed == \A i \in DOMAIN run.results : run.results[i].status # "failed"
    <2>1. /\ phase' = "next" /\ allPassed' \in BOOLEAN /\ rest' \in Seq(ToSet(Files))
      <3>1. phase = "tests" /\ rest # <<>> /\ NextFile(passed)
        BY <1>7 DEF EndFile, Typed, InFile
      <3>2. passed \in BOOLEAN
        OBVIOUS
      <3> HIDE DEF passed
      <3>3. QED
        BY <3>1, <3>2, NextFileType
    <2>2. registry' \in Registries /\ disk' \in Seq(Seeds)
      BY <1>7, EmptyTypes DEF EndFile, Typed, Registries
    <2>3. QED
      BY <1>7, <2>1, <2>2, EmptyTypes DEF EndFile, Typed, InFile
  <1>8. CASE EndCommand
    BY <1>8, EmptyTypes DEF EndCommand, ProcessGone, Typed, InFile
  <1>9. CASE Kill
    BY <1>9, EmptyTypes DEF Kill, ProcessGone, Typed, InFile
  <1>10. CASE UNCHANGED vars
    BY <1>10 DEF vars, Typed, InFile
  <1>11. QED
    BY <1>1, <1>2, <1>3, <1>4, <1>5, <1>6, <1>7, <1>8, <1>9, <1>10

(* The steps of evaluation that stay in it.                                *)
Forms ==
    \/ \E l \in Labels : Describe(l)
    \/ EndDescribe \/ Setup \/ Teardown \/ SetupAll \/ TeardownAll
    \/ \E n \in Names, m \in Metas : Deftest(n, m)
    \/ TopLevelCheck

(* Every step keeps the runner typed.                                      *)
LEMMA TypedStep == Typed /\ ScopesBounded /\ [Next]_vars => Typed'
  BY TypedEval, TypedRun DEF Next

(* A form leaves the command alone, and the seeds that failed unless it     *)
(* checks a property.                                                      *)
LEMMA FormFrame ==
    ASSUME Typed, Forms
    PROVE  /\ phase = "eval" /\ phase' = "eval"
           /\ UNCHANGED <<args, rest, run, allPassed, verdict, disk, trace, broken>>
           /\ \/ UNCHANGED failedHere /\ registry'.failedSeeds = registry.failedSeeds
              \/ \E o \in Outcomes : Perform(o)
  <1>1. CASE TopLevelCheck
    BY <1>1 DEF TopLevelCheck
  <1>2. ASSUME NEW kind \in {"setup", "teardown", "setupAll", "teardownAll"}, RegisterHook(kind)
        PROVE  /\ phase = "eval" /\ phase' = "eval"
               /\ UNCHANGED <<args, rest, run, allPassed, verdict, disk, trace, failedHere, broken>>
               /\ registry'.failedSeeds = registry.failedSeeds
    BY <1>2 DEF RegisterHook, Evaluating, EvalFrame, Typed, Registries
  <1>3. CASE Setup \/ Teardown \/ SetupAll \/ TeardownAll
    BY <1>2, <1>3 DEF Setup, Teardown, SetupAll, TeardownAll
  <1>4. CASE EndDescribe
    BY <1>4 DEF EndDescribe, EvalFrame, Typed, Registries
  <1>5. ASSUME NEW l \in Labels, Describe(l)
        PROVE  /\ phase = "eval" /\ phase' = "eval"
               /\ UNCHANGED <<args, rest, run, allPassed, verdict, disk, trace, failedHere, broken>>
               /\ registry'.failedSeeds = registry.failedSeeds
    BY <1>5 DEF Describe, Evaluating, EvalFrame, Typed, Registries
  <1>6. ASSUME NEW n \in Names, NEW m \in Metas, Deftest(n, m)
        PROVE  /\ phase = "eval" /\ phase' = "eval"
               /\ UNCHANGED <<args, rest, run, allPassed, verdict, disk, trace, failedHere, broken>>
               /\ registry'.failedSeeds = registry.failedSeeds
    BY <1>6 DEF Deftest, Evaluating, EvalFrame, Typed, Registries
  <1>7. QED
    BY <1>1, <1>3, <1>4, <1>5, <1>6 DEF Forms

-----------------------------------------------------------------------------
(* The exit status.                                                        *)

(* Nothing is broken at first.                                             *)
LEMMA VerdictInit == Init => VerdictInv
  BY DEF Init, VerdictInv, VerdictHonest

(* A file that fails makes the command fail.                               *)
LEMMA FailedFile ==
    ASSUME Typed, VerdictInv, phase # "none", NextFile(FALSE), UNCHANGED verdict
    PROVE  VerdictInv'
  <1>1. phase' = "next" /\ ~allPassed'
    BY DEF NextFile
  <1>2. QED
    BY <1>1 DEF VerdictInv, VerdictHonest

(* A failed test stays among the results.                                  *)
LEMMA CountedFailures ==
    ASSUME Typed, run.tests # <<>>, NEW status \in {"passed", "failed", "skipped"},
           run' = Counted(Head(run.tests), status)
    PROVE  SomeFailed' <=> SomeFailed \/ status = "failed"
  <1> DEFINE result == [test |-> Head(run.tests), status |-> status]
             n == Len(run.results)
  <1>1. run.results \in Seq(Results) /\ result \in Results
    BY HeadIn DEF Typed, Runs, Results
  <1>2. run'.results = Append(run.results, result)
    BY CountedType DEF Typed, Runs
  <1>3. /\ n \in Nat /\ DOMAIN run.results = 1..n /\ DOMAIN run'.results = 1..(n + 1)
        /\ \A i \in 1..n : run'.results[i] = run.results[i]
        /\ run'.results[n + 1] = result
    BY <1>1, <1>2, AppendProperties, LenProperties
  <1>4. result.status = status
    OBVIOUS
  <1> HIDE DEF n, result
  <1>5. QED
    BY <1>3, <1>4 DEF SomeFailed

(* No step forgets that something broke.                                   *)
LEMMA VerdictStep == Typed /\ VerdictInv /\ [Next]_vars => VerdictInv'
  <1> SUFFICES ASSUME Typed, VerdictInv, [Next]_vars
               PROVE  VerdictInv'
    OBVIOUS
  <1>1. CASE StartCommand
    BY <1>1 DEF StartCommand, VerdictInv, VerdictHonest
  <1>2. CASE BeginFile
    BY <1>2 DEF BeginFile, VerdictInv, VerdictHonest
  <1>3. CASE Forms
    BY <1>3, FormFrame DEF VerdictInv, VerdictHonest, SomeFailed
  <1>4. CASE EvalFails
    BY <1>4, FailedFile DEF EvalFails
  <1>5. CASE EvalEnds
    BY <1>5 DEF EvalEnds, VerdictInv, VerdictHonest
  <1>6. CASE RunSetupAll
    <2>1. phase = "setup-all" /\ UNCHANGED verdict
      BY <1>6 DEF RunSetupAll
    <2>2. CASE UNCHANGED <<phase, allPassed, rest, broken>>
      BY <2>1, <2>2 DEF VerdictInv, VerdictHonest
    <2>3. CASE NextFile(FALSE)
      BY <2>1, <2>3, FailedFile
    <2>4. QED
      BY <1>6, <2>2, <2>3 DEF RunSetupAll
  <1>7. CASE SetupAllDone
    BY <1>7 DEF SetupAllDone, VerdictInv, VerdictHonest
  <1>8. CASE RunTest
    <2>1. /\ phase = "tests" /\ phase' = "tests" /\ run.tests # <<>>
          /\ UNCHANGED <<allPassed, verdict>>
      BY <1>8 DEF RunTest
    <2>2. \/ UNCHANGED broken /\ run' = Counted(Head(run.tests), "skipped")
          \/ UNCHANGED broken /\ run' = Counted(Head(run.tests), "passed")
          \/ UNCHANGED broken /\ run' = [run EXCEPT !.tries = @ + 1]
          \/ run' = Counted(Head(run.tests), "failed")
      BY <1>8 DEF RunTest
    <2>3. run' = [run EXCEPT !.tries = @ + 1] => (SomeFailed' <=> SomeFailed)
      BY DEF SomeFailed, Typed, Runs
    <2>4. \/ UNCHANGED broken /\ (SomeFailed => SomeFailed')
          \/ SomeFailed'
      BY <2>1, <2>2, <2>3, CountedFailures
    <2>5. QED
      BY <2>1, <2>4 DEF VerdictInv, VerdictHonest
  <1>9. CASE RunTeardownAll
    <2>1. run'.results = run.results
      BY <1>9 DEF RunTeardownAll, Typed, Runs
    <2>2. QED
      BY <1>9, <2>1 DEF RunTeardownAll, VerdictInv, VerdictHonest, SomeFailed
  <1>10. CASE EndFile
    <2>1. /\ phase = "tests" /\ phase' = "next" /\ UNCHANGED <<verdict, broken>>
          /\ allPassed' = (allPassed /\ ~SomeFailed)
      BY <1>10 DEF EndFile, NextFile, SomeFailed
    <2>2. QED
      BY <2>1 DEF VerdictInv, VerdictHonest, Typed
  <1>11. CASE EndCommand
    BY <1>11 DEF EndCommand, ProcessGone, VerdictInv, VerdictHonest, Typed
  <1>12. CASE Kill
    BY <1>12 DEF Kill, ProcessGone, VerdictInv, VerdictHonest
  <1>13. CASE UNCHANGED vars
    BY <1>13 DEF vars, VerdictInv, VerdictHonest, SomeFailed
  <1>14. QED
    BY <1>1, <1>2, <1>3, <1>4, <1>5, <1>6, <1>7, <1>8, <1>9, <1>10, <1>11, <1>12, <1>13
       DEF Next, Forms

-----------------------------------------------------------------------------
(* Seeds.                                                                  *)

(* No seed has failed at first.                                            *)
LEMMA SeedsInit == Init => SeedsInv
  BY DEF Init, SeedsInv, InFile

(* The elements of a concatenation are those of its parts.                 *)
LEMMA ToSetConcat ==
    ASSUME NEW S, NEW s \in Seq(S), NEW t \in Seq(S)
    PROVE  ToSet(s \o t) = ToSet(s) \cup ToSet(t)
  <1>1. /\ Len(s) \in Nat /\ Len(t) \in Nat /\ s \o t \in Seq(S)
        /\ DOMAIN s = 1..Len(s) /\ DOMAIN t = 1..Len(t)
        /\ DOMAIN (s \o t) = 1..(Len(s) + Len(t))
    BY LenProperties, ConcatProperties
  <1>2. \A i \in 1..(Len(s) + Len(t)) : (s \o t)[i] = IF i <= Len(s) THEN s[i] ELSE t[i - Len(s)]
    BY ConcatProperties
  <1>3. ASSUME NEW i \in 1..(Len(s) + Len(t))
        PROVE  (s \o t)[i] \in ToSet(s) \cup ToSet(t)
    <2>1. CASE i <= Len(s)
      BY <1>1, <1>2, <2>1 DEF ToSet
    <2>2. CASE ~(i <= Len(s))
      <3>1. i - Len(s) \in 1..Len(t)
        BY <1>1, <2>2
      <3>2. QED
        BY <1>1, <1>2, <2>2, <3>1 DEF ToSet
    <2>3. QED
      BY <2>1, <2>2
  <1>4. ASSUME NEW i \in 1..Len(s)
        PROVE  s[i] \in ToSet(s \o t)
    <2>1. i \in 1..(Len(s) + Len(t)) /\ (s \o t)[i] = s[i]
      BY <1>1, <1>2
    <2>2. QED
      BY <1>1, <2>1 DEF ToSet
  <1>5. ASSUME NEW i \in 1..Len(t)
        PROVE  t[i] \in ToSet(s \o t)
    <2>1. Len(s) + i \in 1..(Len(s) + Len(t)) /\ (s \o t)[Len(s) + i] = t[i]
      BY <1>1, <1>2
    <2>2. QED
      BY <1>1, <2>1 DEF ToSet
  <1>6. QED
    BY <1>1, <1>3, <1>4, <1>5 DEF ToSet

(* What a check leaves in the registry is what failed.                     *)
LEMMA SeedsPerform ==
    ASSUME Typed, SeedsInv, phase \in InFile, NEW o \in Outcomes, Perform(o)
    PROVE  SeedsInv'
  <1>1. /\ registry'.failedSeeds = registry.failedSeeds \o o.seeds
        /\ failedHere' = failedHere \cup ToSet(o.seeds)
        /\ o.seeds \in Seq(Seeds) /\ registry.failedSeeds \in Seq(Seeds)
    BY PerformType DEF Typed, Registries
  <1>2. QED
    BY <1>1, ToSetConcat DEF SeedsInv

(* A step that fails a seed registers it; only a new file forgets them.    *)
LEMMA SeedsStep == Typed /\ SeedsInv /\ [Next]_vars => SeedsInv'
  <1> SUFFICES ASSUME Typed, SeedsInv, [Next]_vars
               PROVE  SeedsInv'
    OBVIOUS
  <1>1. CASE Forms
    BY <1>1, FormFrame, SeedsPerform DEF SeedsInv, InFile
  <1>2. CASE RunSetupAll \/ RunTeardownAll
    BY <1>2, SeedsPerform DEF RunSetupAll, RunTeardownAll, InFile
  <1>3. CASE RunTest
    <2>1. \/ \E o \in Outcomes : Perform(o)
          \/ UNCHANGED <<registry, failedHere, phase>>
      BY <1>3 DEF RunTest
    <2>2. QED
      BY <1>3, <2>1, SeedsPerform DEF RunTest, SeedsInv, InFile
  <1>4. CASE BeginFile
    <2>1. registry'.failedSeeds = <<>> /\ failedHere' = {}
      BY <1>4 DEF BeginFile, Prepared, registry_clear, EmptyRegistry
    <2>2. QED
      BY <2>1 DEF SeedsInv, ToSet
  <1>5. CASE EvalEnds \/ SetupAllDone
    <2>1. /\ registry'.failedSeeds = registry.failedSeeds /\ UNCHANGED failedHere
          /\ phase \in InFile
      BY <1>5 DEF EvalEnds, SetupAllDone, Typed, Registries, InFile
    <2>2. QED
      BY <2>1 DEF SeedsInv
  <1>6. CASE StartCommand \/ EvalFails \/ EndFile \/ EndCommand \/ Kill
    <2>1. phase' \notin InFile
      BY <1>6 DEF StartCommand, EvalFails, EndFile, EndCommand, Kill, ProcessGone, NextFile, InFile
    <2>2. QED
      BY <2>1 DEF SeedsInv
  <1>7. CASE UNCHANGED vars
    BY <1>7 DEF vars, SeedsInv
  <1>8. QED
    BY <1>1, <1>2, <1>3, <1>4, <1>5, <1>6, <1>7 DEF Next, Forms

-----------------------------------------------------------------------------
(* What the open describe forms remember.                                  *)

(* No scope is open at first.                                              *)
LEMMA BoundedInit == Init => ScopesBounded
  BY DEF Init, ScopesBounded

(* A step that opens and closes no form and pops no hook.                  *)
LEMMA BoundedKeep ==
    ASSUME Typed, ScopesBounded, scopes' = scopes, registry' \in Registries,
           Len(registry'.setup) >= Len(registry.setup),
           Len(registry'.teardown) >= Len(registry.teardown)
    PROVE  ScopesBounded'
  <1>1. /\ Len(registry.setup) \in Nat /\ Len(registry'.setup) \in Nat
        /\ Len(registry.teardown) \in Nat /\ Len(registry'.teardown) \in Nat
    BY LenProperties DEF Typed, Registries
  <1>2. \A k \in DOMAIN scopes : scopes[k].setup \in Nat /\ scopes[k].teardown \in Nat
    <2>1. \A k \in DOMAIN scopes : scopes[k] \in Scopes
      BY ElementOfSeq, LenProperties DEF Typed
    <2>2. QED
      BY <2>1 DEF Scopes
  <1>3. QED
    BY <1>1, <1>2 DEF ScopesBounded

(* A new form remembers the depths as they are.                            *)
LEMMA BoundedDescribe ==
    ASSUME Typed, ScopesBounded, NEW l \in Labels, Describe(l)
    PROVE  ScopesBounded'
  <1> DEFINE n == Len(scopes)
             new == [label |-> l, at |-> Len(declared) + 1,
                     setup |-> Len(registry.setup), teardown |-> Len(registry.teardown)]
  <1>1. /\ registry'.setup = registry.setup /\ registry'.teardown = registry.teardown
        /\ scopes' = Append(scopes, new)
    BY DEF Describe, Typed, Registries
  <1>2. Len(registry.setup) \in Nat /\ Len(registry.teardown) \in Nat /\ Len(declared) \in Nat
    BY LenProperties DEF Typed, Registries
  <1>3. new \in Scopes /\ new.setup = Len(registry.setup) /\ new.teardown = Len(registry.teardown)
    BY <1>2 DEF Scopes
  <1> HIDE DEF new
  <1>4. /\ n \in Nat /\ DOMAIN scopes = 1..n /\ DOMAIN scopes' = 1..(n + 1)
        /\ \A k \in 1..n : scopes'[k] = scopes[k]
        /\ scopes'[n + 1] = new
    BY <1>1, <1>3, AppendProperties, LenProperties DEF Typed
  <1> HIDE DEF n
  <1>5. ASSUME NEW k \in 1..n
        PROVE  /\ scopes'[k].setup <= Len(registry'.setup)
               /\ scopes'[k].teardown <= Len(registry'.teardown)
               /\ \A j \in 1..k : /\ scopes'[j].setup <= scopes'[k].setup
                                  /\ scopes'[j].teardown <= scopes'[k].teardown
    <2>1. \A j \in 1..k : j \in 1..n
      BY <1>4
    <2>2. QED
      BY <1>1, <1>4, <2>1 DEF ScopesBounded
  <1>6. /\ scopes'[n + 1].setup <= Len(registry'.setup)
        /\ scopes'[n + 1].teardown <= Len(registry'.teardown)
        /\ \A j \in 1..(n + 1) : /\ scopes'[j].setup <= scopes'[n + 1].setup
                                 /\ scopes'[j].teardown <= scopes'[n + 1].teardown
    <2>1. \A j \in 1..n : /\ scopes'[j].setup <= new.setup
                          /\ scopes'[j].teardown <= new.teardown
      BY <1>3, <1>4 DEF ScopesBounded
    <2>2. QED
      BY <1>1, <1>2, <1>3, <1>4, <2>1
  <1>7. \A k \in DOMAIN scopes' : k \in 1..n \/ k = n + 1
    BY <1>4
  <1>8. QED
    BY <1>5, <1>6, <1>7 DEF ScopesBounded

(* A form that ends leaves the depths it found.                            *)
LEMMA BoundedEnd ==
    ASSUME Typed, ScopesBounded, EndDescribe
    PROVE  ScopesBounded'
  <1> DEFINE n == Len(scopes)
             last == Last(scopes)
  <1>1. /\ n \in Nat \ {0} /\ DOMAIN scopes = 1..n /\ last = scopes[n] /\ last \in Scopes
        /\ scopes' \in Seq(Scopes) /\ Len(scopes') = n - 1
        /\ \A k \in 1..(n - 1) : scopes'[k] = scopes[k]
    BY FrontType, LenProperties DEF EndDescribe, Typed
  <1>2. /\ registry'.setup = SubSeq(registry.setup, 1, last.setup)
        /\ registry'.teardown = SubSeq(registry.teardown, 1, last.teardown)
    BY DEF EndDescribe, Typed, Registries
  <1>3. DOMAIN scopes' = 1..(n - 1)
    BY <1>1, LenProperties
  <1> HIDE DEF n, last
  <1>4. /\ last.setup \in Nat /\ last.setup <= Len(registry.setup)
        /\ last.teardown \in Nat /\ last.teardown <= Len(registry.teardown)
        /\ \A k \in 1..n : scopes[k].setup <= last.setup /\ scopes[k].teardown <= last.teardown
    <2>1. n \in DOMAIN scopes
      BY <1>1
    <2>2. QED
      BY <1>1, <2>1 DEF ScopesBounded, Scopes
  <1>5. Len(registry'.setup) = last.setup /\ Len(registry'.teardown) = last.teardown
    <2>1. /\ registry.setup \in Seq(HooksOf("setup"))
          /\ registry.teardown \in Seq(HooksOf("teardown"))
      BY DEF Typed, Registries
    <2>2. QED
      BY <1>2, <1>4, <2>1, CutType
  <1>6. ASSUME NEW k \in 1..(n - 1)
        PROVE  /\ scopes'[k].setup <= Len(registry'.setup)
               /\ scopes'[k].teardown <= Len(registry'.teardown)
               /\ \A j \in 1..k : /\ scopes'[j].setup <= scopes'[k].setup
                                  /\ scopes'[j].teardown <= scopes'[k].teardown
    <2>1. k \in 1..n /\ \A j \in 1..k : j \in 1..(n - 1)
      BY <1>1
    <2>2. QED
      BY <1>1, <1>4, <1>5, <2>1 DEF ScopesBounded
  <1>7. QED
    BY <1>3, <1>6 DEF ScopesBounded

(* Every step keeps the depths of the open scopes within the hook stacks.  *)
LEMMA BoundedStep == Typed /\ Typed' /\ ScopesBounded /\ [Next]_vars => ScopesBounded'
  <1> SUFFICES ASSUME Typed, Typed', ScopesBounded, [Next]_vars
               PROVE  ScopesBounded'
    OBVIOUS
  <1>0. /\ Len(registry.setup) \in Nat /\ Len(registry.teardown) \in Nat
        /\ registry' \in Registries
    <2>1. registry' \in Registries
      BY DEF Typed
    <2>2. /\ registry.setup \in Seq(HooksOf("setup"))
          /\ registry.teardown \in Seq(HooksOf("teardown"))
      BY DEF Typed, Registries
    <2>3. QED
      BY <2>1, <2>2, LenProperties
  <1>1. ASSUME scopes' = <<>>
        PROVE  ScopesBounded'
    BY <1>1 DEF ScopesBounded
  <1>2. CASE phase' # "eval"
    BY <1>1, <1>2 DEF Typed
  <1>3. CASE BeginFile
    BY <1>1, <1>3 DEF BeginFile
  <1>4. ASSUME NEW l \in Labels, Describe(l)
        PROVE  ScopesBounded'
    BY <1>4, BoundedDescribe
  <1>5. CASE EndDescribe
    BY <1>5, BoundedEnd
  <1>6. ASSUME NEW kind \in {"setup", "teardown", "setupAll", "teardownAll"}, RegisterHook(kind)
        PROVE  ScopesBounded'
    <2>1. /\ scopes' = scopes /\ Written(kind) \in HooksOf(kind)
          /\ registry' = [registry EXCEPT ![kind] = Append(@, Written(kind))]
      BY <1>6, WrittenType DEF RegisterHook, Evaluating
    <2>2. Len(Append(registry[kind], Written(kind))) = Len(registry[kind]) + 1
      BY <2>1, AppendProperties DEF Typed, Registries
    <2>3. /\ registry'.setup = registry.setup \/ Len(registry'.setup) = Len(registry.setup) + 1
          /\ registry'.teardown = registry.teardown
                \/ Len(registry'.teardown) = Len(registry.teardown) + 1
      BY <2>1, <2>2 DEF Typed, Registries
    <2>4. QED
      BY <1>0, <2>1, <2>3, BoundedKeep
  <1>7. CASE Setup \/ Teardown \/ SetupAll \/ TeardownAll
    BY <1>6, <1>7 DEF Setup, Teardown, SetupAll, TeardownAll
  <1>8. ASSUME NEW n \in Names, NEW m \in Metas, Deftest(n, m)
        PROVE  ScopesBounded'
    <2>1. /\ scopes' = scopes
          /\ registry'.setup = registry.setup /\ registry'.teardown = registry.teardown
      BY <1>8 DEF Deftest, Typed, Registries
    <2>2. QED
      BY <1>0, <2>1, BoundedKeep
  <1>9. CASE TopLevelCheck
    <2>1. PICK o \in Outcomes : Perform(o)
      BY <1>9 DEF TopLevelCheck
    <2>2. /\ scopes' = scopes
          /\ registry'.setup = registry.setup /\ registry'.teardown = registry.teardown
      BY <1>9, <2>1 DEF TopLevelCheck, Perform, After, Typed, Registries
    <2>3. QED
      BY <1>0, <2>2, BoundedKeep
  <1>10. CASE UNCHANGED vars
    BY <1>10 DEF vars, ScopesBounded
  <1>11. CASE \/ StartCommand \/ EvalFails \/ EvalEnds \/ RunSetupAll \/ SetupAllDone
              \/ RunTest \/ RunTeardownAll \/ EndFile \/ EndCommand \/ Kill
    <2>1. phase' # "eval"
      BY <1>11 DEF StartCommand, EvalFails, EvalEnds, RunSetupAll, SetupAllDone, RunTest,
                  RunTeardownAll, EndFile, EndCommand, Kill, ProcessGone, NextFile
    <2>2. QED
      BY <1>2, <2>1
  <1>12. QED
    BY <1>3, <1>4, <1>5, <1>7, <1>8, <1>9, <1>10, <1>11 DEF Next

-----------------------------------------------------------------------------
(* Retries, and what a process at rest holds.                              *)

(* Nothing waits to run between files, whatever step ends one.             *)
LEMMA AtRestStep == Typed /\ AtRest /\ [Next]_vars => AtRest'
  <1> SUFFICES ASSUME Typed, AtRest, [Next]_vars
               PROVE  AtRest'
    OBVIOUS
  <1>1. CASE Forms
    BY <1>1, FormFrame DEF AtRest
  <1>2. CASE StartCommand \/ EvalFails \/ EvalEnds \/ SetupAllDone \/ EndFile
    BY <1>2 DEF StartCommand, EvalFails, EvalEnds, SetupAllDone, EndFile, NextFile, AtRest
  <1>3. CASE BeginFile
    BY <1>3 DEF BeginFile, AtRest
  <1>4. CASE EndCommand \/ Kill
    BY <1>4 DEF EndCommand, Kill, ProcessGone, AtRest
  <1>5. CASE RunSetupAll \/ RunTest \/ RunTeardownAll
    <2>1. phase' \in {"setup-all", "tests", "next"}
      BY <1>5 DEF RunSetupAll, RunTest, RunTeardownAll, NextFile
    <2>2. QED
      BY <2>1 DEF AtRest
  <1>6. CASE UNCHANGED vars
    BY <1>6 DEF vars, AtRest
  <1>7. QED
    BY <1>1, <1>2, <1>3, <1>4, <1>5, <1>6 DEF Next, Forms

(* A test's number of retries is a natural number.                         *)
LEMMA RetriesType ==
    ASSUME Typed, NEW t
    PROVE  RetriesOf(t) \in Nat
  <1>1. \A p \in run.flaky : p[2] = Retries
    BY DEF Typed, Runs
  <1>2. Retries \in Nat
    BY RunnerAssumption
  <1>3. CASE \E p \in run.flaky : p[1] = FullName(t)
    <2>1. (CHOOSE p \in run.flaky : p[1] = FullName(t)) \in run.flaky
      BY <1>3
    <2>2. QED
      BY <1>1, <1>2, <1>3, <2>1 DEF RetriesOf
  <1>4. CASE ~\E p \in run.flaky : p[1] = FullName(t)
    BY <1>4 DEF RetriesOf
  <1>5. QED
    BY <1>3, <1>4

(* The test in front has a number of retries.                              *)
LEMMA RetriesOfHead == Typed => RetriesOf(Head(run.tests)) \in Nat
  BY RetriesType

(* Nothing has been retried when no test has been tried.                   *)
LEMMA NotTried == Typed' /\ run'.tries = 0 => RetriesKept'
  <1>1. Typed' => (RetriesOf(Head(run.tests)) \in Nat)'
    BY RetriesOfHead, PTL
  <1>2. QED
    BY <1>1 DEF RetriesKept

(* No step tries a test more often than its retries allow.                 *)
LEMMA RetriesStep == Typed /\ Typed' /\ RetriesKept /\ [Next]_vars => RetriesKept'
  <1> SUFFICES ASSUME Typed, Typed', RetriesKept, [Next]_vars
               PROVE  RetriesKept'
    OBVIOUS
  <1>1. ASSUME run' = run
        PROVE  RetriesKept'
    BY <1>1 DEF RetriesKept, RetriesOf
  <1>2. ASSUME run'.tries = 0
        PROVE  RetriesKept'
    BY <1>2, NotTried
  <1>3. CASE Forms
    BY <1>1, <1>3, FormFrame
  <1>4. CASE StartCommand \/ EvalFails \/ UNCHANGED vars
    BY <1>1, <1>4 DEF StartCommand, EvalFails, vars
  <1>5. CASE BeginFile \/ EvalEnds \/ EndFile \/ EndCommand \/ Kill
    <2>1. NoRun.tries = 0
      BY DEF NoRun
    <2>2. EvalEnds => run'.tries = NoRun.tries
      BY EmptyTypes DEF EvalEnds, Runs
    <2>3. BeginFile \/ EndFile \/ EndCommand \/ Kill => run' = NoRun
      BY DEF BeginFile, EndFile, EndCommand, Kill, ProcessGone
    <2>4. QED
      BY <1>2, <1>5, <2>1, <2>2, <2>3
  <1>6. CASE RunSetupAll \/ SetupAllDone \/ RunTeardownAll
    <2>1. /\ run'.tests = run.tests /\ run'.tries = run.tries /\ run'.flaky = run.flaky
      BY <1>6 DEF RunSetupAll, SetupAllDone, RunTeardownAll, Typed, Runs
    <2>2. QED
      BY <2>1 DEF RetriesKept, RetriesOf
  <1>7. CASE RunTest
    <2>1. run.tests # <<>>
      BY <1>7 DEF RunTest
    <2>2. \/ \E status \in {"passed", "failed", "skipped"} : run' = Counted(Head(run.tests), status)
          \/ CanRetry(Head(run.tests)) /\ run' = [run EXCEPT !.tries = @ + 1]
      BY <1>7 DEF RunTest
    <2>3. CASE \E status \in {"passed", "failed", "skipped"} : run' = Counted(Head(run.tests), status)
      <3>1. PICK status \in {"passed", "failed", "skipped"} :
                run' = Counted(Head(run.tests), status)
        BY <2>3
      <3>2. Counted(Head(run.tests), status).tries = 0
        BY DEF Counted, Typed, Runs
      <3>3. QED
        BY <1>2, <3>1, <3>2
    <2>4. CASE CanRetry(Head(run.tests)) /\ run' = [run EXCEPT !.tries = @ + 1]
      <3>1. /\ run'.tests = run.tests /\ run'.tries = run.tries + 1 /\ run'.flaky = run.flaky
            /\ run.tries \in Nat
        BY <2>4 DEF Typed, Runs
      <3>2. RetriesOf(Head(run.tests)) \in Nat /\ run.tries < RetriesOf(Head(run.tests))
        BY <2>4, RetriesOfHead DEF CanRetry
      <3>3. RetriesOf(Head(run.tests))' = RetriesOf(Head(run.tests))
        BY <3>1 DEF RetriesOf
      <3>4. QED
        BY <3>1, <3>2, <3>3 DEF RetriesKept
    <2>5. QED
      BY <2>2, <2>3, <2>4
  <1>8. QED
    BY <1>3, <1>4, <1>5, <1>6, <1>7 DEF Next, Forms

-----------------------------------------------------------------------------
(* Prefixes and suffixes.                                                  *)

(* A prefix agrees with the whole, place by place.                         *)
LEMMA PrefixPoint ==
    ASSUME NEW S, NEW s \in Seq(S), NEW t \in Seq(S)
    PROVE  IsPrefix(s, t) <=> Len(s) <= Len(t) /\ \A i \in 1..Len(s) : s[i] = t[i]
  <1>1. Len(s) \in Nat /\ Len(t) \in Nat
    BY LenProperties
  <1>2. CASE ~(Len(s) <= Len(t))
    BY <1>2 DEF IsPrefix
  <1>3. CASE Len(s) <= Len(t)
    <2> DEFINE n == Len(s)
               a == SubSeq(s, 1, n)
               b == SubSeq(t, 1, n)
    <2>1. /\ a \in Seq(S) /\ Len(a) = n /\ \A i \in 1..n : a[i] = s[i]
          /\ b \in Seq(S) /\ Len(b) = n /\ \A i \in 1..n : b[i] = t[i]
      BY <1>1, <1>3, CutType
    <2>2. IsPrefix(s, t) <=> a = b
      BY <1>3 DEF IsPrefix
    <2> HIDE DEF a, b, n
    <2>3. a = b <=> \A i \in 1..n : s[i] = t[i]
      <3>1. (\A i \in 1..n : s[i] = t[i]) => a = b
        BY <2>1, SeqEqual
      <3>2. QED
        BY <2>1, <3>1
    <2>4. QED
      BY <1>3, <2>2, <2>3 DEF n
  <1>4. QED
    BY <1>2, <1>3

(* A suffix agrees with the end of the whole.                              *)
LEMMA SuffixPoint ==
    ASSUME NEW S, NEW s \in Seq(S), NEW t \in Seq(S)
    PROVE  IsSuffix(s, t) <=> /\ Len(s) <= Len(t)
                              /\ \A i \in 1..Len(s) : s[i] = t[(Len(t) - Len(s)) + i]
  <1> DEFINE m == Len(s)
             n == Len(t)
  <1>1. /\ m \in Nat /\ n \in Nat
        /\ Reverse(s) \in Seq(S) /\ Len(Reverse(s)) = m
        /\ Reverse(t) \in Seq(S) /\ Len(Reverse(t)) = n
    BY LenProperties, ReverseType
  <1>2. IsSuffix(s, t) <=> m <= n /\ \A i \in 1..m : Reverse(s)[i] = Reverse(t)[i]
    BY <1>1, PrefixPoint DEF IsSuffix
  <1>3. /\ \A i \in 1..m : Reverse(s)[i] = s[(m - i) + 1]
        /\ \A i \in 1..n : Reverse(t)[i] = t[(n - i) + 1]
    BY DEF Reverse
  <1> HIDE DEF m, n
  <1>4. ASSUME m <= n
        PROVE  (\A i \in 1..m : Reverse(s)[i] = Reverse(t)[i])
                 <=> \A i \in 1..m : s[i] = t[(n - m) + i]
    <2>1. \A i \in 1..m : (m - i) + 1 \in 1..m /\ i \in 1..n
      BY <1>1, <1>4
    <2>2. ASSUME \A i \in 1..m : Reverse(s)[i] = Reverse(t)[i], NEW i \in 1..m
          PROVE  s[i] = t[(n - m) + i]
      <3> DEFINE j == (m - i) + 1
      <3>1. j \in 1..m /\ j \in 1..n /\ (m - j) + 1 = i /\ (n - j) + 1 = (n - m) + i
        BY <1>1, <1>4
      <3> HIDE DEF j
      <3>2. QED
        BY <1>3, <2>2, <3>1
    <2>3. ASSUME \A i \in 1..m : s[i] = t[(n - m) + i], NEW i \in 1..m
          PROVE  Reverse(s)[i] = Reverse(t)[i]
      <3> DEFINE j == (m - i) + 1
      <3>1. j \in 1..m /\ i \in 1..n /\ (n - m) + j = (n - i) + 1
        BY <1>1, <1>4
      <3> HIDE DEF j
      <3>2. s[j] = t[(n - m) + j]
        BY <2>3, <3>1
      <3>3. QED
        BY <1>3, <3>1, <3>2 DEF j
    <2>4. QED
      BY <2>2, <2>3
  <1>5. QED
    BY <1>2, <1>4 DEF m, n

(* Cutting off what has been put behind, or cutting again.                 *)
LEMMA CutAppend ==
    ASSUME NEW S, NEW s \in Seq(S), NEW e \in S, NEW k \in Nat, k <= Len(s)
    PROVE  SubSeq(Append(s, e), 1, k) = SubSeq(s, 1, k)
  <1>1. /\ Append(s, e) \in Seq(S) /\ Len(Append(s, e)) = Len(s) + 1
        /\ \A i \in 1..Len(s) : Append(s, e)[i] = s[i] /\ Len(s) \in Nat
    BY AppendProperties, LenProperties
  <1>2. Len(s) \in Nat /\ k <= Len(Append(s, e)) /\ \A i \in 1..k : i \in 1..Len(s)
    BY <1>1, LenProperties
  <1>3. /\ SubSeq(Append(s, e), 1, k) \in Seq(S) /\ Len(SubSeq(Append(s, e), 1, k)) = k
        /\ \A i \in 1..k : SubSeq(Append(s, e), 1, k)[i] = Append(s, e)[i]
        /\ SubSeq(s, 1, k) \in Seq(S) /\ Len(SubSeq(s, 1, k)) = k
        /\ \A i \in 1..k : SubSeq(s, 1, k)[i] = s[i]
    BY <1>1, <1>2, CutType
  <1>4. \A i \in 1..k : SubSeq(Append(s, e), 1, k)[i] = SubSeq(s, 1, k)[i]
    BY <1>1, <1>2, <1>3
  <1>5. QED
    BY <1>3, <1>4, SeqEqual

(* A prefix of a prefix is a prefix.                                       *)
LEMMA CutCut ==
    ASSUME NEW S, NEW s \in Seq(S), NEW m \in Nat, m <= Len(s), NEW k \in Nat, k <= m
    PROVE  SubSeq(SubSeq(s, 1, m), 1, k) = SubSeq(s, 1, k)
  <1> DEFINE t == SubSeq(s, 1, m)
  <1>1. t \in Seq(S) /\ Len(t) = m /\ (\A i \in 1..m : t[i] = s[i]) /\ k <= Len(s) /\ Len(s) \in Nat
    BY CutType, LenProperties
  <1> HIDE DEF t
  <1>2. /\ SubSeq(t, 1, k) \in Seq(S) /\ Len(SubSeq(t, 1, k)) = k
        /\ \A i \in 1..k : SubSeq(t, 1, k)[i] = t[i]
    BY <1>1, CutType
  <1>3. /\ SubSeq(s, 1, k) \in Seq(S) /\ Len(SubSeq(s, 1, k)) = k
        /\ \A i \in 1..k : SubSeq(s, 1, k)[i] = s[i]
    BY <1>1, CutType
  <1>4. \A i \in 1..k : SubSeq(t, 1, k)[i] = SubSeq(s, 1, k)[i]
    <2>1. \A i \in 1..k : i \in 1..m
      OBVIOUS
    <2>2. QED
      BY <1>1, <1>2, <1>3, <2>1
  <1>5. SubSeq(t, 1, k) = SubSeq(s, 1, k)
    BY <1>2, <1>3, <1>4, SeqEqual
  <1>6. QED
    BY <1>5 DEF t

(* A path that does not lead through x is a prefix of a place below x only *)
(* if it is one of the place itself.                                       *)
LEMMA PrefixBelow ==
    ASSUME NEW p \in Seq(Nat), NEW here \in Seq(Nat), NEW x \in Nat,
           \A j \in DOMAIN p : p[j] # x
    PROVE  IsPrefix(p, Append(here, x)) <=> IsPrefix(p, here)
  <1> DEFINE m == Len(p)
             n == Len(here)
             below == Append(here, x)
  <1>1. /\ m \in Nat /\ n \in Nat /\ DOMAIN p = 1..m
        /\ below \in Seq(Nat) /\ Len(below) = n + 1
        /\ \A i \in 1..n : below[i] = here[i]
        /\ below[n + 1] = x
    BY LenProperties, AppendProperties
  <1>2. /\ IsPrefix(p, below) <=> m <= n + 1 /\ \A i \in 1..m : p[i] = below[i]
        /\ IsPrefix(p, here) <=> m <= n /\ \A i \in 1..m : p[i] = here[i]
    <2>0. below \in Seq(Nat)
      BY <1>1
    <2> HIDE DEF below
    <2>1. IsPrefix(p, below) <=>
              Len(p) <= Len(below) /\ \A i \in 1..Len(p) : p[i] = below[i]
      BY <2>0, PrefixPoint
    <2>2. IsPrefix(p, here) <=>
              Len(p) <= Len(here) /\ \A i \in 1..Len(p) : p[i] = here[i]
      BY PrefixPoint
    <2>3. Len(below) = n + 1
      BY <1>1
    <2>4. IsPrefix(p, below) <=> m <= n + 1 /\ \A i \in 1..m : p[i] = below[i]
      BY <2>1, <2>3
    <2>5. QED
      BY <2>2, <2>4
  <1> HIDE DEF m, n, below
  <1>3. ASSUME m = n + 1
        PROVE  ~\A i \in 1..m : p[i] = below[i]
    <2>1. m \in 1..m /\ m \in DOMAIN p
      BY <1>1, <1>3
    <2>2. p[m] # x
      BY <2>1
    <2>3. below[m] = x
      BY <1>1, <1>3
    <2>4. QED
      BY <2>1, <2>2, <2>3
  <1>4. ASSUME m <= n
        PROVE  \A i \in 1..m : below[i] = here[i]
    BY <1>1, <1>4
  <1>5. m <= n + 1 <=> m <= n \/ m = n + 1
    BY <1>1
  <1>6. QED
    BY <1>2, <1>3, <1>4, <1>5 DEF below

-----------------------------------------------------------------------------
(* Items of a file.                                                        *)

(* Every item has a place and a path.                                      *)
LEMMA ItemFields ==
    ASSUME NEW d \in Items
    PROVE  d.path \in Seq(Nat) /\ d.at \in Nat
  BY DEF Items, Tests, HooksOf

(* Declaring one more item.                                                *)
LEMMA OfKindAppend ==
    ASSUME NEW decl \in Seq(Items), NEW d \in Items, NEW kind
    PROVE  OfKind(Append(decl, d), kind) =
              IF d.kind = kind THEN Append(OfKind(decl, kind), d) ELSE OfKind(decl, kind)
  <1> DEFINE n == Len(decl)
             more == Append(decl, d)
             K == Places(decl, kind)
  <1>1. /\ n \in Nat /\ DOMAIN decl = 1..n /\ DOMAIN more = 1..(n + 1)
        /\ \A i \in 1..n : more[i] = decl[i]
        /\ more[n + 1] = d
    BY LenProperties, AppendProperties
  <1>2. K \in SUBSET DOMAIN decl
    BY DEF Places
  <1> HIDE DEF n, more
  <1>3. CASE d.kind = kind
    <2>1. Places(more, kind) = K \union {n + 1}
      BY <1>1, <1>3 DEF Places
    <2> HIDE DEF K
    <2>2. Sublist(more, K \union {n + 1}) = Append(Sublist(decl, K), d)
      BY <1>2, SublistKeep DEF n, more
    <2>3. QED
      BY <1>3, <2>1, <2>2 DEF OfKind, K, more
  <1>4. CASE d.kind # kind
    <2>1. Places(more, kind) = K
      BY <1>1, <1>4 DEF Places
    <2> HIDE DEF K
    <2>2. Sublist(more, K) = Sublist(decl, K)
      BY <1>2, SublistSkip DEF more
    <2>3. QED
      BY <1>4, <2>1, <2>2 DEF OfKind, K, more
  <1>5. QED
    BY <1>3, <1>4

(* One more item is in force where its path leads, if it is of the kind.   *)
LEMMA InForceAppend ==
    ASSUME NEW decl \in Seq(Items), NEW d \in Items, NEW kind, NEW path
    PROVE  InForce(Append(decl, d), kind, path) =
              IF d.kind = kind /\ IsPrefix(d.path, path)
              THEN Append(InForce(decl, kind, path), d) ELSE InForce(decl, kind, path)
  <1> DEFINE n == Len(decl)
             more == Append(decl, d)
             K == PlacesInForce(decl, kind, path)
  <1>1. /\ n \in Nat /\ DOMAIN decl = 1..n /\ DOMAIN more = 1..(n + 1)
        /\ \A i \in 1..n : more[i] = decl[i]
        /\ more[n + 1] = d
    BY LenProperties, AppendProperties
  <1>2. K \in SUBSET DOMAIN decl
    BY DEF PlacesInForce
  <1> HIDE DEF n, more
  <1>3. CASE d.kind = kind /\ IsPrefix(d.path, path)
    <2>1. PlacesInForce(more, kind, path) = K \union {n + 1}
      BY <1>1, <1>3 DEF PlacesInForce
    <2> HIDE DEF K
    <2>2. Sublist(more, K \union {n + 1}) = Append(Sublist(decl, K), d)
      BY <1>2, SublistKeep DEF n, more
    <2>3. QED
      BY <1>3, <2>1, <2>2 DEF InForce, K, more
  <1>4. CASE ~(d.kind = kind /\ IsPrefix(d.path, path))
    <2>1. PlacesInForce(more, kind, path) = K
      BY <1>1, <1>4 DEF PlacesInForce
    <2> HIDE DEF K
    <2>2. Sublist(more, K) = Sublist(decl, K)
      BY <1>2, SublistSkip DEF more
    <2>3. QED
      BY <1>4, <2>1, <2>2 DEF InForce, K, more
  <1>5. QED
    BY <1>3, <1>4

(* What is in force at a new describe form is what is in force around it.  *)
LEMMA InForceBelow ==
    ASSUME NEW decl \in Seq(Items), WellPlaced(decl), NEW kind, NEW here \in Seq(Nat),
           NEW x \in Nat, x > Len(decl)
    PROVE  InForce(decl, kind, Append(here, x)) = InForce(decl, kind, here)
  <1>1. Len(decl) \in Nat /\ DOMAIN decl = 1..Len(decl)
    BY LenProperties
  <1>2. ASSUME NEW i \in DOMAIN decl
        PROVE  IsPrefix(decl[i].path, Append(here, x)) <=> IsPrefix(decl[i].path, here)
    <2>1. decl[i].path \in Seq(Nat)
      BY <1>1, <1>2, ElementOfSeq, ItemFields
    <2>2. \A j \in DOMAIN decl[i].path : decl[i].path[j] \in Nat /\ decl[i].path[j] < i
      BY <1>2, <2>1, ElementOfSeq, LenProperties DEF WellPlaced
    <2>3. \A j \in DOMAIN decl[i].path : decl[i].path[j] # x
      BY <1>1, <1>2, <2>2
    <2>4. QED
      BY <2>1, <2>3, PrefixBelow
  <1>3. PlacesInForce(decl, kind, Append(here, x)) = PlacesInForce(decl, kind, here)
    BY <1>2 DEF PlacesInForce
  <1>4. QED
    BY <1>3 DEF InForce

(* Nothing is in force in an empty file.                                   *)
LEMMA NothingDeclared ==
    ASSUME NEW kind, NEW path
    PROVE  /\ InForce(<<>>, kind, path) = <<>>
           /\ OfKind(<<>>, kind) = <<>>
  <1>1. PlacesInForce(<<>>, kind, path) = {} /\ Places(<<>>, kind) = {}
    BY DEF PlacesInForce, Places
  <1>2. Sublist(<<>>, {}) = <<>>
    BY FS_EmptySet DEF Sublist
  <1>3. QED
    BY <1>1, <1>2 DEF InForce, OfKind

-----------------------------------------------------------------------------
(* The registries follow the forms.                                        *)

(* The registries follow what has been declared, inside any scopes.        *)
EvalInv == Ordered /\ RegistryFollows /\ ScopesRemember

(* Nothing is declared at first, and nothing registered.                   *)
LEMMA EvalInit == Init => EvalInv
  BY DEF Init, EvalInv, Ordered, WellPlaced, RegistryFollows, ScopesRemember

(* A typed hook registry.                                                  *)
LEMMA HookRegistry ==
    ASSUME NEW r \in Registries
    PROVE  /\ \A kind \in HookKinds \cup AllKinds :
                r[kind] \in Seq(HooksOf(kind)) /\ r[kind] \in Seq(Items)
           /\ r.tests \in Seq(Tests) /\ r.tests \in Seq(Items)
  <1>1. ASSUME NEW kind \in HookKinds \cup AllKinds
        PROVE  r[kind] \in Seq(HooksOf(kind)) /\ HooksOf(kind) \subseteq Items
    BY DEF HookKinds, AllKinds, Registries, Items, Marks
  <1>2. r.tests \in Seq(Tests) /\ Tests \subseteq Items
    BY DEF Registries, Items
  <1>3. QED
    BY <1>1, <1>2, SeqMonotonic

(* The depths an open form remembers.                                      *)
LEMMA RememberedDepths ==
    ASSUME Typed, ScopesBounded, NEW k \in DOMAIN scopes, NEW kind \in HookKinds
    PROVE  /\ scopes[k][kind] \in Nat
           /\ scopes[k][kind] <= Len(registry[kind])
           /\ \A l \in 1..k : scopes[l][kind] <= scopes[k][kind]
  <1>1. scopes[k] \in Scopes
    BY ElementOfSeq, LenProperties DEF Typed
  <1>2. scopes[k].setup \in Nat /\ scopes[k].teardown \in Nat
    BY <1>1 DEF Scopes
  <1>3. CASE kind = "setup"
    BY <1>2, <1>3 DEF ScopesBounded
  <1>4. CASE kind = "teardown"
    BY <1>2, <1>4 DEF ScopesBounded
  <1>5. QED
    BY <1>3, <1>4 DEF HookKinds

(* An item written at a place of the file and put into its own registry.   *)
LEMMA EvalItem ==
    ASSUME Typed, ScopesBounded, EvalInv, phase = "eval", NEW d \in Items,
           d.at = Len(declared) + 1, d.path = Here,
           declared' = Append(declared, d), scopes' = scopes,
           \A kind \in HookKinds \cup AllKinds :
              registry'[kind] = IF d.kind = kind THEN Append(registry[kind], d)
                                ELSE registry[kind],
           registry'.tests = IF d.kind = "test" THEN Append(registry.tests, d)
                             ELSE registry.tests
    PROVE  EvalInv'
  <1> DEFINE n == Len(declared)
             more == Append(declared, d)
  <1>1. /\ n \in Nat /\ DOMAIN declared = 1..n
        /\ more \in Seq(Items) /\ DOMAIN more = 1..(n + 1) /\ Len(more) = n + 1
        /\ \A i \in 1..n : more[i] = declared[i]
        /\ more[n + 1] = d
    BY LenProperties, AppendProperties DEF Typed
  <1>2. /\ Here \in Seq(Nat) /\ Len(Here) = Len(scopes) /\ Here' = Here
        /\ DOMAIN Here = DOMAIN scopes /\ Len(scopes) \in Nat /\ DOMAIN scopes = 1..Len(scopes)
        /\ \A k \in DOMAIN scopes : Here[k] = scopes[k].at
    BY HereType, LenProperties DEF Here, Typed
  <1>3. declared' = more
    OBVIOUS
  <1> HIDE DEF n, more
  <1>4. Ordered'
    <2>1. \A k \in DOMAIN scopes : scopes[k].at \in Nat /\ scopes[k].at <= n
      <3>1. \A k \in DOMAIN scopes : Here[k] \in Nat
        BY <1>2, ElementOfSeq
      <3>2. QED
        BY <1>2, <3>1 DEF EvalInv, Ordered, n
    <2>2. \A i \in 1..n : more[i].at = i /\ \A j \in DOMAIN more[i].path : more[i].path[j] < i
      BY <1>1 DEF EvalInv, Ordered, WellPlaced
    <2>3. more[n + 1].at = n + 1 /\ \A j \in DOMAIN more[n + 1].path : more[n + 1].path[j] < n + 1
      <3>1. d.at = n + 1
        BY DEF n
      <3>2. \A j \in DOMAIN Here : Here[j] < n + 1
        BY <1>1, <1>2, <2>1
      <3>3. QED
        BY <1>1, <3>1, <3>2
    <2>4. \A i \in DOMAIN more : i \in 1..n \/ i = n + 1
      BY <1>1
    <2>5. WellPlaced(more)
      BY <2>2, <2>3, <2>4 DEF WellPlaced
    <2>6. \A k \in DOMAIN scopes : scopes[k].at <= n + 1
      BY <1>1, <2>1
    <2>7. QED
      BY <1>1, <1>3, <2>5, <2>6 DEF Ordered
  <1>5. RegistryFollows'
    <2>1. \A kind \in HookKinds : registry'[kind] = InForce(more, kind, Here)
      <3>1. IsPrefix(Here, Here)
        BY <1>2, PrefixPoint
      <3>2. \A kind \in HookKinds : InForce(more, kind, Here) =
                IF d.kind = kind THEN Append(InForce(declared, kind, Here), d)
                ELSE InForce(declared, kind, Here)
        BY <3>1, InForceAppend DEF Typed, more
      <3>3. QED
        BY <3>2 DEF EvalInv, RegistryFollows
    <2>2. /\ \A kind \in AllKinds : registry'[kind] = OfKind(more, kind)
          /\ registry'.tests = OfKind(more, "test")
      <3>1. \A kind : OfKind(more, kind) =
                IF d.kind = kind THEN Append(OfKind(declared, kind), d)
                ELSE OfKind(declared, kind)
        BY OfKindAppend DEF Typed, more
      <3>2. QED
        BY <3>1 DEF EvalInv, RegistryFollows
    <2>3. QED
      BY <1>2, <1>3, <2>1, <2>2 DEF RegistryFollows
  <1>6. ScopesRemember'
    <2> SUFFICES ASSUME NEW k \in DOMAIN scopes, NEW kind \in HookKinds
                 PROVE  SubSeq(registry'[kind], 1, scopes[k][kind])
                          = InForce(more, kind, SubSeq(Here, 1, k - 1))
      BY <1>2, <1>3 DEF ScopesRemember
    <2> DEFINE depth == scopes[k][kind]
               outer == SubSeq(Here, 1, k - 1)
    <2>1. SubSeq(registry[kind], 1, depth) = InForce(declared, kind, outer)
      BY DEF EvalInv, ScopesRemember
    <2>2. depth \in Nat /\ depth <= Len(registry[kind])
      BY RememberedDepths
    <2>3. k - 1 \in Nat /\ k - 1 < Len(Here)
      BY <1>2
    <2>4. outer \in Seq(Nat) /\ Len(outer) = k - 1
      BY <1>2, <2>3, CutType
    <2> HIDE DEF depth, outer
    <2>5. ~IsPrefix(d.path, outer)
      BY <1>2, <2>3, <2>4, PrefixPoint
    <2>6. InForce(more, kind, outer) = InForce(declared, kind, outer)
      BY <2>5, InForceAppend DEF Typed, more
    <2>7. SubSeq(registry'[kind], 1, depth) = SubSeq(registry[kind], 1, depth)
      <3>1. registry[kind] \in Seq(Items)
        BY HookRegistry DEF Typed
      <3>2. SubSeq(Append(registry[kind], d), 1, depth) = SubSeq(registry[kind], 1, depth)
        BY <2>2, <3>1, CutAppend
      <3>3. registry'[kind] = Append(registry[kind], d) \/ registry'[kind] = registry[kind]
        OBVIOUS
      <3>4. QED
        BY <3>2, <3>3
    <2>8. QED
      BY <2>1, <2>6, <2>7 DEF depth, outer
  <1>7. QED
    BY <1>4, <1>5, <1>6 DEF EvalInv

(* A hook or a test is such an item.                                       *)
LEMMA EvalHook ==
    ASSUME Typed, ScopesBounded, EvalInv, NEW hook \in HookKinds \cup AllKinds,
           RegisterHook(hook)
    PROVE  EvalInv'
  <1> DEFINE d == Written(hook)
  <1>1. phase = "eval"
    BY DEF RegisterHook, Evaluating
  <1>2. d \in Items /\ d.kind = hook /\ d.at = Len(declared) + 1 /\ d.path = Here
    BY <1>1, WrittenType DEF Items, Marks, HookKinds, AllKinds, Written
  <1>3. /\ declared' = Append(declared, d) /\ scopes' = scopes
        /\ registry' = [registry EXCEPT ![hook] = Append(@, d)]
    BY DEF RegisterHook, Declare
  <1> HIDE DEF d
  <1>4. /\ \A kind \in HookKinds \cup AllKinds :
              registry'[kind] = IF d.kind = kind THEN Append(registry[kind], d)
                                ELSE registry[kind]
        /\ registry'.tests = registry.tests
        /\ d.kind # "test"
    BY <1>2, <1>3 DEF Typed, Registries, HookKinds, AllKinds
  <1>5. QED
    BY <1>1, <1>2, <1>3, <1>4, EvalItem

(* A test that is declared is registered, and moves no hook.               *)
LEMMA EvalTest ==
    ASSUME Typed, ScopesBounded, EvalInv, NEW n \in Names, NEW m \in Metas, Deftest(n, m)
    PROVE  EvalInv'
  <1> DEFINE d == WrittenTest(n, m)
  <1>1. phase = "eval"
    BY DEF Deftest, Evaluating
  <1>2. d \in Items /\ d.kind = "test" /\ d.at = Len(declared) + 1 /\ d.path = Here
    BY <1>1, WrittenTestType DEF Items, WrittenTest
  <1>3. /\ declared' = Append(declared, d) /\ scopes' = scopes
        /\ registry'.tests = Append(registry.tests, d)
        /\ \A kind \in HookKinds \cup AllKinds : registry'[kind] = registry[kind]
    BY DEF Deftest, Declare, Typed, Registries, HookKinds, AllKinds
  <1> HIDE DEF d
  <1>4. \A kind \in HookKinds \cup AllKinds : d.kind # kind
    BY <1>2 DEF HookKinds, AllKinds
  <1>5. QED
    BY <1>1, <1>2, <1>3, <1>4, EvalItem

(* A describe form is declared, and remembers what is in force around it.  *)
LEMMA EvalDescribe ==
    ASSUME Typed, ScopesBounded, EvalInv, NEW label \in Labels, Describe(label)
    PROVE  EvalInv'
  <1> DEFINE n == Len(declared)
             d == Written("describe")
             more == Append(declared, d)
             m == Len(scopes)
             below == Append(Here, n + 1)
             new == [label |-> label, at |-> n + 1, setup |-> Len(registry.setup),
                     teardown |-> Len(registry.teardown)]
  <1>0. phase = "eval"
    BY DEF Describe, Evaluating
  <1>1. d \in Items /\ d.kind = "describe" /\ d.at = n + 1 /\ d.path = Here
    BY <1>0, WrittenType DEF Items, Marks, Written
  <1>2. /\ declared' = more /\ scopes' = Append(scopes, new)
        /\ \A kind \in HookKinds \cup AllKinds : registry'[kind] = registry[kind]
        /\ registry'.tests = registry.tests
    BY DEF Describe, Declare, Typed, Registries, HookKinds, AllKinds
  <1> HIDE DEF d
  <1>3. /\ n \in Nat /\ DOMAIN declared = 1..n
        /\ more \in Seq(Items) /\ DOMAIN more = 1..(n + 1) /\ Len(more) = n + 1
        /\ \A i \in 1..n : more[i] = declared[i]
        /\ more[n + 1] = d
    BY <1>1, LenProperties, AppendProperties DEF Typed
  <1>4. /\ new \in Scopes /\ new.at = n + 1 /\ new.label = label
        /\ \A kind \in HookKinds : new[kind] = Len(registry[kind])
    <2>1. /\ Len(registry.setup) \in Nat /\ Len(registry.teardown) \in Nat
      BY LenProperties DEF Typed, Registries
    <2>2. QED
      BY <1>3, <2>1 DEF Scopes, HookKinds
  <1> HIDE DEF new
  <1>5. /\ m \in Nat /\ DOMAIN scopes = 1..m
        /\ scopes' \in Seq(Scopes) /\ DOMAIN scopes' = 1..(m + 1)
        /\ \A k \in 1..m : scopes'[k] = scopes[k]
        /\ scopes'[m + 1] = new
    BY <1>2, <1>4, LenProperties, AppendProperties DEF Typed
  <1>6. /\ Here \in Seq(Nat) /\ Len(Here) = m /\ n + 1 \in Nat
        /\ \A k \in 1..m : Here[k] = scopes[k].at
    BY <1>3, <1>5, HereType DEF Here, Typed
  <1>7. /\ below \in Seq(Nat) /\ Len(below) = m + 1
        /\ \A k \in 1..m : below[k] = Here[k]
        /\ below[m + 1] = n + 1
    BY <1>6, AppendProperties
  <1> HIDE DEF more, m, n, below
  <1>8. Here' = below
    <2>1. Here' = [k \in 1..(m + 1) |-> scopes'[k].at]
      BY <1>5 DEF Here
    <2>2. DOMAIN below = 1..(m + 1) /\ below = [k \in DOMAIN below |-> below[k]]
      BY <1>7, LenProperties
    <2>3. \A k \in 1..(m + 1) : scopes'[k].at = below[k]
      <3>1. \A k \in 1..(m + 1) : k \in 1..m \/ k = m + 1
        BY <1>5
      <3>2. \A k \in 1..m : scopes'[k].at = below[k]
        BY <1>5, <1>6, <1>7
      <3>3. scopes'[m + 1].at = below[m + 1]
        BY <1>4, <1>5, <1>7
      <3>4. QED
        BY <3>1, <3>2, <3>3
    <2>4. QED
      BY <2>1, <2>2, <2>3
  <1>9. \A k \in 1..m : scopes[k].at \in Nat /\ scopes[k].at <= n
    <2>1. \A k \in 1..m : Here[k] \in Nat
      BY <1>6, ElementOfSeq
    <2>2. QED
      BY <1>5, <1>6, <2>1 DEF EvalInv, Ordered, n
  <1>10. Ordered'
    <2>1. \A i \in 1..n : more[i].at = i /\ \A j \in DOMAIN more[i].path : more[i].path[j] < i
      BY <1>3 DEF EvalInv, Ordered, WellPlaced
    <2>2. \A j \in DOMAIN Here : Here[j] < n + 1
      BY <1>3, <1>5, <1>6, <1>9, LenProperties
    <2>3. more[n + 1].at = n + 1 /\ \A j \in DOMAIN more[n + 1].path : more[n + 1].path[j] < n + 1
      BY <1>1, <1>3, <2>2
    <2>4. \A i \in DOMAIN more : i \in 1..n \/ i = n + 1
      BY <1>3
    <2>5. WellPlaced(more)
      BY <2>1, <2>3, <2>4 DEF WellPlaced
    <2>6. \A k \in DOMAIN scopes' : scopes'[k].at <= n + 1
      BY <1>3, <1>4, <1>5, <1>9
    <2>7. QED
      BY <1>2, <1>3, <2>5, <2>6 DEF Ordered
  <1>11. \A kind, path : kind # "describe" => InForce(more, kind, path) = InForce(declared, kind, path)
    BY <1>1, InForceAppend DEF Typed, more
  <1>12. \A kind \in HookKinds : InForce(more, kind, below) = InForce(declared, kind, Here)
    <2>1. WellPlaced(declared) /\ declared \in Seq(Items)
      BY DEF EvalInv, Ordered, Typed
    <2>2. \A kind : InForce(declared, kind, below) = InForce(declared, kind, Here)
      BY <1>3, <1>6, <2>1, InForceBelow DEF below, n
    <2>3. QED
      BY <1>11, <2>2 DEF HookKinds
  <1>13. RegistryFollows'
    <2>1. \A kind \in HookKinds : registry'[kind] = InForce(more, kind, below)
      BY <1>0, <1>2, <1>12 DEF EvalInv, RegistryFollows
    <2>2. \A kind : kind # "describe" => OfKind(more, kind) = OfKind(declared, kind)
      BY <1>1, OfKindAppend DEF Typed, more
    <2>3. /\ \A kind \in AllKinds : registry'[kind] = OfKind(more, kind)
          /\ registry'.tests = OfKind(more, "test")
      BY <1>0, <1>2, <2>2 DEF EvalInv, RegistryFollows, AllKinds
    <2>4. QED
      BY <1>2, <1>8, <2>1, <2>3 DEF RegistryFollows
  <1>14. ScopesRemember'
    <2> SUFFICES ASSUME NEW k \in 1..(m + 1), NEW kind \in HookKinds
                 PROVE  SubSeq(registry[kind], 1, scopes'[k][kind])
                          = InForce(more, kind, SubSeq(below, 1, k - 1))
      BY <1>2, <1>5, <1>8 DEF ScopesRemember
    <2>1. registry[kind] \in Seq(Items)
      BY HookRegistry DEF Typed
    <2>2. k - 1 \in Nat /\ k - 1 <= m
      BY <1>5
    <2>3. SubSeq(below, 1, k - 1) = SubSeq(Here, 1, k - 1)
      BY <1>6, <2>2, CutAppend DEF below
    <2>4. kind # "describe"
      BY DEF HookKinds
    <2>5. CASE k \in 1..m
      <3>1. k \in DOMAIN scopes /\ scopes'[k] = scopes[k]
        BY <1>5, <2>5
      <3>2. SubSeq(registry[kind], 1, scopes[k][kind])
              = InForce(declared, kind, SubSeq(Here, 1, k - 1))
        BY <3>1 DEF EvalInv, ScopesRemember
      <3>3. InForce(more, kind, SubSeq(Here, 1, k - 1))
              = InForce(declared, kind, SubSeq(Here, 1, k - 1))
        BY <1>11, <2>4
      <3>4. QED
        BY <2>3, <3>1, <3>2, <3>3
    <2>6. CASE k = m + 1
      <3>1. SubSeq(registry[kind], 1, Len(registry[kind])) = registry[kind]
        BY <2>1, SubSeqFull
      <3>2. SubSeq(Here, 1, m) = Here
        BY <1>6, SubSeqFull
      <3>3. scopes'[k][kind] = Len(registry[kind]) /\ k - 1 = m
        BY <1>4, <1>5, <2>6
      <3>4. registry[kind] = InForce(declared, kind, Here)
        BY <1>0 DEF EvalInv, RegistryFollows
      <3>5. QED
        BY <1>11, <2>3, <2>4, <3>1, <3>2, <3>3, <3>4
    <2>7. QED
      BY <1>5, <2>5, <2>6
  <1>15. QED
    BY <1>10, <1>13, <1>14 DEF EvalInv

(* A form that ends leaves what it found.                                  *)
LEMMA EvalEndDescribe ==
    ASSUME Typed, ScopesBounded, EvalInv, EndDescribe
    PROVE  EvalInv'
  <1> DEFINE m == Len(scopes)
             outer == SubSeq(Here, 1, m - 1)
  <1>0. phase = "eval" /\ declared' = declared
    BY DEF EndDescribe
  <1>1. /\ m \in Nat \ {0} /\ DOMAIN scopes = 1..m /\ Last(scopes) = scopes[m]
        /\ scopes' \in Seq(Scopes) /\ DOMAIN scopes' = 1..(m - 1)
        /\ \A k \in 1..(m - 1) : scopes'[k] = scopes[k]
    BY FrontType, LenProperties DEF EndDescribe, Typed
  <1>2. /\ \A kind \in HookKinds :
              registry'[kind] = SubSeq(registry[kind], 1, scopes[m][kind])
        /\ \A kind \in AllKinds : registry'[kind] = registry[kind]
        /\ registry'.tests = registry.tests
    BY <1>1 DEF EndDescribe, Typed, Registries, HookKinds, AllKinds
  <1>3. /\ Here \in Seq(Nat) /\ Len(Here) = m
        /\ \A k \in 1..m : Here[k] = scopes[k].at
    BY <1>1, HereType DEF Here, Typed
  <1>4. /\ m - 1 \in Nat /\ outer \in Seq(Nat) /\ Len(outer) = m - 1
        /\ \A k \in 1..(m - 1) : outer[k] = Here[k]
    BY <1>1, <1>3, CutType
  <1> HIDE DEF m, outer
  <1>5. Here' = outer
    <2>1. Here' = [k \in 1..(m - 1) |-> scopes'[k].at]
      BY <1>1 DEF Here
    <2>2. DOMAIN outer = 1..(m - 1) /\ outer = [k \in DOMAIN outer |-> outer[k]]
      BY <1>4, LenProperties
    <2>3. \A k \in 1..(m - 1) : k \in 1..m /\ scopes'[k].at = outer[k]
      BY <1>1, <1>3, <1>4
    <2>4. QED
      BY <2>1, <2>2, <2>3
  <1>6. Ordered'
    <2>1. \A k \in 1..(m - 1) : k \in 1..m
      BY <1>1
    <2>2. QED
      BY <1>0, <1>1, <2>1 DEF EvalInv, Ordered
  <1>7. RegistryFollows'
    <2>1. m \in DOMAIN scopes
      BY <1>1
    <2>2. \A kind \in HookKinds : registry'[kind] = InForce(declared, kind, outer)
      BY <1>2, <2>1 DEF EvalInv, ScopesRemember, outer
    <2>3. QED
      BY <1>0, <1>2, <1>5, <2>2 DEF EvalInv, RegistryFollows
  <1>8. ScopesRemember'
    <2> SUFFICES ASSUME NEW k \in 1..(m - 1), NEW kind \in HookKinds
                 PROVE  SubSeq(registry'[kind], 1, scopes[k][kind])
                          = InForce(declared, kind, SubSeq(outer, 1, k - 1))
      BY <1>0, <1>1, <1>5 DEF ScopesRemember
    <2>1. registry[kind] \in Seq(Items)
      BY HookRegistry DEF Typed
    <2>2. k \in DOMAIN scopes /\ m \in DOMAIN scopes /\ k \in 1..m
      BY <1>1
    <2>3. /\ scopes[m][kind] \in Nat /\ scopes[m][kind] <= Len(registry[kind])
          /\ scopes[k][kind] \in Nat /\ scopes[k][kind] <= scopes[m][kind]
      <3>1. /\ scopes[m][kind] \in Nat /\ scopes[m][kind] <= Len(registry[kind])
            /\ \A l \in 1..m : scopes[l][kind] <= scopes[m][kind]
        BY <2>2, RememberedDepths
      <3>2. scopes[k][kind] \in Nat
        BY <2>2, RememberedDepths
      <3>3. QED
        BY <2>2, <3>1, <3>2
    <2>4. SubSeq(registry'[kind], 1, scopes[k][kind]) = SubSeq(registry[kind], 1, scopes[k][kind])
      BY <1>2, <2>1, <2>3, CutCut
    <2>5. /\ m - 1 \in Nat /\ m - 1 <= Len(Here)
          /\ k - 1 \in Nat /\ k - 1 <= m - 1
      BY <1>1, <1>3
    <2>6. SubSeq(outer, 1, k - 1) = SubSeq(Here, 1, k - 1)
      BY <1>3, <2>5, CutCut DEF outer
    <2>7. QED
      BY <2>2, <2>4, <2>6 DEF EvalInv, ScopesRemember
  <1>9. QED
    BY <1>6, <1>7, <1>8 DEF EvalInv

(* Every step keeps the registries in line with the forms.                 *)
LEMMA EvalStep == Typed /\ Typed' /\ ScopesBounded /\ EvalInv /\ [Next]_vars => EvalInv'
  <1> SUFFICES ASSUME Typed, Typed', ScopesBounded, EvalInv, [Next]_vars
               PROVE  EvalInv'
    OBVIOUS
  <1>1. ASSUME phase' # "eval", declared' \in {declared, <<>>}
        PROVE  EvalInv'
    <2>1. scopes' = <<>>
      BY <1>1 DEF Typed
    <2>2. RegistryFollows' /\ ScopesRemember'
      BY <1>1, <2>1 DEF RegistryFollows, ScopesRemember
    <2>3. WellPlaced(declared')
      BY <1>1 DEF EvalInv, Ordered, WellPlaced
    <2>4. QED
      BY <2>1, <2>2, <2>3 DEF EvalInv, Ordered
  <1>2. CASE BeginFile
    <2>1. declared' = <<>> /\ scopes' = <<>> /\ Here' = <<>>
      BY <1>2 DEF BeginFile, Here
    <2>2. /\ \A kind \in HookKinds \cup AllKinds : registry'[kind] = <<>>
          /\ registry'.tests = <<>>
      BY <1>2 DEF BeginFile, Prepared, registry_clear, EmptyRegistry, HookKinds, AllKinds
    <2>3. RegistryFollows'
      BY <2>1, <2>2, NothingDeclared DEF RegistryFollows
    <2>4. Ordered' /\ ScopesRemember'
      BY <2>1 DEF Ordered, WellPlaced, ScopesRemember
    <2>5. QED
      BY <2>3, <2>4 DEF EvalInv
  <1>3. ASSUME NEW l \in Labels, Describe(l)
        PROVE  EvalInv'
    BY <1>3, EvalDescribe
  <1>4. CASE EndDescribe
    BY <1>4, EvalEndDescribe
  <1>5. CASE Setup \/ Teardown \/ SetupAll \/ TeardownAll
    BY <1>5, EvalHook DEF Setup, Teardown, SetupAll, TeardownAll, HookKinds, AllKinds
  <1>6. ASSUME NEW n \in Names, NEW m \in Metas, Deftest(n, m)
        PROVE  EvalInv'
    BY <1>6, EvalTest
  <1>7. CASE TopLevelCheck
    <2>1. PICK o \in Outcomes : Perform(o)
      BY <1>7 DEF TopLevelCheck
    <2>2. /\ \A kind \in HookKinds \cup AllKinds : registry'[kind] = registry[kind]
          /\ registry'.tests = registry.tests
      BY <2>1 DEF Perform, After, Typed, Registries, HookKinds, AllKinds
    <2>3. UNCHANGED <<phase, scopes, declared>>
      BY <1>7 DEF TopLevelCheck
    <2>4. QED
      BY <2>2, <2>3 DEF EvalInv, Ordered, RegistryFollows, ScopesRemember, Here, HookKinds, AllKinds
  <1>8. CASE UNCHANGED vars
    BY <1>8 DEF vars, EvalInv, Ordered, RegistryFollows, ScopesRemember, Here
  <1>9. CASE \/ StartCommand \/ EvalFails \/ EvalEnds \/ RunSetupAll \/ SetupAllDone
             \/ RunTest \/ RunTeardownAll \/ EndFile \/ EndCommand \/ Kill
    <2>1. phase' # "eval" /\ declared' \in {declared, <<>>}
      BY <1>9 DEF StartCommand, EvalFails, EvalEnds, RunSetupAll, SetupAllDone, RunTest,
                  RunTeardownAll, EndFile, EndCommand, Kill, ProcessGone, NextFile
    <2>2. QED
      BY <1>1, <2>1
  <1>10. QED
    BY <1>2, <1>3, <1>4, <1>5, <1>6, <1>7, <1>8, <1>9 DEF Next

-----------------------------------------------------------------------------
(* The invariant of the runner, and what follows from it.                  *)

(* The invariant the proofs of the other properties rest on.               *)
RunnerInv == Typed /\ ScopesBounded /\ EvalInv /\ RetriesKept /\ AtRest

(* It holds at first ...                                                   *)
LEMMA RunnerInit == Init => RunnerInv
  <1> SUFFICES ASSUME Init
               PROVE  RunnerInv
    OBVIOUS
  <1>1. RetriesKept
    BY DEF Init, RetriesKept, NoRun
  <1>2. AtRest
    BY DEF Init, AtRest
  <1>3. QED
    BY <1>1, <1>2, TypedInit, BoundedInit, EvalInit DEF RunnerInv

(* ... is kept by every step ...                                           *)
LEMMA RunnerStep == RunnerInv /\ [Next]_vars => RunnerInv'
  BY TypedStep, BoundedStep, EvalStep, RetriesStep, AtRestStep DEF RunnerInv

(* ... and so holds always.                                                *)
LEMMA RunnerAlways == Spec => []RunnerInv
  BY RunnerInit, RunnerStep, PTL DEF Spec

(* What OfKind keeps.                                                      *)
LEMMA OfKindElements ==
    ASSUME NEW decl \in Seq(Items), NEW kind
    PROVE  /\ OfKind(decl, kind) \in Seq(Items)
           /\ ToSet(OfKind(decl, kind)) = {decl[i] : i \in Places(decl, kind)}
           /\ ToSet(OfKind(decl, kind)) \subseteq ToSet(decl)
  <1> DEFINE K == Places(decl, kind)
  <1>1. K \in SUBSET DOMAIN decl
    BY DEF Places
  <1> HIDE DEF K
  <1>2. /\ Sublist(decl, K) \in Seq(Items)
        /\ {Sublist(decl, K)[k] : k \in DOMAIN Sublist(decl, K)} = {decl[i] : i \in K}
    BY <1>1, SublistType
  <1>3. {decl[i] : i \in K} \subseteq ToSet(decl)
    BY <1>1 DEF ToSet
  <1>4. QED
    BY <1>2, <1>3 DEF OfKind, ToSet, K

(***************************************************************************)
(* The registries, the locals of the command and the seed file keep their  *)
(* types, a test is retried no more often than its :flaky says, and what   *)
(* is registered is what the file being evaluated has declared.            *)
(***************************************************************************)
THEOREM TypeCorrect == Spec => []TypeOK
  <1>1. RunnerInv => TypeOK
    <2> SUFFICES ASSUME RunnerInv
                 PROVE  TypeOK
      OBVIOUS
    <2>1. \A kind \in HookKinds \cup AllKinds : registry[kind] \in Seq(Hooks)
      <3>1. \A kind \in HookKinds \cup AllKinds : HooksOf(kind) \subseteq Hooks
        BY DEF HooksOf, Hooks, HookKinds, AllKinds
      <3>2. QED
        BY <3>1, HookRegistry, SeqMonotonic DEF RunnerInv, Typed
    <2>2. /\ registry.failedSeeds \in Seq(Seeds) /\ registry.overrides \in Seq(Seeds)
          /\ disk \in Seq(Seeds) /\ registry.describe \in Seq(Labels)
      BY DEF RunnerInv, Typed, Registries
    <2>3. phase = "eval" => ToSet(registry.tests) \subseteq ToSet(declared)
      BY OfKindElements DEF RunnerInv, Typed, EvalInv, RegistryFollows
    <2>4. QED
      BY <2>1, <2>2, <2>3 DEF RunnerInv, Typed, TypeOK, RetriesKept, HookKinds, AllKinds, InFile
  <1>2. QED
    BY <1>1, RunnerAlways, PTL

(***************************************************************************)
(* The exit status is success only if no file broke off, no setup-all hook *)
(* failed and every test's last attempt succeeded, in all files of the     *)
(* command: allPassed is cleared before the results that say otherwise go. *)
(***************************************************************************)
THEOREM VerdictIsHonest == Spec => []VerdictHonest
  <1>1. VerdictInv => VerdictHonest
    BY DEF VerdictInv
  <1>2. RunnerInv => Typed
    BY DEF RunnerInv
  <1>3. QED
    BY <1>1, <1>2, RunnerAlways, VerdictInit, VerdictStep, PTL DEF Spec

(***************************************************************************)
(* .test-seeds receives exactly the seeds that failed in the run of the    *)
(* file that ends, whatever earlier files and commands left behind.        *)
(***************************************************************************)
THEOREM SeedsWrittenAreOwn == Spec => SeedsAreOwn
  <1>1. Typed /\ SeedsInv /\ [Next]_vars => [disk' # disk => ToSet(disk') = failedHere]_vars
    <2> SUFFICES ASSUME Typed, SeedsInv, [Next]_vars, disk' # disk
                 PROVE  ToSet(disk') = failedHere
      OBVIOUS
    <2>1. CASE EndFile
      BY <2>1 DEF EndFile, SeedsInv, InFile
    <2>2. CASE Forms
      BY <2>2, FormFrame
    <2>3. CASE ~EndFile /\ ~Forms
      BY <2>3 DEF Next, Forms, vars, StartCommand, BeginFile, EvalFails, EvalEnds, RunSetupAll,
                  SetupAllDone, RunTest, RunTeardownAll, EndCommand, Kill, ProcessGone
    <2>4. QED
      BY <2>1, <2>2, <2>3
  <1>2. RunnerInv => Typed
    BY DEF RunnerInv
  <1>3. QED
    BY <1>1, <1>2, RunnerAlways, SeedsInit, SeedsStep, PTL DEF Spec, SeedsAreOwn

-----------------------------------------------------------------------------
(* Names.                                                                  *)

(* Appending the same element to a sequence and to its suffix.             *)
LEMMA SuffixAppend ==
    ASSUME NEW S, NEW s \in Seq(S), NEW t \in Seq(S), NEW e \in S, IsSuffix(s, t)
    PROVE  IsSuffix(Append(s, e), Append(t, e))
  <1> DEFINE m == Len(s)
             n == Len(t)
             s1 == Append(s, e)
             t1 == Append(t, e)
  <1>1. /\ m \in Nat /\ n \in Nat
        /\ s1 \in Seq(S) /\ Len(s1) = m + 1 /\ (\A i \in 1..m : s1[i] = s[i]) /\ s1[m + 1] = e
        /\ t1 \in Seq(S) /\ Len(t1) = n + 1 /\ (\A i \in 1..n : t1[i] = t[i]) /\ t1[n + 1] = e
    BY LenProperties, AppendProperties
  <1>2. m <= n /\ \A i \in 1..m : s[i] = t[(n - m) + i]
    BY SuffixPoint
  <1> HIDE DEF m, n, s1, t1
  <1>3. ASSUME NEW i \in 1..(m + 1)
        PROVE  s1[i] = t1[((n + 1) - (m + 1)) + i]
    <2>1. CASE i \in 1..m
      <3>1. /\ ((n + 1) - (m + 1)) + i = (n - m) + i
            /\ (n - m) + i \in 1..n
        BY <1>1, <1>2, <2>1
      <3>2. QED
        BY <1>1, <1>2, <2>1, <3>1
    <2>2. CASE i = m + 1
      <3>1. ((n + 1) - (m + 1)) + i = n + 1
        BY <1>1, <2>2
      <3>2. QED
        BY <1>1, <2>2, <3>1
    <2>3. QED
      BY <1>1, <2>1, <2>2
  <1>4. Len(s1) <= Len(t1) /\ \A i \in 1..Len(s1) : s1[i] = t1[(Len(t1) - Len(s1)) + i]
    BY <1>1, <1>2, <1>3
  <1>5. IsSuffix(s1, t1)
    BY <1>1, <1>4, SuffixPoint
  <1>6. QED
    BY <1>5 DEF s1, t1

(* Dropping the last element of both.                                      *)
LEMMA SuffixFront ==
    ASSUME NEW S, NEW s \in Seq(S), NEW t \in Seq(S), s # <<>>, IsSuffix(s, t)
    PROVE  t # <<>> /\ IsSuffix(Front(s), Front(t))
  <1> DEFINE m == Len(s)
             n == Len(t)
             s1 == Front(s)
             t1 == Front(t)
  <1>1. n \in Nat /\ m <= n /\ \A i \in 1..m : s[i] = t[(n - m) + i]
    BY SuffixPoint, LenProperties
  <1>2. m \in Nat \ {0}
    BY FrontType
  <1>3. t # <<>>
    BY <1>1, <1>2, EmptySeq
  <1>4. /\ s1 \in Seq(S) /\ Len(s1) = m - 1 /\ (\A i \in 1..(m - 1) : s1[i] = s[i])
        /\ t1 \in Seq(S) /\ Len(t1) = n - 1 /\ (\A i \in 1..(n - 1) : t1[i] = t[i])
    BY <1>3, FrontType
  <1> HIDE DEF m, n, s1, t1
  <1>5. ASSUME NEW i \in 1..(m - 1)
        PROVE  s1[i] = t1[((n - 1) - (m - 1)) + i]
    <2>1. /\ ((n - 1) - (m - 1)) + i = (n - m) + i
          /\ (n - m) + i \in 1..(n - 1) /\ i \in 1..m
      BY <1>1, <1>2
    <2>2. QED
      BY <1>1, <1>4, <2>1
  <1>6. Len(s1) <= Len(t1) /\ \A i \in 1..Len(s1) : s1[i] = t1[(Len(t1) - Len(s1)) + i]
    BY <1>1, <1>2, <1>4, <1>5
  <1>7. IsSuffix(s1, t1)
    BY <1>4, <1>6, SuffixPoint
  <1>8. QED
    BY <1>3, <1>7 DEF s1, t1

(* The empty sequence is a suffix of every sequence.                       *)
LEMMA SuffixEmpty ==
    ASSUME NEW S, NEW t \in Seq(S)
    PROVE  IsSuffix(<<>>, t)
  <1> DEFINE e == <<>>
  <1>1. e \in Seq(S) /\ Len(e) = 0 /\ Len(t) \in Nat
    BY EmptySeq, LenProperties
  <1> HIDE DEF e
  <1>2. Len(e) <= Len(t) /\ \A i \in 1..Len(e) : e[i] = t[(Len(t) - Len(e)) + i]
    BY <1>1
  <1>3. IsSuffix(e, t)
    BY <1>1, <1>2, SuffixPoint
  <1>4. QED
    BY <1>3 DEF e

(* The labels on the describe stack end in those of the open forms.        *)
LEMMA LabelsInit == Init => LabelsFollow
  <1> SUFFICES ASSUME Init
               PROVE  LabelsFollow
    OBVIOUS
  <1>1. registry.describe = <<>> /\ ScopeLabels = <<>>
    BY DEF Init, EmptyRegistry, ScopeLabels
  <1>2. <<>> \in Seq(Labels)
    OBVIOUS
  <1>3. IsSuffix(<<>>, <<>>)
    BY <1>2, SuffixEmpty
  <1>4. QED
    BY <1>1, <1>3 DEF LabelsFollow

(* Every step keeps the labels of the open describe forms on top of the    *)
(* label stack.                                                            *)
LEMMA LabelsStep == Typed /\ Typed' /\ AtRest /\ LabelsFollow /\ [Next]_vars => LabelsFollow'
  <1> SUFFICES ASSUME Typed, Typed', AtRest, LabelsFollow, [Next]_vars
               PROVE  LabelsFollow'
    OBVIOUS
  <1>0. /\ registry.describe \in Seq(Labels) /\ registry'.describe \in Seq(Labels)
        /\ scopes \in Seq(Scopes)
        /\ ScopeLabels \in Seq(Labels) /\ Len(ScopeLabels) = Len(scopes)
    BY HereType DEF Typed, Registries
  <1>1. ASSUME registry'.describe = registry.describe, scopes' = scopes,
               broken' # "eval" => broken # "eval"
        PROVE  LabelsFollow'
    BY <1>1 DEF LabelsFollow, ScopeLabels
  <1>2. ASSUME scopes' = <<>>, broken' # "eval" => registry'.describe = <<>>
        PROVE  LabelsFollow'
    <2>1. ScopeLabels' = <<>>
      BY <1>2 DEF ScopeLabels
    <2>2. IsSuffix(<<>>, registry'.describe)
      BY <1>0, SuffixEmpty
    <2>3. QED
      BY <1>2, <2>1, <2>2 DEF LabelsFollow
  <1>3. ASSUME NEW l \in Labels, Describe(l)
        PROVE  LabelsFollow'
    <2> DEFINE new == [label |-> l, at |-> Len(declared) + 1,
                       setup |-> Len(registry.setup), teardown |-> Len(registry.teardown)]
    <2>1. /\ registry'.describe = Append(registry.describe, l)
          /\ scopes' = Append(scopes, new) /\ broken' = broken
      BY <1>3 DEF Describe, Typed, Registries
    <2>2. scopes' \in Seq(Scopes)
      BY DEF Typed
    <2>3. ScopeLabels' = Append(ScopeLabels, l)
      <3> DEFINE n == Len(scopes)
                 more == Append(ScopeLabels, l)
      <3>1. new \in Scopes
        <4>1. /\ Len(declared) \in Nat /\ Len(registry.setup) \in Nat
              /\ Len(registry.teardown) \in Nat
          BY LenProperties DEF Typed, Registries
        <4>2. QED
          BY <4>1 DEF Scopes
      <3>2. new.label = l
        OBVIOUS
      <3> HIDE DEF new
      <3>3. /\ n \in Nat /\ DOMAIN scopes' = 1..(n + 1) /\ DOMAIN scopes = 1..n
            /\ \A k \in 1..n : scopes'[k] = scopes[k]
            /\ scopes'[n + 1] = new
        BY <1>0, <2>1, <3>1, AppendProperties, LenProperties
      <3>4. /\ DOMAIN more = 1..(n + 1)
            /\ \A k \in 1..n : more[k] = ScopeLabels[k]
            /\ more[n + 1] = l
            /\ more \in Seq(Labels)
        BY <1>0, AppendProperties, LenProperties
      <3> HIDE DEF n, more
      <3>5. \A k \in 1..n : ScopeLabels[k] = scopes[k].label
        BY <3>3 DEF ScopeLabels
      <3>6. \A k \in 1..(n + 1) : more[k] = scopes'[k].label
        BY <3>2, <3>3, <3>4, <3>5
      <3>7. ScopeLabels' = [k \in 1..(n + 1) |-> scopes'[k].label]
        BY <3>3 DEF ScopeLabels
      <3>8. more = [k \in 1..(n + 1) |-> more[k]]
        BY <3>4, LenProperties
      <3>9. ScopeLabels' = more
        BY <3>6, <3>7, <3>8
      <3>10. QED
        BY <3>9 DEF more
    <2>4. QED
      BY <1>0, <2>1, <2>3, SuffixAppend DEF LabelsFollow
  <1>4. CASE EndDescribe
    <2>1. /\ registry'.describe = Front(registry.describe)
          /\ scopes # <<>> /\ scopes' = Front(scopes) /\ broken' = broken
      BY <1>4 DEF EndDescribe, Typed, Registries
    <2>2. ScopeLabels' = Front(ScopeLabels)
      <3> DEFINE n == Len(scopes)
                 fewer == Front(ScopeLabels)
      <3>1. /\ n \in Nat \ {0} /\ DOMAIN scopes = 1..n /\ Len(Front(scopes)) = n - 1
            /\ Front(scopes) \in Seq(Scopes)
            /\ \A k \in 1..(n - 1) : Front(scopes)[k] = scopes[k]
        BY <1>0, <2>1, FrontType, LenProperties
      <3>2. DOMAIN scopes' = 1..(n - 1) /\ \A k \in 1..(n - 1) : scopes'[k] = scopes[k]
        BY <2>1, <3>1, LenProperties
      <3>3. ScopeLabels # <<>>
        BY <1>0, <3>1, EmptySeq
      <3>4. /\ fewer \in Seq(Labels) /\ Len(fewer) = n - 1
            /\ \A k \in 1..(n - 1) : fewer[k] = ScopeLabels[k]
        BY <1>0, <3>3, FrontType
      <3> HIDE DEF n, fewer
      <3>5. \A k \in 1..n : ScopeLabels[k] = scopes[k].label
        BY <3>1 DEF ScopeLabels
      <3>6. \A k \in 1..(n - 1) : k \in 1..n /\ fewer[k] = scopes'[k].label
        BY <3>1, <3>2, <3>4, <3>5
      <3>7. ScopeLabels' = [k \in 1..(n - 1) |-> scopes'[k].label]
        BY <3>2 DEF ScopeLabels
      <3>8. fewer = [k \in 1..(n - 1) |-> fewer[k]]
        BY <3>4, LenProperties
      <3>9. ScopeLabels' = fewer
        BY <3>6, <3>7, <3>8
      <3>10. QED
        BY <3>9 DEF fewer
    <2>3. ScopeLabels # <<>>
      <3>1. Len(scopes) # 0
        BY <1>0, <2>1, FrontType
      <3>2. QED
        BY <1>0, <3>1, EmptySeq
    <2>4. QED
      BY <1>0, <2>1, <2>2, <2>3, SuffixFront DEF LabelsFollow
  <1>5. CASE Setup \/ Teardown \/ SetupAll \/ TeardownAll
    <2>1. PICK kind \in HookKinds \cup AllKinds : RegisterHook(kind)
      BY <1>5 DEF Setup, Teardown, SetupAll, TeardownAll, HookKinds, AllKinds
    <2>2. registry'.describe = registry.describe /\ scopes' = scopes /\ broken' = broken
      BY <2>1 DEF RegisterHook, Typed, Registries, HookKinds, AllKinds
    <2>3. QED
      BY <1>1, <2>2
  <1>6. ASSUME NEW n \in Names, NEW m \in Metas, Deftest(n, m)
        PROVE  LabelsFollow'
    BY <1>1, <1>6 DEF Deftest, Typed, Registries
  <1>7. CASE TopLevelCheck
    <2>1. PICK o \in Outcomes : Perform(o)
      BY <1>7 DEF TopLevelCheck
    <2>2. registry'.describe = registry.describe
      BY <2>1 DEF Perform, After, Typed, Registries
    <2>3. QED
      BY <1>1, <1>7, <2>2 DEF TopLevelCheck
  <1>8. CASE EvalFails
    BY <1>2, <1>8 DEF EvalFails
  <1>9. CASE EndCommand \/ Kill
    BY <1>2, <1>9 DEF EndCommand, Kill, ProcessGone, EmptyRegistry
  <1>10. CASE StartCommand
    <2>1. scopes' = <<>> /\ registry'.describe = <<>>
      BY <1>10 DEF StartCommand, AtRest, EmptyRegistry, Typed
    <2>2. QED
      BY <1>2, <2>1
  <1>11. CASE BeginFile
    <2>1. /\ scopes' = <<>> /\ scopes = <<>> /\ broken' = broken
          /\ registry'.describe = registry.describe
      BY <1>11 DEF BeginFile, Prepared, registry_clear, EmptyRegistry, Typed
    <2>2. QED
      BY <1>1, <2>1
  <1>12. CASE EvalEnds \/ SetupAllDone \/ EndFile
    <2>1. registry'.describe = registry.describe /\ scopes' = scopes /\ broken' = broken
      BY <1>12 DEF EvalEnds, SetupAllDone, EndFile, Typed, Registries
    <2>2. QED
      BY <1>1, <2>1
  <1>13. CASE RunSetupAll \/ RunTest \/ RunTeardownAll
    <2>1. scopes' = scopes
      BY <1>13 DEF RunSetupAll, RunTest, RunTeardownAll
    <2>2. broken' # "eval" => broken # "eval"
      BY <1>13 DEF RunSetupAll, RunTest, RunTeardownAll
    <2>3. registry' = registry \/ \E o \in Outcomes : Perform(o)
      BY <1>13 DEF RunSetupAll, RunTest, RunTeardownAll
    <2>4. registry'.describe = registry.describe
      BY <2>3 DEF Perform, After, Typed, Registries
    <2>5. QED
      BY <1>1, <2>1, <2>2, <2>4
  <1>14. CASE UNCHANGED vars
    BY <1>1, <1>14 DEF vars
  <1>15. QED
    BY <1>3, <1>4, <1>5, <1>6, <1>7, <1>8, <1>9, <1>10, <1>11, <1>12, <1>13, <1>14 DEF Next

-----------------------------------------------------------------------------
(* What a test captures.                                                   *)

(* The hooks of a kind around a test and written before it.                *)
Around(decl, kind, t) ==
    {i \in DOMAIN decl : decl[i].kind = kind /\ IsPrefix(decl[i].path, t.path) /\ decl[i].at < t.at}

(* The hooks a test holds are those written around and before it, setups   *)
(* outermost first and teardowns innermost first; a skipped test has none. *)
CapturesHooks(decl, t) ==
    IF t.meta = "skip" THEN t.setups = <<>> /\ t.teardowns = <<>>
    ELSE /\ t.setups = Sublist(decl, Around(decl, "setup", t))
         /\ t.teardowns = Reverse(Sublist(decl, Around(decl, "teardown", t)))

(* Its full name is that of its describe forms, after the labels a broken  *)
(* evaluation left behind, if there was one.                               *)
CapturesName(t, worst) ==
    /\ IsSuffix(t.scope, t.labels)
    /\ worst # "eval" => t.labels = t.scope

(* Every declared test holds what it captured.                             *)
TestsCapture ==
    \A i \in Places(declared, "test") :
        CapturesHooks(declared, declared[i]) /\ CapturesName(declared[i], broken)

(* What is declared behind a test is not around it.                        *)
LEMMA AroundKept ==
    ASSUME NEW decl \in Seq(Items), WellPlaced(decl), NEW i \in DOMAIN decl,
           NEW d \in Items, d.at = Len(decl) + 1, NEW kind
    PROVE  Sublist(Append(decl, d), Around(Append(decl, d), kind, decl[i]))
              = Sublist(decl, Around(decl, kind, decl[i]))
  <1> DEFINE n == Len(decl)
             t == decl[i]
             more == Append(decl, d)
             K == Around(decl, kind, t)
  <1>1. /\ n \in Nat /\ DOMAIN decl = 1..n /\ DOMAIN more = 1..(n + 1)
        /\ \A j \in 1..n : more[j] = decl[j]
        /\ more[n + 1] = d
    BY LenProperties, AppendProperties
  <1>2. K \in SUBSET DOMAIN decl
    BY DEF Around
  <1>3. t.at = i /\ i \in 1..n
    BY <1>1 DEF WellPlaced
  <1>4. d.at = n + 1
    OBVIOUS
  <1> HIDE DEF n, more, t
  <1>5. ~(d.at < t.at)
    BY <1>1, <1>3, <1>4
  <1>6. Around(more, kind, t) = K
    BY <1>1, <1>5 DEF Around
  <1> HIDE DEF K
  <1>7. Sublist(more, K) = Sublist(decl, K)
    BY <1>2, SublistSkip DEF more
  <1>8. QED
    BY <1>6, <1>7 DEF K, more, t

(* What is around a new test is what is in force where it is written.      *)
LEMMA AroundNew ==
    ASSUME NEW decl \in Seq(Items), WellPlaced(decl),
           NEW d \in Items, d.at = Len(decl) + 1, NEW kind
    PROVE  Sublist(Append(decl, d), Around(Append(decl, d), kind, d))
              = InForce(decl, kind, d.path)
  <1> DEFINE n == Len(decl)
             more == Append(decl, d)
             K == PlacesInForce(decl, kind, d.path)
  <1>1. /\ n \in Nat /\ DOMAIN decl = 1..n /\ DOMAIN more = 1..(n + 1)
        /\ \A j \in 1..n : more[j] = decl[j]
        /\ more[n + 1] = d
    BY LenProperties, AppendProperties
  <1>2. K \in SUBSET DOMAIN decl
    BY DEF PlacesInForce
  <1>3. \A j \in 1..n : decl[j].at = j
    BY <1>1 DEF WellPlaced
  <1>4. d.at = n + 1
    OBVIOUS
  <1> HIDE DEF n, more
  <1>5. ~(d.at < d.at) /\ \A j \in 1..n : decl[j].at < d.at
    BY <1>1, <1>3, <1>4
  <1>6. Around(more, kind, d) = K
    BY <1>1, <1>5 DEF Around, PlacesInForce
  <1> HIDE DEF K
  <1>7. Sublist(more, K) = Sublist(decl, K)
    BY <1>2, SublistSkip DEF more
  <1>8. QED
    BY <1>6, <1>7 DEF K, more, InForce

(* What a step does to what is declared: at most one item is put behind it. *)
Declares(d) ==
    /\ declared' = Append(declared, d)
    /\ d.at = Len(declared) + 1
    /\ \/ d.kind \in Marks
       \/ \E n \in Names, m \in Metas : d = WrittenTest(n, m)

(* A step declares at most one item, unless it starts another file.        *)
Declared ==
    \/ declared' = <<>>
    \/ declared' = declared /\ (broken' # "eval" => broken # "eval")
    \/ phase = "eval" /\ broken' = broken /\ \E d \in Items : Declares(d)

(* Every step of the runner is of this shape.                              *)
LEMMA DeclaredStep ==
    ASSUME Typed, AtRest, [Next]_vars
    PROVE  Declared
  <1>1. ASSUME NEW l \in Labels, Describe(l)
        PROVE  Declared
    <2>1. phase = "eval" /\ broken' = broken /\ declared' = Append(declared, Written("describe"))
      BY <1>1 DEF Describe, Declare, Evaluating
    <2>2. Written("describe") \in Items
      BY <2>1, WrittenType DEF Items, Marks
    <2>3. Written("describe").at = Len(declared) + 1 /\ Written("describe").kind \in Marks
      BY DEF Written, Marks
    <2>4. QED
      BY <2>1, <2>2, <2>3 DEF Declared, Declares
  <1>2. ASSUME NEW kind \in HookKinds \cup AllKinds, RegisterHook(kind)
        PROVE  Declared
    <2>1. phase = "eval" /\ broken' = broken /\ declared' = Append(declared, Written(kind))
      BY <1>2 DEF RegisterHook, Declare, Evaluating
    <2>2. Written(kind) \in Items
      BY <2>1, WrittenType DEF Items, Marks, HookKinds, AllKinds
    <2>3. Written(kind).at = Len(declared) + 1 /\ Written(kind).kind \in Marks
      BY DEF Written, Marks, HookKinds, AllKinds
    <2>4. QED
      BY <2>1, <2>2, <2>3 DEF Declared, Declares
  <1>3. ASSUME NEW n \in Names, NEW m \in Metas, Deftest(n, m)
        PROVE  Declared
    <2>1. phase = "eval" /\ broken' = broken /\ declared' = Append(declared, WrittenTest(n, m))
      BY <1>3 DEF Deftest, Declare, Evaluating
    <2>2. WrittenTest(n, m) \in Items
      BY <2>1, WrittenTestType DEF Items
    <2>3. WrittenTest(n, m).at = Len(declared) + 1
      BY DEF WrittenTest
    <2>4. QED
      BY <2>1, <2>2, <2>3 DEF Declared, Declares
  <1>4. CASE Setup \/ Teardown \/ SetupAll \/ TeardownAll
    BY <1>2, <1>4 DEF Setup, Teardown, SetupAll, TeardownAll, HookKinds, AllKinds
  <1>5. CASE EndDescribe \/ TopLevelCheck \/ EvalEnds \/ SetupAllDone
    BY <1>5 DEF Declared, EndDescribe, TopLevelCheck, EvalEnds, SetupAllDone
  <1>6. CASE StartCommand
    BY <1>6 DEF Declared, StartCommand, AtRest
  <1>7. CASE BeginFile \/ EvalFails \/ EndFile \/ EndCommand \/ Kill
    BY <1>7 DEF Declared, BeginFile, EvalFails, EndFile, EndCommand, Kill, ProcessGone
  <1>8. CASE RunSetupAll \/ RunTest \/ RunTeardownAll
    BY <1>8 DEF Declared, RunSetupAll, RunTest, RunTeardownAll
  <1>9. CASE UNCHANGED vars
    BY <1>9 DEF Declared, vars
  <1>10. QED
    BY <1>1, <1>3, <1>4, <1>5, <1>6, <1>7, <1>8, <1>9 DEF Next

(* A test captures what is in force when it is written, and nothing later  *)
(* changes what that is.                                                   *)
LEMMA CaptureInit == Init => TestsCapture
  BY DEF Init, TestsCapture, Places

(* Tests keep what they captured, whatever is declared later.              *)
LEMMA CaptureStep ==
    ASSUME Typed, AtRest, EvalInv, LabelsFollow, TestsCapture, [Next]_vars
    PROVE  TestsCapture'
  <1>1. CASE declared' = <<>>
    BY <1>1 DEF TestsCapture, Places
  <1>2. CASE declared' = declared /\ (broken' # "eval" => broken # "eval")
    BY <1>2 DEF TestsCapture, Places, CapturesName, CapturesHooks
  <1>3. ASSUME phase = "eval", broken' = broken, NEW d \in Items,
               declared' = Append(declared, d), d.at = Len(declared) + 1,
               \/ d.kind \in Marks
               \/ \E n \in Names, m \in Metas : d = WrittenTest(n, m)
        PROVE  TestsCapture'
    <2> DEFINE n == Len(declared)
               more == Append(declared, d)
    <2>1. /\ n \in Nat /\ DOMAIN declared = 1..n /\ DOMAIN more = 1..(n + 1)
          /\ \A i \in 1..n : more[i] = declared[i]
          /\ more[n + 1] = d
      BY LenProperties, AppendProperties DEF Typed
    <2>2. WellPlaced(declared)
      BY DEF EvalInv, Ordered
    <2>3. ASSUME NEW i \in 1..n, declared[i].kind = "test"
          PROVE  CapturesHooks(more, more[i]) /\ CapturesName(more[i], broken')
      <3>1. CapturesHooks(declared, declared[i]) /\ CapturesName(declared[i], broken)
        BY <2>1, <2>3 DEF TestsCapture, Places
      <3>2. more[i] = declared[i]
        BY <2>1
      <3>3. \A kind : Sublist(more, Around(more, kind, declared[i]))
                        = Sublist(declared, Around(declared, kind, declared[i]))
        BY <1>3, <2>1, <2>2, AroundKept DEF Typed
      <3> HIDE DEF more
      <3>4. CapturesHooks(more, declared[i])
        BY <3>1, <3>3 DEF CapturesHooks
      <3>5. QED
        BY <1>3, <3>1, <3>2, <3>4 DEF CapturesName
    <2>4. ASSUME d.kind = "test"
          PROVE  CapturesHooks(more, d) /\ CapturesName(d, broken')
      <3>1. PICK name \in Names, meta \in Metas : d = WrittenTest(name, meta)
        BY <1>3, <2>4 DEF Marks
      <3>2. /\ d.path = Here /\ d.scope = ScopeLabels /\ d.labels = registry.describe
            /\ d.meta = meta
            /\ d.setups = (IF meta = "skip" THEN <<>> ELSE registry.setup)
            /\ d.teardowns = (IF meta = "skip" THEN <<>> ELSE Reverse(registry.teardown))
        BY <3>1 DEF WrittenTest, Prefixed
      <3>3. /\ Sublist(more, Around(more, "setup", d)) = registry.setup
            /\ Sublist(more, Around(more, "teardown", d)) = registry.teardown
        <4>1. \A kind : Sublist(more, Around(more, kind, d)) = InForce(declared, kind, d.path)
          BY <1>3, <2>2, AroundNew DEF Typed
        <4>2. QED
          BY <1>3, <3>2, <4>1 DEF EvalInv, RegistryFollows, HookKinds
      <3> HIDE DEF more
      <3>4. CapturesHooks(more, d)
        BY <3>2, <3>3 DEF CapturesHooks
      <3>5. IsSuffix(d.scope, d.labels) /\ (broken' # "eval" => d.labels = d.scope)
        BY <1>3, <3>2 DEF LabelsFollow
      <3>6. QED
        BY <3>4, <3>5 DEF CapturesName
    <2>5. QED
      <3> SUFFICES ASSUME NEW i \in Places(more, "test")
                   PROVE  CapturesHooks(more, more[i]) /\ CapturesName(more[i], broken')
        BY <1>3 DEF TestsCapture
      <3>1. i \in 1..(n + 1) /\ more[i].kind = "test"
        BY <2>1 DEF Places
      <3> HIDE DEF n, more
      <3>2. CASE i \in 1..n
        BY <2>1, <2>3, <3>1, <3>2
      <3>3. CASE i = n + 1
        BY <2>1, <2>4, <3>1, <3>3
      <3>4. QED
        BY <2>1, <3>1, <3>2, <3>3
  <1>4. QED
    BY <1>1, <1>2, <1>3, DeclaredStep DEF Declared, Declares

(* What the tests capture is what the describe forms around them say.      *)
LEMMA CaptureFollows ==
    ASSUME Typed, TestsCapture
    PROVE  TestsFollowScopes
  <1>1. ASSUME NEW t \in ToSet(DeclaredOf("test"))
        PROVE  CapturesHooks(declared, t) /\ CapturesName(t, broken)
    <2>1. DeclaredOf("test") = OfKind(declared, "test")
      BY DEF DeclaredOf, Filter, OfKind, Places
    <2>2. PICK i \in Places(declared, "test") : t = declared[i]
      BY <1>1, <2>1, OfKindElements DEF Typed
    <2>3. QED
      BY <2>2 DEF TestsCapture
  <1>2. HooksFollowScopes
    BY <1>1 DEF HooksFollowScopes, CapturesHooks, Filter, Around
  <1>3. NamesTellScope
    BY <1>1 DEF NamesTellScope, CapturesName
  <1>4. QED
    BY <1>2, <1>3 DEF TestsFollowScopes

(***************************************************************************)
(* A test runs with the setup and teardown hooks of the describe forms     *)
(* around it that are written before it, outermost setup first and         *)
(* innermost teardown first, and with no others; its full name is the      *)
(* labels of those forms, unless a file broke off in its evaluation before.*)
(***************************************************************************)
THEOREM TestsKeepScopes == Spec => []TestsFollowScopes
  <1> DEFINE Inv == LabelsFollow /\ TestsCapture
  <1>1. Init => Inv
    BY LabelsInit, CaptureInit
  <1>2. RunnerInv /\ RunnerInv' /\ Inv /\ [Next]_vars => Inv'
    BY LabelsStep, CaptureStep DEF RunnerInv
  <1>3. RunnerInv /\ Inv => TestsFollowScopes
    BY CaptureFollows DEF RunnerInv
  <1> HIDE DEF Inv
  <1>4. QED
    BY <1>1, <1>2, <1>3, RunnerAlways, PTL DEF Spec

-----------------------------------------------------------------------------
(* What is run for a file.                                                 *)

(* The hooks for all tests of a describe form run around all tests of the  *)
(* file, which is more than the property says.                             *)
HooksAroundAllTests ==
    LET At(kind) == {i \in DOMAIN trace : trace[i].what.kind = kind} IN
    /\ \A i \in At("test"), h \in ToSet(DeclaredOf("setupAll")) :
          \E j \in At("setupAll") : j < i /\ trace[j] = Traced(h, TRUE)
    /\ \A i \in At("teardownAll") : \A j \in DOMAIN trace \ At("teardownAll") : j < i
    /\ \A i, j \in At("teardownAll") : trace[i].what = trace[j].what => i = j

RunsAlone == OnlyThisFile /\ HooksAroundAllTests

(* What is run, and what is to run, belongs to the file.                   *)
Alone == DueAreDeclared /\ RunsAlone

(* What is executed for a test: itself and the hooks it has captured.      *)
Executed(t) == {t} \cup ToSet(t.setups) \cup ToSet(t.teardowns)

(* What a test's thunk runs is the test and its own hooks.                 *)
LEMMA ThunkExecutes ==
    ASSUME NEW t \in Tests, NEW i \in 1..Len(Thunk(t))
    PROVE  /\ Thunk(t)[i] \in Executed(t)
           /\ Thunk(t)[i].kind \in {"test", "setup", "teardown"}
  <1>1. /\ t.setups \in Seq(Items) /\ t.teardowns \in Seq(Items)
        /\ <<t>> \in Seq(Items) /\ t.setups \o <<t>> \in Seq(Items)
    <2>1. t.setups \in Seq(Items) /\ t.teardowns \in Seq(Items)
      BY SeqMonotonic DEF Tests, Items, Marks
    <2>2. <<t>> \in Seq(Items)
      BY DEF Items
    <2>3. QED
      BY <2>1, <2>2, ConcatProperties
  <1>2. ToSet(Thunk(t)) = (ToSet(t.setups) \cup ToSet(<<t>>)) \cup ToSet(t.teardowns)
    <2> DEFINE own == <<t>>
               most == t.setups \o own
    <2>1. own \in Seq(Items) /\ most \in Seq(Items) /\ Thunk(t) = most \o t.teardowns
      BY <1>1 DEF Thunk
    <2> HIDE DEF own
    <2>2. ToSet(most) = ToSet(t.setups) \cup ToSet(own)
      BY <1>1, <2>1, ToSetConcat
    <2> HIDE DEF most
    <2>3. ToSet(most \o t.teardowns) = ToSet(most) \cup ToSet(t.teardowns)
      BY <1>1, <2>1, ToSetConcat
    <2>4. QED
      BY <2>1, <2>2, <2>3 DEF own
  <1>3. ToSet(<<t>>) = {t}
    <2>1. DOMAIN <<t>> = {1} /\ <<t>>[1] = t
      OBVIOUS
    <2>2. QED
      BY <2>1 DEF ToSet
  <1>4. Thunk(t)[i] \in ToSet(Thunk(t))
    BY ThunkType, SetOf, LenProperties
  <1>5. Thunk(t)[i] \in Executed(t)
    BY <1>2, <1>3, <1>4 DEF Executed
  <1>6. \A x \in ToSet(t.setups) \cup ToSet(t.teardowns) : x.kind \in {"setup", "teardown"}
    <2>1. t.setups \in Seq(HooksOf("setup")) /\ t.teardowns \in Seq(HooksOf("teardown"))
      BY DEF Tests
    <2>2. ToSet(t.setups) \subseteq HooksOf("setup") /\ ToSet(t.teardowns) \subseteq HooksOf("teardown")
      BY <2>1, SetOf
    <2>3. QED
      BY <2>2 DEF HooksOf
  <1>7. t.kind = "test"
    BY DEF Tests
  <1>8. QED
    BY <1>5, <1>6, <1>7 DEF Executed

(* A sequence from behind has the same elements.                           *)
LEMMA ReverseElements ==
    ASSUME NEW S, NEW s \in Seq(S)
    PROVE  ToSet(Reverse(s)) \subseteq ToSet(s)
  <1> DEFINE n == Len(s)
  <1>1. n \in Nat /\ DOMAIN s = 1..n /\ DOMAIN Reverse(s) = 1..n
    BY LenProperties DEF Reverse
  <1>2. \A i \in 1..n : Reverse(s)[i] = s[(n - i) + 1]
    BY DEF Reverse
  <1> HIDE DEF n
  <1>3. \A i \in 1..n : (n - i) + 1 \in 1..n
    BY <1>1
  <1>4. QED
    BY <1>1, <1>2, <1>3 DEF ToSet

(* What a declared test executes is declared.                              *)
LEMMA ExecutedDeclared ==
    ASSUME Typed, TestsCapture, NEW t \in ToSet(declared), t.kind = "test"
    PROVE  Executed(t) \subseteq ToSet(declared)
  <1>1. CapturesHooks(declared, t)
    <2>1. PICK i \in DOMAIN declared : t = declared[i]
      BY SetOf DEF Typed
    <2>2. QED
      BY <2>1 DEF TestsCapture, Places
  <1>2. \A kind : /\ Sublist(declared, Around(declared, kind, t)) \in Seq(Items)
                  /\ ToSet(Sublist(declared, Around(declared, kind, t))) \subseteq ToSet(declared)
    <2> TAKE kind
    <2> DEFINE K == Around(declared, kind, t)
    <2>1. K \in SUBSET DOMAIN declared
      BY DEF Around
    <2> HIDE DEF K
    <2>2. /\ Sublist(declared, K) \in Seq(Items)
          /\ {Sublist(declared, K)[k] : k \in DOMAIN Sublist(declared, K)} = {declared[i] : i \in K}
      BY <2>1, SublistType DEF Typed
    <2>3. QED
      BY <2>1, <2>2 DEF ToSet, K
  <1>3. ToSet(<<>>) = {}
    BY DEF ToSet
  <1>4. \A kind : ToSet(Reverse(Sublist(declared, Around(declared, kind, t)))) \subseteq ToSet(declared)
    BY <1>2, ReverseElements
  <1>5. QED
    BY <1>1, <1>2, <1>3, <1>4 DEF CapturesHooks, Executed

(* A sequence that is not empty holds its head and the elements of its tail. *)
LEMMA HeadRest ==
    ASSUME NEW S, NEW s \in Seq(S), s # <<>>
    PROVE  /\ ToSet(s) = {Head(s)} \cup ToSet(Tail(s))
           /\ DOMAIN Tail(s) = {i \in Nat : i + 1 \in DOMAIN s /\ i # 0}
           /\ \A i \in DOMAIN Tail(s) : Tail(s)[i] = s[i + 1]
  <1> DEFINE n == Len(s)
             t == Tail(s)
  <1>1. /\ n \in Nat /\ n # 0 /\ DOMAIN s = 1..n
        /\ t \in Seq(S) /\ Len(t) = n - 1 /\ Head(s) = s[1]
        /\ \A i \in 1..(n - 1) : t[i] = s[i + 1]
    BY HeadTailProperties, LenProperties, EmptySeq
  <1>2. DOMAIN t = 1..(n - 1)
    BY <1>1, LenProperties
  <1> HIDE DEF n, t
  <1>3. \A i \in 1..n : i = 1 \/ (i - 1 \in 1..(n - 1) /\ (i - 1) + 1 = i)
    BY <1>1
  <1>4. \A i \in 1..(n - 1) : i + 1 \in 1..n
    BY <1>1
  <1>5. ToSet(s) = {Head(s)} \cup ToSet(t)
    <2>1. ASSUME NEW i \in 1..n
          PROVE  s[i] \in {Head(s)} \cup ToSet(t)
      <3>1. CASE i = 1
        BY <1>1, <3>1
      <3>2. CASE i # 1
        <4>1. i - 1 \in 1..(n - 1) /\ t[i - 1] = s[i]
          BY <1>1, <1>3, <3>2
        <4>2. QED
          BY <1>2, <4>1 DEF ToSet
      <3>3. QED
        BY <3>1, <3>2
    <2>2. 1 \in 1..n
      BY <1>1
    <2>3. ToSet(s) \subseteq {Head(s)} \cup ToSet(t)
      BY <1>1, <2>1 DEF ToSet
    <2>4. ToSet(t) \subseteq ToSet(s)
      <3>1. ASSUME NEW i \in DOMAIN t
            PROVE  t[i] \in ToSet(s)
        <4>1. t[i] = s[i + 1] /\ i + 1 \in DOMAIN s
          BY <1>1, <1>2, <1>4
        <4>2. QED
          BY <4>1 DEF ToSet
      <3>2. QED
        BY <3>1 DEF ToSet
    <2>5. Head(s) \in ToSet(s)
      BY <1>1, <2>2 DEF ToSet
    <2>6. QED
      BY <2>3, <2>4, <2>5
  <1>6. 1..(n - 1) = {i \in Nat : i + 1 \in 1..n /\ i # 0}
    BY <1>1
  <1>7. QED
    BY <1>1, <1>2, <1>5, <1>6 DEF t

(* The trace grows behind.                                                 *)
TraceGrows(new) ==
    /\ Len(trace) <= Len(trace')
    /\ \A i \in 1..Len(trace) : trace'[i] = trace[i]
    /\ \A i \in (Len(trace) + 1)..Len(trace') : trace'[i].what \in new

(* What a step that runs a test does.                                      *)
LEMMA RunTestShape ==
    ASSUME Typed, RunTest
    PROVE  /\ TraceGrows({x \in Executed(Head(run.tests)) : x.kind \in {"test", "setup", "teardown"}})
           /\ run'.tests \in {run.tests, Tail(run.tests)}
           /\ run'.teardownAll = run.teardownAll
  <1> DEFINE t == Head(run.tests)
             new == {x \in Executed(t) : x.kind \in {"test", "setup", "teardown"}}
             n == Len(trace)
  <1>1. run.tests # <<>> /\ t \in Tests /\ n \in Nat /\ trace \in Seq([what : Items, ok : BOOLEAN])
    BY HeadIn, LenProperties DEF RunTest, Typed, Runs
  <1>2. CASE run' = Counted(t, "skipped") /\ trace' = Append(trace, Traced(t, TRUE))
    <2>1. t \in new
      BY <1>1 DEF Executed, Tests
    <2> DEFINE e == Traced(t, TRUE)
    <2>2. e \in [what : Items, ok : BOOLEAN] /\ e.what = t /\ trace' = Append(trace, e)
      BY <1>1, <1>2 DEF Traced, Items
    <2> HIDE DEF e
    <2>3. /\ Len(trace') = n + 1 /\ trace'[n + 1].what = t
          /\ \A i \in 1..n : trace'[i] = trace[i]
      BY <1>1, <2>2, AppendProperties, LenProperties
    <2> HIDE DEF new, n
    <2>4. \A i \in (n + 1)..(n + 1) : i = n + 1
      BY <1>1
    <2>5. TraceGrows(new)
      BY <1>1, <2>1, <2>3, <2>4 DEF TraceGrows, n
    <2>6. run'.tests = Tail(run.tests) /\ run'.teardownAll = run.teardownAll
      BY <1>1, <1>2, CountedType DEF Typed, Runs
    <2>7. QED
      BY <2>5, <2>6 DEF new
  <1>3. ASSUME NEW last \in 0..Len(Thunk(t)), NEW ok \in [1..last -> BOOLEAN],
               trace' = trace \o [i \in 1..last |-> Traced(Thunk(t)[i], ok[i])]
        PROVE  TraceGrows(new)
    <2> DEFINE more == [i \in 1..last |-> Traced(Thunk(t)[i], ok[i])]
    <2>1. more \in Seq([what : Items, ok : BOOLEAN])
      BY <1>1, TracedThunk
    <2>2. last \in Nat /\ \A i \in 1..last : i \in 1..Len(Thunk(t))
      BY <1>1, ThunkType, LenProperties
    <2>3. \A i \in 1..last : more[i].what \in new
      BY <1>1, <2>2, ThunkExecutes DEF Traced
    <2>4. Len(more) = last
      BY <2>2
    <2> HIDE DEF more, new, n
    <2>5. /\ Len(trace \o more) = n + last
          /\ \A i \in 1..(n + last) : (trace \o more)[i] = IF i <= n THEN trace[i] ELSE more[i - n]
      BY <1>1, <2>1, <2>4, ConcatProperties DEF n
    <2>6. trace' = trace \o more
      BY <1>3 DEF more
    <2>7. \A i \in 1..n : i \in 1..(n + last) /\ i <= n
      BY <1>1, <2>2
    <2>8. \A i \in (n + 1)..(n + last) : i \in 1..(n + last) /\ ~(i <= n) /\ i - n \in 1..last
      BY <1>1, <2>2
    <2>9. n <= n + last
      BY <1>1, <2>2
    <2>10. QED
      BY <2>3, <2>5, <2>6, <2>7, <2>8, <2>9 DEF TraceGrows, n
  <1>4. CASE /\ run' = Counted(t, "passed")
             /\ trace' = trace \o [i \in 1..Len(Thunk(t)) |-> Traced(Thunk(t)[i], TRUE)]
    <2> DEFINE last == Len(Thunk(t))
               ok == [i \in 1..last |-> TRUE]
    <2>1. last \in 0..Len(Thunk(t)) /\ ok \in [1..last -> BOOLEAN] /\ \A i \in 1..last : ok[i] = TRUE
      BY <1>1, ThunkType, LenProperties
    <2>2. trace' = trace \o [i \in 1..last |-> Traced(Thunk(t)[i], ok[i])]
      BY <1>4
    <2> HIDE DEF last, ok, new, n, t
    <2>3. TraceGrows(new)
      BY <1>3, <2>1, <2>2
    <2>4. run'.tests = Tail(run.tests) /\ run'.teardownAll = run.teardownAll
      BY <1>1, <1>4, CountedType DEF Typed, Runs, t
    <2>5. QED
      BY <2>3, <2>4 DEF new, t
  <1>5. ASSUME NEW last \in 1..Len(Thunk(t)),
               trace' = trace \o [i \in 1..last |-> Traced(Thunk(t)[i], i < last)],
               \/ run' = [run EXCEPT !.tries = @ + 1]
               \/ run' = Counted(t, "failed")
        PROVE  /\ TraceGrows(new)
               /\ run'.tests \in {run.tests, Tail(run.tests)}
               /\ run'.teardownAll = run.teardownAll
    <2> DEFINE ok == [i \in 1..last |-> i < last]
    <2>1. /\ last \in 0..Len(Thunk(t)) /\ ok \in [1..last -> BOOLEAN]
      BY <1>1, ThunkType, LenProperties
    <2>2. trace' = trace \o [i \in 1..last |-> Traced(Thunk(t)[i], ok[i])]
      <3>1. [i \in 1..last |-> Traced(Thunk(t)[i], i < last)]
               = [i \in 1..last |-> Traced(Thunk(t)[i], ok[i])]
        OBVIOUS
      <3>2. QED
        BY <1>5, <3>1
    <2> HIDE DEF ok, new, n, t
    <2>3. TraceGrows(new)
      BY <1>3, <2>1, <2>2
    <2>4. run'.tests \in {run.tests, Tail(run.tests)} /\ run'.teardownAll = run.teardownAll
      <3>1. CASE run' = [run EXCEPT !.tries = @ + 1]
        BY <3>1 DEF Typed, Runs
      <3>2. CASE run' = Counted(t, "failed")
        BY <1>1, <3>2, CountedType DEF Typed, Runs, t
      <3>3. QED
        BY <1>5, <3>1, <3>2
    <2>5. QED
      BY <2>3, <2>4
  <1> HIDE DEF new, n
  <1>6. QED
    <2>1. \/ run' = Counted(t, "skipped") /\ trace' = Append(trace, Traced(t, TRUE))
          \/ /\ run' = Counted(t, "passed")
             /\ trace' = trace \o [i \in 1..Len(Thunk(t)) |-> Traced(Thunk(t)[i], TRUE)]
          \/ \E last \in 1..Len(Thunk(t)) :
                /\ trace' = trace \o [i \in 1..last |-> Traced(Thunk(t)[i], i < last)]
                /\ \/ run' = [run EXCEPT !.tries = @ + 1]
                   \/ run' = Counted(t, "failed")
      BY DEF RunTest
    <2>2. QED
      BY <1>2, <1>4, <1>5, <2>1 DEF new

(* The two halves of the order of hooks around tests: every setup of the   *)
(* file has run before any test, and teardowns come once, after all else.  *)
SetupsFirst ==
    \A i \in TracedAt("test"), h \in ToSet(DeclaredOf("setupAll")) :
        \E j \in TracedAt("setupAll") : j < i /\ trace[j] = Traced(h, TRUE)
TeardownsLast ==
    /\ \A i \in TracedAt("teardownAll") : \A j \in DOMAIN trace \ TracedAt("teardownAll") : j < i
    /\ \A i, j \in TracedAt("teardownAll") : trace[i].what = trace[j].what => i = j

(* The property is the conjunction of its parts.                           *)
LEMMA AloneParts == RunsAlone <=> OnlyThisFile /\ SetupsFirst /\ TeardownsLast
  BY DEF RunsAlone, HooksAroundAllTests, SetupsFirst, TeardownsLast, TracedAt

(* What the property says is a matter of what is declared and traced.      *)
LEMMA SameRun ==
    ASSUME RunsAlone, trace' = trace, declared' = declared
    PROVE  RunsAlone'
  <1>1. DeclaredOf("setupAll")' = DeclaredOf("setupAll")
    BY DEF DeclaredOf, Filter
  <1>2. OnlyThisFile'
    BY DEF RunsAlone, OnlyThisFile
  <1>3. HooksAroundAllTests'
    BY <1>1 DEF RunsAlone, HooksAroundAllTests, Traced
  <1>4. QED
    BY <1>2, <1>3 DEF RunsAlone

(* While tests run, the setup-all hooks are done.                          *)
Testing == phase = "tests"

(* Once tests run, the setups of the file have run.                        *)
LEMMA SetupsDone == Typed /\ DueAreDeclared /\ Testing => SetupsFirst
  <1> SUFFICES ASSUME Typed, DueAreDeclared, phase = "tests",
                      NEW i \in TracedAt("test"), NEW h \in ToSet(DeclaredOf("setupAll"))
               PROVE  \E j \in TracedAt("setupAll") : j < i /\ trace[j] = Traced(h, TRUE)
    BY DEF SetupsFirst, Testing
  <1>1. PICK p \in Places(declared, "setupAll") : h = declared[p]
    <2>1. DeclaredOf("setupAll") = OfKind(declared, "setupAll")
      BY DEF DeclaredOf, Filter, OfKind, Places
    <2>2. QED
      BY <2>1, OfKindElements DEF Typed
  <1>2. PICK j \in DOMAIN trace : trace[j] = Traced(declared[p], TRUE) /\ j < i
    BY <1>1 DEF DueAreDeclared
  <1>3. trace[j].what.kind = "setupAll"
    BY <1>1, <1>2 DEF Traced, Places
  <1>4. QED
    BY <1>1, <1>2, <1>3 DEF TracedAt

(* Before any test, and when nothing has run, there is nothing to order.   *)
NothingBut == TracedAt("test") = {} /\ TracedAt("teardownAll") = {}
Untraced == trace = <<>>

(* Where neither a test nor a teardown has run, no order is broken.        *)
LEMMA OnlySetups == NothingBut => SetupsFirst /\ TeardownsLast
  BY DEF NothingBut, SetupsFirst, TeardownsLast

(* Nothing that has run belongs to another file when nothing has.          *)
LEMMA NothingRun == Untraced => RunsAlone
  <1> SUFFICES ASSUME Untraced
               PROVE  RunsAlone
    OBVIOUS
  <1>1. DOMAIN trace = {}
    BY DEF Untraced
  <1>2. QED
    BY <1>1, AloneParts, OnlySetups DEF OnlyThisFile, TracedAt, NothingBut

(* The registries are drained.                                             *)
LEMMA AloneEvalEnds ==
    ASSUME Typed, AtRest, EvalInv, EvalEnds
    PROVE  Alone'
  <1>1. /\ phase = "eval" /\ phase' = "setup-all" /\ trace' = <<>> /\ declared' = declared
        /\ run'.setupAll = registry.setupAll
        /\ run'.tests = Filter(registry.tests,
                          LAMBDA t : Selected(t, registry.focus, registry.tags))
        /\ registry'.teardownAll = registry.teardownAll
    BY DEF EvalEnds, AtRest, NoRun, Typed, Registries
  <1>2. /\ registry.setupAll = OfKind(declared, "setupAll")
        /\ registry.teardownAll = OfKind(declared, "teardownAll")
        /\ registry.tests = OfKind(declared, "test")
    BY <1>1 DEF EvalInv, RegistryFollows, AllKinds
  <1>3. ToSet(run'.tests) \subseteq ToSet(declared)
    <2> DEFINE s == registry.tests
               K == {i \in DOMAIN s : Selected(s[i], registry.focus, registry.tags)}
    <2>1. run'.tests = Sublist(s, K)
      BY <1>1 DEF Filter
    <2>2. s \in Seq(Tests) /\ K \in SUBSET DOMAIN s
      BY DEF Typed, Registries
    <2> HIDE DEF K
    <2>3. {Sublist(s, K)[k] : k \in DOMAIN Sublist(s, K)} = {s[i] : i \in K}
      BY <2>2, SublistType
    <2>4. ToSet(Sublist(s, K)) \subseteq ToSet(s)
      BY <2>2, <2>3 DEF ToSet
    <2>5. ToSet(s) \subseteq ToSet(declared)
      BY <1>2, OfKindElements DEF Typed
    <2>6. QED
      BY <2>1, <2>4, <2>5
  <1>4. /\ ToSet(run'.setupAll) \subseteq ToSet(declared)
        /\ \A i \in Places(declared, "setupAll") : declared[i] \in ToSet(run'.setupAll)
    BY <1>1, <1>2, OfKindElements DEF Typed
  <1>5. DOMAIN trace' = {}
    BY <1>1
  <1>6. DueAreDeclared'
    BY <1>1, <1>2, <1>3, <1>4, <1>5 DEF DueAreDeclared
  <1>7. Untraced' => RunsAlone'
    BY NothingRun, PTL
  <1>8. QED
    BY <1>1, <1>6, <1>7 DEF Alone, Untraced

(* One more hook is traced.                                                *)
LEMMA TraceHook ==
    ASSUME Typed, NEW x \in Items, NEW ok \in BOOLEAN,
           trace' = Append(trace, Traced(x, ok))
    PROVE  /\ Len(trace) \in Nat /\ DOMAIN trace = 1..Len(trace)
           /\ DOMAIN trace' = 1..(Len(trace) + 1)
           /\ \A i \in DOMAIN trace : trace'[i] = trace[i] /\ i < Len(trace) + 1
           /\ trace'[Len(trace) + 1] = Traced(x, ok)
           /\ \A kind : TracedAt(kind)' = IF x.kind = kind THEN TracedAt(kind) \cup {Len(trace) + 1}
                                          ELSE TracedAt(kind)
  <1> DEFINE e == Traced(x, ok)
             n == Len(trace)
  <1>1. e \in [what : Items, ok : BOOLEAN] /\ e.what = x
    BY DEF Traced
  <1>2. trace' = Append(trace, e)
    OBVIOUS
  <1> HIDE DEF e
  <1>3. /\ n \in Nat /\ DOMAIN trace = 1..n
        /\ DOMAIN trace' = 1..(n + 1)
        /\ \A i \in 1..n : trace'[i] = trace[i]
        /\ trace'[n + 1] = e
    BY <1>1, <1>2, AppendProperties, LenProperties DEF Typed
  <1> HIDE DEF n
  <1>4. \A i \in 1..n : i < n + 1
    BY <1>3
  <1>5. \A i \in 1..(n + 1) : i \in 1..n \/ i = n + 1
    BY <1>3
  <1>6. n + 1 \in 1..(n + 1) /\ 1..n \subseteq 1..(n + 1)
    BY <1>3
  <1>7. \A kind : TracedAt(kind)' = IF x.kind = kind THEN TracedAt(kind) \cup {n + 1} ELSE TracedAt(kind)
    BY <1>1, <1>3, <1>5, <1>6 DEF TracedAt
  <1>8. QED
    BY <1>3, <1>4, <1>7 DEF n, e

(* A setup-all hook runs.                                                  *)
LEMMA AloneSetupAll ==
    ASSUME Typed, Alone, RunSetupAll
    PROVE  Alone'
  <1> DEFINE h == Head(run.setupAll)
             n == Len(trace)
  <1>1. PICK o \in Outcomes :
          /\ trace' = Append(trace, Traced(h, o.ok))
          /\ IF o.ok THEN phase' = phase ELSE phase' = "next"
          /\ Perform(o)
    BY DEF RunSetupAll, NextFile
  <1>2. /\ phase = "setup-all" /\ declared' = declared
        /\ run.setupAll \in Seq(HooksOf("setupAll")) /\ run.setupAll # <<>>
        /\ run'.setupAll = Tail(run.setupAll) /\ run'.tests = run.tests
        /\ o.ok \in BOOLEAN
    BY DEF RunSetupAll, Typed, Runs, Outcomes
  <1>3. h \in HooksOf("setupAll") /\ h \in ToSet(run.setupAll) /\ h.kind = "setupAll" /\ h \in Items
    <2>1. h \in HooksOf("setupAll") /\ h \in ToSet(run.setupAll)
      BY <1>2, HeadIn
    <2> HIDE DEF h
    <2>2. QED
      BY <2>1 DEF HooksOf, Items, Marks
  <1>4. ToSet(run.setupAll) = {h} \cup ToSet(run'.setupAll)
    BY <1>2, HeadRest
  <1> HIDE DEF h, n
  <1>5. /\ n \in Nat /\ DOMAIN trace = 1..n
        /\ DOMAIN trace' = 1..(n + 1)
        /\ \A i \in DOMAIN trace : trace'[i] = trace[i] /\ i < n + 1
        /\ trace'[n + 1] = Traced(h, o.ok)
        /\ \A kind : TracedAt(kind)' = IF h.kind = kind THEN TracedAt(kind) \cup {n + 1}
                                       ELSE TracedAt(kind)
    BY <1>1, <1>2, <1>3, TraceHook DEF n
  <1>6. DOMAIN trace' = DOMAIN trace \cup {n + 1}
    BY <1>5
  <1>7. /\ DOMAIN trace' \subseteq TracedAt("setupAll")'
        /\ TracedAt("test")' = {} /\ TracedAt("teardownAll")' = {}
    <2>1. DOMAIN trace \subseteq TracedAt("setupAll")
      BY <1>2 DEF Alone, DueAreDeclared
    <2>2. TracedAt("test") = {} /\ TracedAt("teardownAll") = {}
      BY <2>1 DEF TracedAt
    <2>3. QED
      BY <1>3, <1>5, <1>6, <2>1, <2>2
  <1>8. RunsAlone'
    <2>1. OnlyThisFile'
      <3>1. h \in ToSet(declared)
        BY <1>2, <1>3 DEF Alone, DueAreDeclared
      <3>2. \A i \in DOMAIN trace : trace'[i].what \in ToSet(declared)
        BY <1>5 DEF Alone, RunsAlone, OnlyThisFile
      <3>3. trace'[n + 1].what = h
        BY <1>5 DEF Traced
      <3>4. QED
        BY <1>2, <1>6, <3>1, <3>2, <3>3 DEF OnlyThisFile
    <2>2. SetupsFirst' /\ TeardownsLast'
      <3>1. NothingBut' => SetupsFirst' /\ TeardownsLast'
        BY OnlySetups, PTL
      <3>2. QED
        BY <1>7, <3>1 DEF NothingBut
    <2>3. RunsAlone' <=> OnlyThisFile' /\ SetupsFirst' /\ TeardownsLast'
      BY AloneParts, PTL
    <2>4. QED
      BY <2>1, <2>2, <2>3
  <1>9. DueAreDeclared'
    <2>1. CASE ~o.ok
      BY <1>1, <2>1 DEF DueAreDeclared
    <2>2. CASE o.ok
      <3>1. phase' = "setup-all"
        BY <1>1, <1>2, <2>2
      <3>2. registry'.teardownAll = registry.teardownAll
        BY <1>1, PerformType DEF Typed, Registries
      <3>3. ToSet(run'.tests) \subseteq ToSet(declared) /\ ToSet(run'.setupAll) \subseteq ToSet(declared)
        BY <1>2, <1>4 DEF Alone, DueAreDeclared
      <3>4. ASSUME NEW i \in Places(declared, "setupAll")
            PROVE  \/ declared[i] \in ToSet(run'.setupAll)
                   \/ \E j \in DOMAIN trace' : trace'[j] = Traced(declared[i], TRUE)
        <4>1. CASE declared[i] = h
          BY <1>5, <1>6, <2>2, <4>1
        <4>2. CASE declared[i] # h
          <5>1. \/ declared[i] \in ToSet(run.setupAll)
                \/ \E j \in DOMAIN trace : trace[j] = Traced(declared[i], TRUE)
            BY <1>2 DEF Alone, DueAreDeclared
          <5>2. QED
            BY <1>4, <1>5, <1>6, <4>2, <5>1
        <4>3. QED
          BY <4>1, <4>2
      <3>5. registry.teardownAll = OfKind(declared, "teardownAll")
        BY <1>2 DEF Alone, DueAreDeclared
      <3>6. QED
        BY <1>2, <1>7, <3>1, <3>2, <3>3, <3>4, <3>5 DEF DueAreDeclared
    <2>3. QED
      BY <2>1, <2>2
  <1>10. QED
    BY <1>8, <1>9 DEF Alone

(* The items of a kind are in the order in which they are written.         *)
LEMMA OfKindOrdered ==
    ASSUME NEW decl \in Seq(Items), WellPlaced(decl), NEW kind,
           NEW i \in DOMAIN OfKind(decl, kind), NEW j \in DOMAIN OfKind(decl, kind), j < i
    PROVE  OfKind(decl, kind)[j].at < OfKind(decl, kind)[i].at
  <1> DEFINE K == Places(decl, kind)
             n == Len(decl)
  <1>1. n \in Nat /\ DOMAIN decl = 1..n /\ K \in SUBSET (1..n)
    BY LenProperties DEF Places
  <1>2. i \in 1..Cardinality(K) /\ j \in 1..Cardinality(K)
    BY DEF OfKind, Sublist
  <1> HIDE DEF K, n
  <1>3. /\ Nth(K, i) \in K /\ Nth(K, j) \in K
        /\ Nth(K, j) < Nth(K, i)
    BY <1>1, <1>2, NthHasRank, NthIncreases
  <1>4. \A p \in K : decl[p].at = p
    BY <1>1 DEF WellPlaced
  <1>5. OfKind(decl, kind)[i] = decl[Nth(K, i)] /\ OfKind(decl, kind)[j] = decl[Nth(K, j)]
    BY <1>2 DEF OfKind, Sublist, K
  <1>6. QED
    BY <1>3, <1>4, <1>5

(* The setup-all hooks are done.                                           *)
LEMMA AloneSetupDone ==
    ASSUME Typed, EvalInv, Alone, SetupAllDone
    PROVE  Alone'
  <1> DEFINE left == OfKind(declared, "teardownAll")
  <1>1. /\ phase = "setup-all" /\ run.setupAll = <<>> /\ phase' = "tests"
        /\ declared' = declared /\ trace' = trace
        /\ run'.tests = run.tests /\ run'.teardownAll = left
    BY DEF SetupAllDone, Alone, DueAreDeclared, Typed, Runs
  <1>2. TracedAt("test") = {} /\ TracedAt("teardownAll") = {}
    BY <1>1 DEF Alone, DueAreDeclared, TracedAt
  <1>3. TracedAt("test")' = {} /\ TracedAt("teardownAll")' = {}
    BY <1>1, <1>2 DEF TracedAt
  <1>4. ToSet(run'.tests) \subseteq ToSet(declared)
    BY <1>1 DEF Alone, DueAreDeclared
  <1>5. ASSUME NEW i \in Places(declared, "setupAll")
        PROVE  \E j \in DOMAIN trace : trace[j] = Traced(declared[i], TRUE)
    <2>1. ToSet(<<>>) = {}
      BY DEF ToSet
    <2>2. QED
      BY <1>1, <2>1 DEF Alone, DueAreDeclared
  <1>6. ASSUME NEW i \in DOMAIN left
        PROVE  /\ left[i] \in ToSet(declared)
               /\ \A j \in DOMAIN left : j < i => left[j].at < left[i].at
    <2>1. left[i] \in ToSet(declared)
      BY OfKindElements, SetOf DEF Typed
    <2>2. QED
      BY <2>1, OfKindOrdered DEF Typed, EvalInv, Ordered
  <1> HIDE DEF left
  <1>7. DueAreDeclared'
    BY <1>1, <1>3, <1>4, <1>5, <1>6 DEF DueAreDeclared
  <1>8. RunsAlone'
    BY <1>1, SameRun DEF Alone
  <1>9. QED
    BY <1>7, <1>8 DEF Alone

(* A test runs.                                                            *)
LEMMA AloneTest ==
    ASSUME Typed, Typed', TestsCapture, Alone, RunTest
    PROVE  Alone'
  <1> DEFINE t == Head(run.tests)
             new == {x \in Executed(t) : x.kind \in {"test", "setup", "teardown"}}
             n == Len(trace)
             m == Len(trace')
  <1>1. /\ phase = "tests" /\ phase' = "tests" /\ run.tests # <<>>
        /\ declared' = declared
    BY DEF RunTest
  <1>2. /\ TraceGrows(new)
        /\ run'.tests \in {run.tests, Tail(run.tests)}
        /\ run'.teardownAll = run.teardownAll
    BY RunTestShape
  <1>3. /\ t \in Tests /\ t \in ToSet(run.tests) /\ t.kind = "test"
        /\ ToSet(Tail(run.tests)) \subseteq ToSet(run.tests)
    <2>1. run.tests \in Seq(Tests)
      BY DEF Typed, Runs
    <2>2. t \in Tests /\ t \in ToSet(run.tests) /\ ToSet(Tail(run.tests)) \subseteq ToSet(run.tests)
      BY <1>1, <2>1, HeadIn, HeadRest
    <2> HIDE DEF t
    <2>3. QED
      BY <2>2 DEF Tests
  <1>4. ToSet(run.tests) \subseteq ToSet(declared)
    BY <1>1 DEF Alone, DueAreDeclared
  <1>5. Executed(t) \subseteq ToSet(declared)
    BY <1>3, <1>4, ExecutedDeclared
  <1>6. \A x \in new : x \in ToSet(declared) /\ x.kind \in {"test", "setup", "teardown"}
    BY <1>5
  <1>7. /\ n \in Nat /\ m \in Nat /\ DOMAIN trace = 1..n /\ DOMAIN trace' = 1..m
        /\ n <= m
        /\ \A i \in 1..n : trace'[i] = trace[i]
        /\ \A i \in (n + 1)..m : trace'[i].what \in new
    BY <1>2, LenProperties DEF Typed, TraceGrows
  <1> HIDE DEF n, m, new, t
  <1>8. \A i \in 1..m : i \in 1..n \/ (i \in (n + 1)..m /\ \A j \in 1..n : j < i)
    BY <1>7
  <1>9. 1..n \subseteq 1..m
    BY <1>7
  <1>10. TracedAt("teardownAll") = {} /\ TracedAt("teardownAll")' = {}
    <2>1. TracedAt("teardownAll") = {}
      BY <1>1 DEF Alone, DueAreDeclared
    <2>2. \A i \in 1..m : trace'[i].what.kind # "teardownAll"
      <3>1. \A i \in 1..n : trace[i].what.kind # "teardownAll"
        BY <1>7, <2>1 DEF TracedAt
      <3>2. \A i \in (n + 1)..m : trace'[i].what.kind # "teardownAll"
        BY <1>6, <1>7
      <3>3. QED
        BY <1>7, <1>8, <3>1, <3>2
    <2>3. QED
      BY <1>7, <2>1, <2>2 DEF TracedAt
  <1>11. ASSUME NEW i \in Places(declared, "setupAll")
         PROVE  \E j \in DOMAIN trace' :
                    /\ trace'[j] = Traced(declared[i], TRUE)
                    /\ \A l \in TracedAt("test")' : j < l
    <2>1. PICK j \in 1..n : /\ trace[j] = Traced(declared[i], TRUE)
                            /\ \A l \in TracedAt("test") : j < l
      BY <1>1, <1>7 DEF Alone, DueAreDeclared
    <2>2. ASSUME NEW l \in TracedAt("test")'
          PROVE  j < l
      <3>1. l \in 1..m /\ trace'[l].what.kind = "test"
        BY <1>7 DEF TracedAt
      <3>2. CASE l \in 1..n
        <4>1. l \in TracedAt("test")
          BY <1>7, <3>1, <3>2 DEF TracedAt
        <4>2. QED
          BY <2>1, <4>1
      <3>3. CASE l \notin 1..n
        BY <1>8, <3>1, <3>3
      <3>4. QED
        BY <3>2, <3>3
    <2>3. j \in DOMAIN trace' /\ trace'[j] = trace[j]
      BY <1>7, <1>9
    <2>4. QED
      BY <2>1, <2>2, <2>3
  <1>12. DueAreDeclared'
    <2>1. ToSet(run'.tests) \subseteq ToSet(declared)
      BY <1>2, <1>3, <1>4
    <2>2. \A i \in DOMAIN run.teardownAll :
                /\ run.teardownAll[i] \in ToSet(declared)
                /\ \A j \in DOMAIN run.teardownAll : j < i => run.teardownAll[j].at < run.teardownAll[i].at
      BY <1>1 DEF Alone, DueAreDeclared
    <2>3. QED
      BY <1>1, <1>2, <1>10, <1>11, <2>1, <2>2 DEF DueAreDeclared
  <1>13. OnlyThisFile'
    <2>1. \A i \in 1..n : trace'[i].what \in ToSet(declared)
      BY <1>7 DEF Alone, RunsAlone, OnlyThisFile
    <2>2. \A i \in (n + 1)..m : trace'[i].what \in ToSet(declared)
      BY <1>6, <1>7
    <2>3. QED
      BY <1>1, <1>7, <1>8, <2>1, <2>2 DEF OnlyThisFile
  <1>14. SetupsFirst'
    <2>1. Typed' /\ DueAreDeclared' /\ Testing' => SetupsFirst'
      BY SetupsDone, PTL
    <2>2. QED
      BY <1>1, <1>12, <2>1 DEF Testing
  <1>15. TeardownsLast'
    BY <1>10 DEF TeardownsLast
  <1>16. RunsAlone' <=> OnlyThisFile' /\ SetupsFirst' /\ TeardownsLast'
    BY AloneParts, PTL
  <1>17. QED
    BY <1>12, <1>13, <1>14, <1>15, <1>16 DEF Alone

(* A teardown-all hook runs.                                               *)
LEMMA AloneTeardownAll ==
    ASSUME Typed, Typed', Alone, RunTeardownAll
    PROVE  Alone'
  <1> DEFINE h == Head(run.teardownAll)
             due == run.teardownAll
             n == Len(trace)
  <1>1. PICK o \in Outcomes : trace' = Append(trace, Traced(h, o.ok))
    BY DEF RunTeardownAll
  <1>2. /\ phase = "tests" /\ phase' = "tests" /\ declared' = declared
        /\ due \in Seq(HooksOf("teardownAll")) /\ due # <<>>
        /\ run'.teardownAll = Tail(due) /\ run'.tests = run.tests /\ run.tests = <<>>
        /\ o.ok \in BOOLEAN
    BY DEF RunTeardownAll, Typed, Runs, Outcomes
  <1>3. h \in HooksOf("teardownAll") /\ h.kind = "teardownAll" /\ h \in Items
    <2>1. h \in HooksOf("teardownAll")
      BY <1>2, HeadIn
    <2> HIDE DEF h
    <2>2. QED
      BY <2>1 DEF HooksOf, Items, Marks
  <1>4. h = due[1] /\ 1 \in DOMAIN due
    BY <1>2, HeadTailProperties, LenProperties, EmptySeq
  <1>5. /\ DOMAIN Tail(due) = {i \in Nat : i + 1 \in DOMAIN due /\ i # 0}
        /\ \A i \in DOMAIN Tail(due) : Tail(due)[i] = due[i + 1]
    BY <1>2, HeadRest
  <1>6. \A i \in DOMAIN due :
           /\ due[i] \in ToSet(declared)
           /\ \A j \in DOMAIN due : j < i => due[j].at < due[i].at
           /\ \A j \in TracedAt("teardownAll") : trace[j].what.at < due[i].at
    BY <1>2 DEF Alone, DueAreDeclared
  <1> HIDE DEF h, n, due
  <1>7. /\ n \in Nat /\ DOMAIN trace = 1..n
        /\ DOMAIN trace' = 1..(n + 1)
        /\ \A i \in DOMAIN trace : trace'[i] = trace[i] /\ i < n + 1
        /\ trace'[n + 1] = Traced(h, o.ok) /\ trace'[n + 1].what = h
        /\ \A kind : TracedAt(kind)' = IF h.kind = kind THEN TracedAt(kind) \cup {n + 1}
                                       ELSE TracedAt(kind)
    BY <1>1, <1>2, <1>3, TraceHook DEF n, Traced
  <1>8. DOMAIN trace' = DOMAIN trace \cup {n + 1} /\ n + 1 \notin DOMAIN trace
    BY <1>7
  <1>9. /\ TracedAt("teardownAll")' = TracedAt("teardownAll") \cup {n + 1}
        /\ TracedAt("test")' = TracedAt("test")
        /\ TracedAt("teardownAll") \subseteq DOMAIN trace
    BY <1>3, <1>7 DEF TracedAt
  <1>10. DueAreDeclared'
    <2>1. ASSUME NEW i \in Places(declared, "setupAll")
          PROVE  \E j \in DOMAIN trace' :
                    /\ trace'[j] = Traced(declared[i], TRUE)
                    /\ \A l \in TracedAt("test")' : j < l
      BY <1>2, <1>7, <1>8, <1>9 DEF Alone, DueAreDeclared
    <2>2. ASSUME NEW i \in DOMAIN Tail(due)
          PROVE  /\ Tail(due)[i] \in ToSet(declared)
                 /\ \A j \in DOMAIN Tail(due) : j < i => Tail(due)[j].at < Tail(due)[i].at
                 /\ \A j \in TracedAt("teardownAll")' : trace'[j].what.at < Tail(due)[i].at
      <3>1. i \in Nat /\ i + 1 \in DOMAIN due /\ 1 < i + 1 /\ Tail(due)[i] = due[i + 1]
        BY <1>5
      <3>2. ASSUME NEW j \in DOMAIN Tail(due), j < i
            PROVE  Tail(due)[j].at < Tail(due)[i].at
        <4>1. j \in Nat /\ j + 1 \in DOMAIN due /\ j + 1 < i + 1 /\ Tail(due)[j] = due[j + 1]
          BY <1>5, <3>1, <3>2
        <4>2. QED
          BY <1>6, <3>1, <4>1
      <3>3. ASSUME NEW j \in TracedAt("teardownAll")'
            PROVE  trace'[j].what.at < Tail(due)[i].at
        <4>1. CASE j \in TracedAt("teardownAll")
          BY <1>6, <1>7, <1>9, <3>1, <4>1
        <4>2. CASE j = n + 1
          BY <1>4, <1>6, <1>7, <3>1, <4>2
        <4>3. QED
          BY <1>9, <4>1, <4>2
      <3>4. QED
        BY <1>6, <3>1, <3>2, <3>3
    <2>3. ToSet(run'.tests) \subseteq ToSet(declared)
      BY <1>2 DEF Alone, DueAreDeclared
    <2>4. QED
      BY <1>2, <2>1, <2>2, <2>3 DEF DueAreDeclared
  <1>11. OnlyThisFile'
    BY <1>2, <1>4, <1>6, <1>7, <1>8 DEF Alone, RunsAlone, OnlyThisFile
  <1>12. SetupsFirst'
    <2>1. Typed' /\ DueAreDeclared' /\ Testing' => SetupsFirst'
      BY SetupsDone, PTL
    <2>2. QED
      BY <1>2, <1>10, <2>1 DEF Testing
  <1>13. TeardownsLast'
    <2>1. TeardownsLast
      BY AloneParts DEF Alone
    <2>2. ASSUME NEW i \in TracedAt("teardownAll")', NEW j \in DOMAIN trace' \ TracedAt("teardownAll")'
          PROVE  j < i
      <3>1. j \in DOMAIN trace \ TracedAt("teardownAll")
        BY <1>8, <1>9
      <3>2. CASE i \in TracedAt("teardownAll")
        BY <2>1, <3>1, <3>2 DEF TeardownsLast
      <3>3. CASE i = n + 1
        BY <1>7, <3>1, <3>3
      <3>4. QED
        BY <1>9, <3>2, <3>3
    <2>3. ASSUME NEW i \in TracedAt("teardownAll")', NEW j \in TracedAt("teardownAll")',
                 trace'[i].what = trace'[j].what
          PROVE  i = j
      <3>1. \A k \in TracedAt("teardownAll") : trace'[k].what # h
        <4>1. h.at \in Nat /\ ~(h.at < h.at)
          BY <1>3, ItemFields
        <4>2. \A k \in TracedAt("teardownAll") : trace[k].what.at < h.at
          BY <1>4, <1>6
        <4>3. QED
          BY <1>7, <1>9, <4>1, <4>2
      <3>2. CASE i \in TracedAt("teardownAll") /\ j \in TracedAt("teardownAll")
        BY <1>7, <1>9, <2>1, <2>3, <3>2 DEF TeardownsLast
      <3>3. CASE i = n + 1 \/ j = n + 1
        BY <1>7, <1>9, <2>3, <3>1, <3>3
      <3>4. QED
        BY <1>9, <3>2, <3>3
    <2>4. QED
      BY <2>2, <2>3 DEF TeardownsLast
  <1>14. RunsAlone' <=> OnlyThisFile' /\ SetupsFirst' /\ TeardownsLast'
    BY AloneParts, PTL
  <1>15. QED
    BY <1>10, <1>11, <1>12, <1>13, <1>14 DEF Alone

(* No file is being run at first.                                          *)
LEMMA AloneInit == Init => Alone
  BY NothingRun DEF Init, Alone, DueAreDeclared, Untraced

(* A file is run with its own hooks and tests in every step.               *)
LEMMA AloneStep ==
    ASSUME Typed, Typed', AtRest, EvalInv, TestsCapture, Alone, [Next]_vars
    PROVE  Alone'
  <1>1. ASSUME phase' \notin {"setup-all", "tests"}, trace' = <<>>
        PROVE  Alone'
    <2>1. Untraced' => RunsAlone'
      BY NothingRun, PTL
    <2>2. QED
      BY <1>1, <2>1 DEF Alone, DueAreDeclared, Untraced
  <1>2. CASE StartCommand \/ EvalFails
    BY <1>1, <1>2 DEF StartCommand, EvalFails, NextFile, AtRest
  <1>3. CASE BeginFile \/ EndFile \/ EndCommand \/ Kill
    BY <1>1, <1>3 DEF BeginFile, EndFile, NextFile, EndCommand, Kill, ProcessGone
  <1>4. CASE Forms
    BY <1>1, <1>4, FormFrame DEF AtRest
  <1>5. CASE UNCHANGED vars
    <2>1. UNCHANGED <<phase, run, registry, declared, trace>>
      BY <1>5 DEF vars
    <2>2. RunsAlone'
      BY <2>1, SameRun DEF Alone
    <2>3. \A kind : TracedAt(kind)' = TracedAt(kind)
      BY <2>1 DEF TracedAt
    <2>4. DueAreDeclared'
      BY <2>1, <2>3 DEF Alone, DueAreDeclared, Traced
    <2>5. QED
      BY <2>2, <2>4 DEF Alone
  <1>6. QED
    BY <1>2, <1>3, <1>4, <1>5, AloneEvalEnds, AloneSetupAll, AloneSetupDone, AloneTest,
       AloneTeardownAll DEF Next, Forms

(***************************************************************************)
(* Whatever is executed for a file is its own, whatever earlier files left *)
(* in the registries: no test before the setup-all hooks around it have    *)
(* succeeded, a teardown-all hook behind all tests of its describe form,   *)
(* once.                                                                   *)
(***************************************************************************)
THEOREM FilesAreAlone == Spec => []FilesRunAlone
  <1> DEFINE Inv == LabelsFollow /\ TestsCapture /\ Alone
  <1>1. Init => Inv
    BY LabelsInit, CaptureInit, AloneInit
  <1>2. RunnerInv /\ RunnerInv' /\ Inv /\ [Next]_vars => Inv'
    BY LabelsStep, CaptureStep, AloneStep DEF RunnerInv
  <1>3. Inv => FilesRunAlone
    BY DEF Alone, RunsAlone, FilesRunAlone, HooksAroundAllTests, HooksAroundTheirTests
  <1> HIDE DEF Inv
  <1>4. QED
    BY <1>1, <1>2, <1>3, RunnerAlways, PTL DEF Spec

-----------------------------------------------------------------------------
(* What is selected.                                                       *)

(* One more item of a file.                                                *)
LEMMA AppendElements ==
    ASSUME NEW S, NEW s \in Seq(S), NEW e \in S
    PROVE  ToSet(Append(s, e)) = ToSet(s) \cup {e}
  <1> DEFINE n == Len(s)
             more == Append(s, e)
  <1>1. /\ n \in Nat /\ DOMAIN s = 1..n /\ DOMAIN more = 1..(n + 1)
        /\ \A i \in 1..n : more[i] = s[i]
        /\ more[n + 1] = e
    BY LenProperties, AppendProperties
  <1> HIDE DEF n, more
  <1>2. \A i \in 1..(n + 1) : i \in 1..n \/ i = n + 1
    BY <1>1
  <1>3. 1..n \subseteq 1..(n + 1) /\ n + 1 \in 1..(n + 1)
    BY <1>1
  <1>4. ToSet(more) \subseteq ToSet(s) \cup {e}
    BY <1>1, <1>2 DEF ToSet
  <1>5. ToSet(s) \subseteq ToSet(more) /\ e \in ToSet(more)
    BY <1>1, <1>3 DEF ToSet
  <1>6. QED
    BY <1>4, <1>5 DEF more

(* The tests among some items that have a tag, and of each name the last.  *)
Tagged(D) == {t \in D : t.kind = "test" /\ t.meta \in Tags}
LastTagged(D) == {u \in Tagged(D) : \A v \in Tagged(D) : FullName(v) = FullName(u) => v.at <= u.at}

(* A test that is focused or tagged when it is declared says so in the     *)
(* registry; a tag replaces the one its name had.                          *)
LEMMA FocusAndTags ==
    ASSUME Typed, WellPlaced(declared), NEW d \in Items, Declare(d), d.at = Len(declared) + 1
    PROVE  /\ FocusDeclared' = IF d.kind = "test" /\ d.meta = "focus"
                               THEN FocusDeclared \cup {FullName(d)} ELSE FocusDeclared
           /\ TagsDeclared' = IF d.kind = "test" /\ d.meta \in Tags
                              THEN Insert(TagsDeclared, FullName(d), {d.meta}) ELSE TagsDeclared
  <1> DEFINE D == ToSet(declared)
  <1>1. ToSet(declared') = D \cup {d}
    BY AppendElements DEF Declare, Typed
  <1>2. \A u \in D : u.at \in Nat /\ u.at < d.at
    <2>1. \A i \in DOMAIN declared : declared[i].at = i /\ i \in 1..Len(declared)
      BY LenProperties DEF WellPlaced, Typed
    <2>2. Len(declared) \in Nat
      BY LenProperties DEF Typed
    <2>3. QED
      BY <2>1, <2>2 DEF ToSet
  <1>3. d.at \in Nat
    BY ItemFields
  <1>4. TagsDeclared = {<<FullName(t), {t.meta}>> : t \in LastTagged(D)}
    BY DEF TagsDeclared, LastTagged, Tagged
  <1>5. TagsDeclared' = {<<FullName(t), {t.meta}>> : t \in LastTagged(D \cup {d})}
    BY <1>1 DEF TagsDeclared, LastTagged, Tagged, FullName
  <1> HIDE DEF D
  <1>6. FocusDeclared' = IF d.kind = "test" /\ d.meta = "focus"
                         THEN FocusDeclared \cup {FullName(d)} ELSE FocusDeclared
    BY <1>1 DEF FocusDeclared, FullName, D
  <1>7. CASE ~(d.kind = "test" /\ d.meta \in Tags)
    <2>1. Tagged(D \cup {d}) = Tagged(D)
      BY <1>7 DEF Tagged
    <2>2. LastTagged(D \cup {d}) = LastTagged(D)
      BY <2>1 DEF LastTagged
    <2>3. QED
      BY <1>4, <1>5, <1>6, <1>7, <2>2
  <1>8. CASE d.kind = "test" /\ d.meta \in Tags
    <2>1. Tagged(D \cup {d}) = Tagged(D) \cup {d} /\ Tagged(D) \subseteq D
      BY <1>8 DEF Tagged
    <2>2. d \in LastTagged(D \cup {d})
      <3>1. \A v \in D \cup {d} : v.at <= d.at
        BY <1>2, <1>3
      <3>2. QED
        BY <2>1, <3>1 DEF LastTagged
    <2>3. ASSUME NEW u \in Tagged(D)
          PROVE  u \in LastTagged(D \cup {d}) <=> u \in LastTagged(D) /\ FullName(u) # FullName(d)
      <3>1. u.at \in Nat /\ ~(d.at <= u.at)
        BY <1>2, <1>3, <2>1
      <3>2. QED
        BY <2>1, <3>1 DEF LastTagged
    <2>4. LastTagged(D) \subseteq Tagged(D) /\ LastTagged(D \cup {d}) \subseteq Tagged(D) \cup {d}
      BY <2>1 DEF LastTagged
    <2>5. d \notin Tagged(D)
      BY <1>2, <1>3, <2>1
    <2>6. LastTagged(D \cup {d}) = {u \in LastTagged(D) : FullName(u) # FullName(d)} \cup {d}
      BY <2>2, <2>3, <2>4, <2>5
    <2> DEFINE pair(t) == <<FullName(t), {t.meta}>>
    <2>7. \A t : pair(t)[1] = FullName(t)
      OBVIOUS
    <2> HIDE DEF pair
    <2>8. TagsDeclared = {pair(t) : t \in LastTagged(D)} /\ TagsDeclared' = {pair(t) : t \in LastTagged(D \cup {d})}
      BY <1>4, <1>5 DEF pair
    <2>9. TagsDeclared' = {p \in TagsDeclared : p[1] # FullName(d)} \cup {pair(d)}
      <3> DEFINE last == LastTagged(D)
                 more == LastTagged(D \cup {d})
      <3>1. d \in more /\ \A u \in more : u = d \/ (u \in last /\ FullName(u) # FullName(d))
        BY <2>6
      <3>2. \A u \in last : FullName(u) # FullName(d) => u \in more
        BY <2>6
      <3> HIDE DEF last, more
      <3>3. TagsDeclared = {pair(t) : t \in last} /\ TagsDeclared' = {pair(t) : t \in more}
        BY <2>8 DEF last, more
      <3>4. ASSUME NEW p \in TagsDeclared'
            PROVE  p \in {q \in TagsDeclared : q[1] # FullName(d)} \cup {pair(d)}
        BY <2>7, <3>1, <3>3
      <3>5. ASSUME NEW p \in {q \in TagsDeclared : q[1] # FullName(d)} \cup {pair(d)}
            PROVE  p \in TagsDeclared'
        BY <2>7, <3>1, <3>2, <3>3
      <3>6. QED
        BY <3>4, <3>5
    <2>10. TagsDeclared' = Insert(TagsDeclared, FullName(d), {d.meta})
      BY <2>9 DEF Insert, pair
    <2>11. QED
      BY <1>6, <1>8, <2>10
  <1>9. QED
    BY <1>7, <1>8

(* Selecting among the tests of a file is selecting among all it declares. *)
SelectedIn(tests, focus, tags) ==
    Filter(tests, LAMBDA t : Selected(t, focus, tags))
(* The same selection, among all of the items.                             *)
SelectedFrom(decl, focus, tags) ==
    Filter(decl, LAMBDA d : d.kind = "test" /\ Selected(d, focus, tags))

(* The two selections agree.                                               *)
LEMMA SelectedOfKind ==
    ASSUME NEW decl \in Seq(Items), NEW focus, NEW tags
    PROVE  SelectedIn(OfKind(decl, "test"), focus, tags) = SelectedFrom(decl, focus, tags)
  <1> DEFINE n == Len(decl)
             K == Places(decl, "test")
             s == OfKind(decl, "test")
             L == {k \in DOMAIN s : Selected(s[k], focus, tags)}
             M == {i \in DOMAIN decl : decl[i].kind = "test" /\ Selected(decl[i], focus, tags)}
  <1>1. n \in Nat /\ DOMAIN decl = 1..n /\ K \in SUBSET (1..n) /\ K \in SUBSET DOMAIN decl
    BY LenProperties DEF Places
  <1>2. /\ \A i \in M : i \in K /\ Selected(decl[i], focus, tags)
        /\ \A i \in K : Selected(decl[i], focus, tags) => i \in M
    BY DEF Places
  <1> HIDE DEF n, K, M
  <1>3. DOMAIN s = 1..Cardinality(K) /\ \A k \in 1..Cardinality(K) : s[k] = decl[Nth(K, k)]
    BY DEF Sublist, OfKind, K
  <1> HIDE DEF s
  <1>4. \A k \in DOMAIN s : Nth(K, k) \in K
    BY <1>1, <1>3, NthHasRank
  <1>5. \A i \in K : Rank(K, i) \in DOMAIN s /\ Nth(K, Rank(K, i)) = i
    BY <1>1, <1>3, RankBounds, NthOfRank
  <1>6. /\ \A k \in L : Nth(K, k) \in M
        /\ \A i \in M : \E k \in L : i = Nth(K, k)
    <2>1. \A k \in L : Nth(K, k) \in M
      BY <1>2, <1>3, <1>4
    <2>2. ASSUME NEW i \in M
          PROVE  \E k \in L : i = Nth(K, k)
      <3>1. i \in K /\ Selected(decl[i], focus, tags)
        BY <1>2
      <3>2. Rank(K, i) \in DOMAIN s /\ Nth(K, Rank(K, i)) = i
        BY <1>5, <3>1
      <3>3. s[Rank(K, i)] = decl[i]
        BY <1>3, <3>2
      <3>4. QED
        BY <3>1, <3>2, <3>3
    <2>3. QED
      BY <2>1, <2>2
  <1>7. s = Sublist(decl, K) /\ L \in SUBSET DOMAIN s
    BY DEF OfKind, K, s
  <1> HIDE DEF L
  <1>8. Sublist(Sublist(decl, K), L) = Sublist(decl, M)
    <2>1. L \in SUBSET DOMAIN Sublist(decl, K)
      BY <1>7
    <2>2. QED
      BY <1>1, <1>6, <2>1, SublistTwice
  <1>9. SelectedIn(s, focus, tags) = Sublist(s, L) /\ SelectedFrom(decl, focus, tags) = Sublist(decl, M)
    BY DEF SelectedIn, SelectedFrom, Filter, L, M
  <1>10. QED
    BY <1>7, <1>8, <1>9 DEF s

(* The tests that have a result.                                           *)
Ran == [i \in DOMAIN run.results |-> run.results[i].test]

(* The tests that have run, one per result.                                *)
LEMMA RanType == Typed => Ran \in Seq(Tests) /\ Len(Ran) = Len(run.results)
  <1> SUFFICES ASSUME Typed
               PROVE  Ran \in Seq(Tests) /\ Len(Ran) = Len(run.results)
    OBVIOUS
  <1>1. run.results \in Seq(Results)
    BY DEF Typed, Runs
  <1>2. \A i \in DOMAIN run.results : run.results[i] \in Results
    BY <1>1, ElementOfSeq, LenProperties
  <1>3. Ran \in [DOMAIN run.results -> Tests]
    BY <1>2 DEF Ran, Results
  <1>4. QED
    BY <1>1, <1>3, MapSeq

(* The head of one sequence put behind another.                            *)
LEMMA MoveHead ==
    ASSUME NEW S, NEW a \in Seq(S), NEW b \in Seq(S), b # <<>>
    PROVE  Append(a, Head(b)) \o Tail(b) = a \o b
  <1> DEFINE m == Len(a)
             n == Len(b)
             a1 == Append(a, Head(b))
             b1 == Tail(b)
             x == a1 \o b1
             y == a \o b
  <1>1. /\ m \in Nat /\ n \in Nat /\ n # 0 /\ Head(b) \in S /\ Head(b) = b[1]
        /\ b1 \in Seq(S) /\ Len(b1) = n - 1 /\ \A i \in 1..(n - 1) : b1[i] = b[i + 1]
    BY HeadTailProperties, LenProperties, EmptySeq
  <1>2. /\ a1 \in Seq(S) /\ Len(a1) = m + 1
        /\ \A i \in 1..m : a1[i] = a[i]
        /\ a1[m + 1] = b[1]
    BY <1>1, AppendProperties
  <1> HIDE DEF m, n, a1, b1
  <1>3. /\ x \in Seq(S) /\ Len(x) = (m + 1) + (n - 1)
        /\ \A i \in 1..((m + 1) + (n - 1)) : x[i] = IF i <= m + 1 THEN a1[i] ELSE b1[i - (m + 1)]
    <2>1. /\ x \in Seq(S) /\ Len(x) = Len(a1) + Len(b1)
          /\ \A i \in 1..(Len(a1) + Len(b1)) : x[i] = IF i <= Len(a1) THEN a1[i] ELSE b1[i - Len(a1)]
      BY <1>1, <1>2, ConcatProperties
    <2> HIDE DEF x
    <2>2. QED
      BY <1>1, <1>2, <2>1
  <1>4. /\ y \in Seq(S) /\ Len(y) = m + n
        /\ \A i \in 1..(m + n) : y[i] = IF i <= m THEN a[i] ELSE b[i - m]
    BY ConcatProperties DEF m, n
  <1> HIDE DEF x, y
  <1>5. (m + 1) + (n - 1) = m + n
    BY <1>1
  <1>6. ASSUME NEW i \in 1..(m + n)
        PROVE  x[i] = y[i]
    <2>1. CASE i <= m
      <3>1. i \in 1..m /\ i <= m + 1
        BY <1>1, <2>1
      <3>2. QED
        BY <1>2, <1>3, <1>4, <1>5, <2>1, <3>1
    <2>2. CASE i = m + 1
      <3>1. ~(i <= m) /\ i <= m + 1 /\ i - m = 1
        BY <1>1, <2>2
      <3>2. QED
        BY <1>2, <1>3, <1>4, <1>5, <2>2, <3>1
    <2>3. CASE i > m + 1
      <3>1. /\ ~(i <= m) /\ ~(i <= m + 1)
            /\ i - (m + 1) \in 1..(n - 1) /\ (i - (m + 1)) + 1 = i - m
        BY <1>1, <2>3
      <3>2. b1[i - (m + 1)] = b[i - m]
        BY <1>1, <3>1
      <3>3. QED
        BY <1>3, <1>4, <1>5, <3>1, <3>2
    <2>4. i <= m \/ i = m + 1 \/ i > m + 1
      BY <1>1
    <2>5. QED
      BY <2>1, <2>2, <2>3, <2>4
  <1>7. x = y
    BY <1>3, <1>4, <1>5, <1>6, SeqEqual
  <1>8. QED
    BY <1>7 DEF x, y, a1, b1

(* A test that is counted moves from those to run to those that have a result. *)
LEMMA CountedMoves ==
    ASSUME Typed, run.tests # <<>>, NEW status \in {"passed", "failed", "skipped"},
           run' = Counted(Head(run.tests), status)
    PROVE  Ran' \o run'.tests = Ran \o run.tests
  <1> DEFINE t == Head(run.tests)
             r == [test |-> t, status |-> status]
             n == Len(run.results)
  <1>1. run'.tests = Tail(run.tests) /\ run'.results = Append(run.results, r)
    BY CountedType DEF Typed, Runs
  <1>2. t \in Tests /\ run.tests \in Seq(Tests) /\ run.results \in Seq(Results)
    BY HeadIn DEF Typed, Runs
  <1>3. r \in Results /\ r.test = t
    BY <1>2 DEF Results
  <1> HIDE DEF r, t
  <1>4. /\ n \in Nat /\ DOMAIN run.results = 1..n /\ DOMAIN run'.results = 1..(n + 1)
        /\ \A i \in 1..n : run'.results[i] = run.results[i]
        /\ run'.results[n + 1] = r
    BY <1>1, <1>2, <1>3, AppendProperties, LenProperties
  <1>5. Ran \in Seq(Tests) /\ Len(Ran) = n
    BY RanType
  <1> DEFINE more == Append(Ran, t)
  <1> HIDE DEF n
  <1>6. /\ more \in Seq(Tests) /\ Len(more) = n + 1 /\ DOMAIN more = 1..(n + 1)
        /\ \A i \in 1..n : more[i] = Ran[i]
        /\ more[n + 1] = t
    <2>1. more \in Seq(Tests) /\ Len(more) = n + 1
      BY <1>2, <1>5, AppendProperties
    <2>2. (\A i \in 1..n : more[i] = Ran[i]) /\ more[n + 1] = t
      BY <1>2, <1>5, AppendProperties
    <2>3. DOMAIN more = 1..(n + 1)
      BY <2>1, LenProperties
    <2>4. QED
      BY <2>1, <2>2, <2>3
  <1> HIDE DEF more
  <1>7. \A i \in 1..n : Ran[i] = run.results[i].test
    BY <1>4 DEF Ran
  <1>8. \A i \in 1..(n + 1) : more[i] = run'.results[i].test
    <2>1. \A i \in 1..(n + 1) : i \in 1..n \/ i = n + 1
      BY <1>4
    <2>2. \A i \in 1..n : more[i] = run'.results[i].test
      BY <1>4, <1>6, <1>7
    <2>3. more[n + 1] = run'.results[n + 1].test
      BY <1>3, <1>4, <1>6
    <2>4. QED
      BY <2>1, <2>2, <2>3
  <1>9. Ran' = [i \in 1..(n + 1) |-> run'.results[i].test]
    BY <1>4 DEF Ran
  <1>10. more = [i \in 1..(n + 1) |-> more[i]]
    BY <1>6, LenProperties
  <1>11. Ran' = Append(Ran, t)
    BY <1>8, <1>9, <1>10 DEF more
  <1>12. Append(Ran, t) \o Tail(run.tests) = Ran \o run.tests
    BY <1>2, <1>5, MoveHead DEF t
  <1>13. QED
    BY <1>1, <1>11, <1>12

(* What a file selects changes only with what it declares.                 *)
LEMMA SameSelection ==
    ASSUME declared' = declared, args' = args
    PROVE  SelectedByFile' = SelectedByFile
  <1>1. FocusDeclared' = FocusDeclared /\ TagsDeclared' = TagsDeclared
    BY DEF FocusDeclared, TagsDeclared, FullName
  <1>2. QED
    BY <1>1 DEF SelectedByFile, Filter, Selected, FullName

(* Nothing is selected at first.                                           *)
LEMMA SelectionInit == Init => SelectionInv
  BY DEF Init, SelectionInv

(* Evaluation registers the focus and the tags the file declares.          *)
LEMMA SelectionEval ==
    ASSUME Typed, EvalInv, SelectionInv, Forms
    PROVE  SelectionInv'
  <1>0. phase = "eval" /\ phase' = "eval"
    BY FormFrame
  <1>1. ASSUME NEW d \in Items, Declare(d), d.at = Len(declared) + 1, d.kind # "test",
               registry'.focus = registry.focus, registry'.tags = registry.tags
        PROVE  SelectionInv'
    <2>1. FocusDeclared' = FocusDeclared /\ TagsDeclared' = TagsDeclared
      BY <1>1, FocusAndTags DEF EvalInv, Ordered
    <2>2. QED
      BY <1>0, <1>1, <2>1 DEF SelectionInv
  <1>2. ASSUME NEW kind \in Marks, Declare(Written(kind)),
               registry'.focus = registry.focus, registry'.tags = registry.tags
        PROVE  SelectionInv'
    <2>1. Written(kind) \in Items
      BY <1>0, WrittenType DEF Items
    <2>2. Written(kind).at = Len(declared) + 1 /\ Written(kind).kind # "test"
      BY DEF Written, Marks
    <2>3. QED
      BY <1>1, <1>2, <2>1, <2>2
  <1>3. ASSUME NEW l \in Labels, Describe(l)
        PROVE  SelectionInv'
    BY <1>2, <1>3 DEF Describe, Marks, Typed, Registries
  <1>4. CASE Setup \/ Teardown \/ SetupAll \/ TeardownAll
    <2>1. PICK kind \in HookKinds \cup AllKinds : RegisterHook(kind)
      BY <1>4 DEF Setup, Teardown, SetupAll, TeardownAll, HookKinds, AllKinds
    <2>2. registry'.focus = registry.focus /\ registry'.tags = registry.tags
      BY <2>1 DEF RegisterHook, Typed, Registries, HookKinds, AllKinds
    <2>3. Declare(Written(kind)) /\ kind \in Marks
      BY <2>1 DEF RegisterHook, HookKinds, AllKinds, Marks
    <2>4. QED
      BY <1>2, <2>2, <2>3
  <1>5. ASSUME NEW n \in Names, NEW m \in Metas, Deftest(n, m)
        PROVE  SelectionInv'
    <2> DEFINE d == WrittenTest(n, m)
               full == FullName(Prefixed(n))
    <2>1. d \in Items /\ Declare(d)
      BY <1>0, <1>5, WrittenTestType DEF Deftest, Items
    <2>2. /\ d.kind = "test" /\ d.at = Len(declared) + 1 /\ d.meta = m
          /\ FullName(d) = full
      BY DEF WrittenTest, FullName, Prefixed
    <2>3. /\ registry'.focus = (IF m = "focus" THEN registry.focus \cup {full} ELSE registry.focus)
          /\ registry'.tags = (IF m \in Tags THEN Insert(registry.tags, full, {m}) ELSE registry.tags)
      BY <1>5 DEF Deftest, Typed, Registries
    <2> HIDE DEF d, full
    <2>4. /\ FocusDeclared' = (IF m = "focus" THEN FocusDeclared \cup {full} ELSE FocusDeclared)
          /\ TagsDeclared' = (IF m \in Tags THEN Insert(TagsDeclared, full, {m}) ELSE TagsDeclared)
      BY <2>1, <2>2, FocusAndTags DEF EvalInv, Ordered
    <2>5. QED
      BY <1>0, <2>3, <2>4 DEF SelectionInv
  <1>6. CASE EndDescribe \/ TopLevelCheck
    <2>1. registry'.focus = registry.focus /\ registry'.tags = registry.tags
      <3>1. CASE EndDescribe
        BY <3>1 DEF EndDescribe, Typed, Registries
      <3>2. CASE TopLevelCheck
        BY <3>2, PerformType DEF TopLevelCheck, Typed, Registries
      <3>3. QED
        BY <1>6, <3>1, <3>2
    <2>2. declared' = declared
      BY <1>6 DEF EndDescribe, TopLevelCheck
    <2>3. FocusDeclared' = FocusDeclared /\ TagsDeclared' = TagsDeclared
      BY <2>2 DEF FocusDeclared, TagsDeclared, FullName
    <2>4. QED
      BY <1>0, <2>1, <2>3 DEF SelectionInv
  <1>7. QED
    BY <1>3, <1>4, <1>5, <1>6 DEF Forms

(* A test that runs stays among those selected, with or without a result.  *)
LEMMA SelectionTest ==
    ASSUME Typed, SelectionInv, RunTest
    PROVE  SelectionInv'
  <1>1. phase = "tests" /\ phase' = "tests" /\ declared' = declared /\ args' = args /\ run.tests # <<>>
    BY DEF RunTest
  <1>2. \/ \E status \in {"passed", "failed", "skipped"} : run' = Counted(Head(run.tests), status)
        \/ run' = [run EXCEPT !.tries = @ + 1]
    BY DEF RunTest
  <1>3. Ran' \o run'.tests = Ran \o run.tests
    <2>1. CASE run' = [run EXCEPT !.tries = @ + 1]
      BY <2>1 DEF Ran, Typed, Runs
    <2>2. QED
      BY <1>1, <1>2, <2>1, CountedMoves
  <1>4. SelectedByFile' = SelectedByFile
    BY <1>1, SameSelection
  <1>5. QED
    BY <1>1, <1>3, <1>4 DEF SelectionInv, Ran

(* Every step moves a selected test from those left to those run, or       *)
(* neither.                                                                *)
LEMMA SelectionStep ==
    ASSUME Typed, EvalInv, AtRest, SelectionInv, [Next]_vars
    PROVE  SelectionInv'
  <1>1. CASE BeginFile
    <2>1. registry'.focus = {} /\ registry'.tags = {} /\ phase' = "eval" /\ declared' = <<>>
      BY <1>1 DEF BeginFile, Prepared, registry_clear, EmptyRegistry
    <2>2. ToSet(declared') = {}
      BY <2>1 DEF ToSet
    <2>3. FocusDeclared' = {} /\ TagsDeclared' = {}
      BY <2>2 DEF FocusDeclared, TagsDeclared
    <2>4. QED
      BY <2>1, <2>3 DEF SelectionInv
  <1>2. CASE EvalEnds
    <2>1. /\ phase = "eval" /\ phase' = "setup-all" /\ declared' = declared /\ args' = args
          /\ run'.tests = Filter(registry.tests,
                            LAMBDA t : Selected(t, registry.focus, registry.tags))
          /\ run'.results = <<>>
      BY <1>2 DEF EvalEnds, NoRun
    <2>2. /\ registry.tests = OfKind(declared, "test")
          /\ registry.focus = FocusDeclared /\ registry.tags = TagsDeclared
      BY <2>1 DEF EvalInv, RegistryFollows, SelectionInv
    <2>3. run'.tests = SelectedByFile
      <3>1. /\ run'.tests = SelectedIn(registry.tests, registry.focus, registry.tags)
            /\ SelectedByFile = SelectedFrom(declared, FocusDeclared, TagsDeclared)
        BY <2>1 DEF SelectedIn, SelectedFrom, Filter, SelectedByFile
      <3>2. SelectedIn(OfKind(declared, "test"), FocusDeclared, TagsDeclared)
              = SelectedFrom(declared, FocusDeclared, TagsDeclared)
        BY SelectedOfKind DEF Typed
      <3>3. QED
        BY <2>2, <3>1, <3>2
    <2>4. QED
      BY <2>1, <2>3, SameSelection DEF SelectionInv
  <1>3. CASE RunSetupAll
    <2>1. phase = "setup-all" /\ declared' = declared /\ args' = args /\ phase' \in {"setup-all", "next"}
      BY <1>3 DEF RunSetupAll, NextFile
    <2>2. run'.tests = run.tests /\ run'.results = run.results
      BY <1>3 DEF RunSetupAll, Typed, Runs
    <2>3. QED
      BY <2>1, <2>2, SameSelection DEF SelectionInv
  <1>4. CASE SetupAllDone
    <2>1. /\ phase = "setup-all" /\ phase' = "tests" /\ declared' = declared /\ args' = args
          /\ run'.tests = run.tests /\ run'.results = run.results
      BY <1>4 DEF SetupAllDone, Typed, Runs
    <2>2. run.results = <<>> /\ run.tests = SelectedByFile /\ run.tests \in Seq(Tests)
      BY <2>1 DEF SelectionInv, Typed, Runs
    <2>3. [i \in DOMAIN run'.results |-> run'.results[i].test] = <<>>
      BY <2>1, <2>2
    <2>4. <<>> \o run.tests = run.tests
      BY <2>2, ConcatEmptySeq
    <2>5. QED
      BY <2>1, <2>2, <2>3, <2>4, SameSelection DEF SelectionInv
  <1>5. CASE RunTeardownAll
    <2>1. /\ phase = "tests" /\ phase' = "tests" /\ declared' = declared /\ args' = args
          /\ run'.tests = run.tests /\ run'.results = run.results
      BY <1>5 DEF RunTeardownAll, Typed, Runs
    <2>2. QED
      BY <2>1, SameSelection DEF SelectionInv
  <1>6. CASE \/ StartCommand \/ EvalFails \/ EndFile \/ EndCommand \/ Kill
    BY <1>6 DEF StartCommand, EvalFails, EndFile, EndCommand, Kill, ProcessGone, NextFile, SelectionInv
  <1>7. CASE UNCHANGED vars
    <2>1. UNCHANGED <<phase, declared, args, run, registry>>
      BY <1>7 DEF vars
    <2>2. FocusDeclared' = FocusDeclared /\ TagsDeclared' = TagsDeclared
      BY <2>1 DEF FocusDeclared, TagsDeclared, FullName
    <2>3. QED
      BY <2>1, <2>2, SameSelection DEF SelectionInv
  <1>8. QED
    BY <1>1, <1>2, <1>3, <1>4, <1>5, <1>6, <1>7, SelectionEval, SelectionTest DEF Next, Forms

(***************************************************************************)
(* When the last test is done, the tests with a result are those the file  *)
(* selects, each once and in the order it writes them: whatever was        *)
(* focused or tagged by earlier files, and however often tests were tried. *)
(***************************************************************************)
THEOREM SelectionIsTheFiles == Spec => []SelectionFollowsFile
  <1>1. RunnerInv /\ SelectionInv => SelectionFollowsFile
    <2> SUFFICES ASSUME RunnerInv, SelectionInv, phase = "tests", run.tests = <<>>
                 PROVE  Ran = SelectedByFile
      BY DEF SelectionFollowsFile, Ran
    <2>1. Ran \o <<>> = SelectedByFile
      BY DEF SelectionInv, Ran
    <2>2. Ran \in Seq(Tests)
      BY RanType DEF RunnerInv
    <2>3. QED
      BY <2>1, <2>2, ConcatEmptySeq
  <1>2. RunnerInv /\ SelectionInv /\ [Next]_vars => SelectionInv'
    BY SelectionStep DEF RunnerInv
  <1>3. QED
    BY <1>1, <1>2, SelectionInit, RunnerAlways, PTL DEF Spec
===============================================================================
