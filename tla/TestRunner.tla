----------------------------- MODULE TestRunner -----------------------------
(***************************************************************************)
(* `nexl test': the thread-local registries of nexl-stdlib/src/test.rs,     *)
(* the macros of nexl-stdlib/nexl/test.nx that fill them while a test file  *)
(* is evaluated, and command_test, which drains and runs them, file after  *)
(* file in one process (nexl-cli/src/main.rs).                              *)
(*                                                                         *)
(* A file is any sequence of at most MaxForms forms, chosen while it is    *)
(* evaluated; what a test body, a hook or a check does is chosen when it   *)
(* runs.  Evaluation of plain (not module) files is modelled.               *)
(***************************************************************************)
EXTENDS Naturals, Sequences, SequencesExt, FiniteSets, Sublists

CONSTANTS
    Files,      \* the *_test.nx files of tests/, in the order of their paths
    Labels,     \* labels of describe
    Names,      \* names given to deftest
    Tags,       \* tags of deftest
    Seeds,      \* seeds of property tests
    Retries,    \* N of :flaky N
    Args,       \* command lines: --filter, --tags (empty when not given), --no-fail-fast
    MaxForms,   \* bound: forms of a file
    MaxTests,   \* bound: tests of a file
    MaxSeeds    \* bound: failing checks in the run of a file

ASSUME RunnerAssumption ==
    /\ {MaxForms, MaxTests, MaxSeeds, Retries} \subseteq Nat
    /\ Files \in Seq(STRING) /\ Files # <<>>
    /\ Args \subseteq [filter : SUBSET (Names \cup Labels), tags : SUBSET Tags,
                       noFailFast : BOOLEAN]

VARIABLES
    phase,      \* what the process is doing; "none" when there is none
    args,       \* the command line
    rest,       \* files still to run; the first one is current
    scopes,     \* evaluation: the open describe forms and their let-bound depths
    registry,   \* the thread-locals of test.rs
    run,        \* the locals of command_test: tests, flaky map, hooks, counts
    allPassed,  \* all_passed of the command
    verdict,    \* exit status of the last command that ended
    disk,       \* tests/.test-seeds; empty when there is no file
    declared,   \* (history) what the current file has registered, in order
    trace,      \* (history) hooks and tests run for the current file, in order
    failedHere, \* (history) seeds that failed in the run of the current file
    broken      \* (history) "no", "run" or "eval": the worst of the process so far

vars == <<phase, args, rest, scopes, registry, run, allPassed, verdict, disk,
          declared, trace, failedHere, broken>>

---------------------------------------------------------------------------
\* Data.  A test's full name is its describe labels with its own name.

Metas == {"plain", "skip", "focus", "flaky"} \cup Tags
FullName(t) == <<t.labels, t.name>>


\* Maps from full names, as sets of pairs with one pair per name: insert.
Insert(map, key, val) == {p \in map : p[1] # key} \cup {<<key, val>>}

\* The registries of a process that has just started.
EmptyRegistry ==
    [tests |-> <<>>, describe |-> <<>>, focus |-> {}, tags |-> {}, flaky |-> {},
     setup |-> <<>>, teardown |-> <<>>, setupAll |-> <<>>, teardownAll |-> <<>>,
     failedSeeds |-> <<>>, overrides |-> <<>>]

NoRun == [tests |-> <<>>, flaky |-> {}, tries |-> 0, setupAll |-> <<>>,
          teardownAll |-> <<>>, results |-> <<>>]

PartialRegistryClear(r) ==
    [EmptyRegistry EXCEPT !.describe = r.describe, !.focus = r.focus, !.tags = r.tags,
                          !.teardownAll = r.teardownAll]

ForgetfulRegistryClear(r) ==
    [EmptyRegistry EXCEPT !.describe = r.describe, !.focus = r.focus, !.tags = r.tags,
                          !.failedSeeds = r.failedSeeds]

\* registry_clear leaves the describe labels, the focused names and the tags.
registry_clear(r) ==
    [EmptyRegistry EXCEPT !.describe = r.describe, !.focus = r.focus, !.tags = r.tags]

FocusKeepingPrepared(r) ==
    [registry_clear(r) EXCEPT !.tags = {}, !.overrides = disk]

\* command_test before it evaluates: all cleared but the describe labels, and
\* the seeds of the file beside the test file put in for replay.
Prepared(r) ==
    [registry_clear(r) EXCEPT !.focus = {}, !.tags = {}, !.overrides = disk]

Evaluating == phase = "eval" /\ Len(declared) < MaxForms
File == Head(rest)
Here == [i \in DOMAIN scopes |-> scopes[i].at]
ScopeLabels == [i \in DOMAIN scopes |-> scopes[i].label]

\* A hook or a test, with the place in the file it was written at.
Written(kind) == [file |-> File, kind |-> kind, path |-> Here, at |-> Len(declared) + 1]

---------------------------------------------------------------------------
Init ==
    /\ phase = "none" /\ args \in Args /\ rest = <<>> /\ scopes = <<>>
    /\ registry = EmptyRegistry /\ run = NoRun
    /\ allPassed = TRUE /\ verdict = "none" /\ disk = <<>>
    /\ declared = <<>> /\ trace = <<>> /\ failedHere = {} /\ broken = "no"

\* Every file of tests/, or the one file named on the command line.
StartCommand ==
    /\ phase = "none"
    /\ \E inputs \in {Files} \cup {<<f>> : f \in ToSet(Files)}, a \in Args :
          rest' = inputs /\ args' = a
    /\ phase' = "next" /\ allPassed' = TRUE /\ verdict' = "none" /\ broken' = "no"
    /\ UNCHANGED <<scopes, registry, run, disk, declared, trace, failedHere>>

BeginFile ==
    /\ phase = "next" /\ rest # <<>>
    /\ phase' = "eval" /\ scopes' = <<>> /\ run' = NoRun
    /\ registry' = Prepared(registry)
    /\ declared' = <<>> /\ trace' = <<>> /\ failedHere' = {}
    /\ UNCHANGED <<args, rest, allPassed, verdict, disk, broken>>

LastNextFile(passed) ==
    /\ phase' = "next"
    /\ allPassed' = passed
    /\ rest' = IF passed \/ args.noFailFast THEN Tail(rest) ELSE <<>>

\* The file is done: the next one, or none after a failure unless told otherwise.
NextFile(passed) ==
    /\ phase' = "next"
    /\ allPassed' = (allPassed /\ passed)
    /\ rest' = IF passed \/ args.noFailFast THEN Tail(rest) ELSE <<>>

---------------------------------------------------------------------------
\* User code: it may run a check, which takes all the seeds to replay, and it
\* may fail; a check that fails leaves its seed in the registry, also when what
\* it raises is caught (`try', `throws?').

Outcomes ==
    {o \in [ok : BOOLEAN, checks : BOOLEAN, seeds : {<<>>} \cup {<<s>> : s \in Seeds}] :
        o.seeds # <<>> => o.checks}

After(r, o) ==
    [r EXCEPT !.overrides = IF o.checks THEN <<>> ELSE @,
              !.failedSeeds = @ \o o.seeds]

Perform(o) ==
    /\ Len(registry.failedSeeds \o o.seeds) <= MaxSeeds
    /\ registry' = After(registry, o)
    /\ failedHere' = failedHere \cup ToSet(o.seeds)

---------------------------------------------------------------------------
\* Evaluation: the forms of test.nx, one primitive call after the other.

EvalFrame == <<args, rest, run, allPassed, verdict, disk, trace, failedHere>>

Declare(d) == declared' = Append(declared, d)

\* describe remembers how deep both hook stacks are ...
Describe(label) ==
    /\ Evaluating
    /\ Declare(Written("describe"))
    /\ scopes' = Append(scopes, [label |-> label, at |-> Len(declared) + 1,
                                 setup |-> Len(registry.setup),
                                 teardown |-> Len(registry.teardown)])
    /\ registry' = [registry EXCEPT !.describe = Append(@, label)]
    /\ UNCHANGED <<EvalFrame, phase, broken>>

HookKeepingEndDescribe ==
    /\ phase = "eval" /\ scopes # <<>>
    /\ scopes' = Front(scopes)
    /\ registry' = [registry EXCEPT
          !.setup = SubSeq(@, 1, Last(scopes).setup),
          !.describe = Front(@)]
    /\ UNCHANGED <<EvalFrame, phase, broken, declared>>

\* ... and pops them back to that depth after its body, and then its label.
EndDescribe ==
    /\ phase = "eval" /\ scopes # <<>>
    /\ scopes' = Front(scopes)
    /\ registry' = [registry EXCEPT
          !.setup = SubSeq(@, 1, Last(scopes).setup),
          !.teardown = SubSeq(@, 1, Last(scopes).teardown),
          !.describe = Front(@)]
    /\ UNCHANGED <<EvalFrame, phase, broken, declared>>

RegisterHook(kind) ==
    /\ Evaluating
    /\ Declare(Written(kind))
    /\ registry' = [registry EXCEPT ![kind] = Append(@, Written(kind))]
    /\ UNCHANGED <<EvalFrame, phase, broken, scopes>>

Setup == RegisterHook("setup")
Teardown == RegisterHook("teardown")
SetupAll == RegisterHook("setupAll")
TeardownAll == RegisterHook("teardownAll")

\* describe_prefix: the labels on the describe stack, whoever pushed them.
Prefixed(name) == [labels |-> registry.describe, name |-> name]

\* deftest captures its full name and the hooks in force.  The thunk of a skipped
\* test runs no hooks.
WrittenTest(name, meta) ==
    [file |-> File, kind |-> "test", path |-> Here, at |-> Len(declared) + 1,
     scope |-> ScopeLabels, meta |-> meta,
     labels |-> Prefixed(name).labels, name |-> name,
     setups |-> IF meta = "skip" THEN <<>> ELSE registry.setup,
     teardowns |-> IF meta = "skip" THEN <<>> ELSE Reverse(registry.teardown)]

\* It registers the thunk, and then what its metadata says.
Deftest(name, meta) ==
    LET full == FullName(Prefixed(name)) IN
        /\ Evaluating
        /\ Len(registry.tests) < MaxTests
        /\ Declare(WrittenTest(name, meta))
        /\ registry' = [registry EXCEPT
              !.tests = Append(@, WrittenTest(name, meta)),
              !.focus = IF meta = "focus" THEN @ \cup {full} ELSE @,
              !.tags  = IF meta \in Tags THEN Insert(@, full, {meta}) ELSE @,
              !.flaky = IF meta = "flaky" THEN Insert(@, full, Retries) ELSE @]
        /\ UNCHANGED <<EvalFrame, phase, broken, scopes>>

\* A top-level form that checks a property, and does not fail.
TopLevelCheck ==
    /\ phase = "eval"
    /\ \E o \in Outcomes :
          /\ o.ok /\ o.checks /\ Perform(o)
          /\ registry.overrides # <<>> \/ o.seeds # <<>>
    /\ UNCHANGED <<args, rest, run, allPassed, verdict, disk, trace, phase, broken, scopes, declared>>

\* The file cannot be read or parsed, or a form fails: command_test returns Err
\* at once.  The open describe forms are gone, their labels are not.
EvalFails ==
    /\ phase = "eval"
    /\ \E o \in Outcomes : ~o.ok /\ Perform(o)
    /\ NextFile(FALSE)
    /\ broken' = "eval" /\ scopes' = <<>> /\ declared' = <<>>
    /\ UNCHANGED <<args, run, verdict, disk, trace>>

---------------------------------------------------------------------------
\* Running: drain the registries, select, and run hooks and tests.

\* Focus before tags before the name filter.
Selected(t, focus, tags) ==
    IF focus # {} THEN FullName(t) \in focus
    ELSE IF args.tags # {} THEN \E p \in tags : p[1] = FullName(t) /\ args.tags \subseteq p[2]
    ELSE args.filter \subseteq {t.name} \cup ToSet(t.labels)

EvalEnds ==
    /\ phase = "eval" /\ scopes = <<>>
    /\ phase' = "setup-all"
    /\ run' = [NoRun EXCEPT
          !.tests = Filter(registry.tests,
                        LAMBDA t : Selected(t, registry.focus, registry.tags)),
          !.flaky = registry.flaky, !.setupAll = registry.setupAll]
    /\ registry' = [registry EXCEPT !.tests = <<>>, !.focus = {}, !.tags = {},
                                    !.flaky = {}, !.setupAll = <<>>]
    /\ UNCHANGED <<args, rest, scopes, allPassed, verdict, disk, declared, trace, failedHere, broken>>

Traced(what, ok) == [what |-> what, ok |-> ok]

\* A setup-all hook that fails ends the file before teardown-all is drained.
RunSetupAll ==
    /\ phase = "setup-all" /\ run.setupAll # <<>>
    /\ \E o \in Outcomes :
          /\ Perform(o)
          /\ trace' = Append(trace, Traced(Head(run.setupAll), o.ok))
          /\ run' = [run EXCEPT !.setupAll = Tail(@)]
          /\ IF o.ok THEN UNCHANGED <<phase, allPassed, rest, broken>>
             ELSE NextFile(FALSE) /\ broken' = IF broken = "no" THEN "run" ELSE broken
    /\ UNCHANGED <<args, scopes, verdict, disk, declared>>

RetriesOf(t) == IF \E p \in run.flaky : p[1] = FullName(t)
                THEN (CHOOSE p \in run.flaky : p[1] = FullName(t))[2] ELSE 0

GenerousCanRetry(t) == run.tries <= RetriesOf(t)

CanRetry(t) == run.tries < RetriesOf(t)

SetupAllDone ==
    /\ phase = "setup-all" /\ run.setupAll = <<>>
    /\ phase' = "tests"
    /\ run' = [run EXCEPT !.teardownAll = registry.teardownAll]
    /\ registry' = [registry EXCEPT !.teardownAll = <<>>]
    /\ UNCHANGED <<args, rest, scopes, allPassed, verdict, disk, declared, trace, failedHere, broken>>

\* The thunk of a test: its setup hooks, its body, its teardown hooks from the
\* innermost on.  Whatever fails ends it.
Thunk(t) == t.setups \o <<t>> \o t.teardowns

Counted(t, status) ==
    [run EXCEPT !.tests = Tail(@), !.tries = 0, !.results = Append(@, [test |-> t, status |-> status])]

RunTest ==
    LET t == Head(run.tests) IN
    /\ phase = "tests" /\ run.tests # <<>>
    /\ \/ /\ t.meta = "skip"
          /\ run' = Counted(t, "skipped")
          /\ trace' = Append(trace, Traced(t, TRUE))
          /\ UNCHANGED <<registry, failedHere, broken>>
       \/ /\ t.meta # "skip"
          /\ \E o \in Outcomes : o.ok
                /\ Perform(o)
                /\ run' = Counted(t, "passed")
                /\ trace' = trace \o [i \in 1..Len(Thunk(t)) |-> Traced(Thunk(t)[i], TRUE)]
          /\ UNCHANGED broken
       \/ /\ t.meta # "skip"
          /\ \E o \in Outcomes, last \in 1..Len(Thunk(t)) : ~o.ok
                /\ Perform(o)
                /\ trace' = trace \o [i \in 1..last |-> Traced(Thunk(t)[i], i < last)]
          /\ IF CanRetry(t)
             THEN run' = [run EXCEPT !.tries = @ + 1] /\ UNCHANGED broken
             ELSE /\ run' = Counted(t, "failed")
                  /\ broken' = IF broken = "no" THEN "run" ELSE broken
    /\ UNCHANGED <<phase, args, rest, scopes, allPassed, verdict, disk, declared>>

\* What a teardown-all hook answers is ignored.
RunTeardownAll ==
    /\ phase = "tests" /\ run.tests = <<>> /\ run.teardownAll # <<>>
    /\ \E o \in Outcomes :
          /\ Perform(o)
          /\ trace' = Append(trace, Traced(Head(run.teardownAll), o.ok))
    /\ run' = [run EXCEPT !.teardownAll = Tail(@)]
    /\ UNCHANGED <<phase, args, rest, scopes, allPassed, verdict, disk, declared, broken>>

\* .test-seeds gets the seeds of this file, or is removed; either may fail.
EndFile ==
    /\ phase = "tests" /\ run.tests = <<>> /\ run.teardownAll = <<>>
    /\ disk' \in {disk, registry.failedSeeds}
    /\ registry' = [registry EXCEPT !.failedSeeds = <<>>]
    /\ NextFile(\A i \in DOMAIN run.results : run.results[i].status # "failed")
    /\ run' = NoRun /\ declared' = <<>> /\ trace' = <<>> /\ failedHere' = {}
    /\ UNCHANGED <<args, scopes, verdict, broken>>

\* The registries go with the process; only .test-seeds is left.
ProcessGone ==
    /\ phase' = "none" /\ rest' = <<>> /\ scopes' = <<>>
    /\ registry' = EmptyRegistry /\ run' = NoRun
    /\ declared' = <<>> /\ trace' = <<>> /\ failedHere' = {}

EndCommand ==
    /\ phase = "next" /\ rest = <<>>
    /\ verdict' = IF allPassed THEN "ok" ELSE "failed"
    /\ ProcessGone
    /\ UNCHANGED <<args, allPassed, disk, broken>>

\* The process is killed.
Kill ==
    /\ phase # "none"
    /\ verdict' = "none" /\ broken' = "no"
    /\ ProcessGone
    /\ UNCHANGED <<args, allPassed, disk>>

Next ==
    \/ StartCommand \/ BeginFile
    \/ \E l \in Labels : Describe(l)
    \/ EndDescribe \/ Setup \/ Teardown \/ SetupAll \/ TeardownAll
    \/ \E n \in Names, m \in Metas : Deftest(n, m)
    \/ TopLevelCheck \/ EvalFails \/ EvalEnds
    \/ RunSetupAll \/ SetupAllDone \/ RunTest \/ RunTeardownAll \/ EndFile
    \/ EndCommand \/ Kill

Spec == Init /\ [][Next]_vars

---------------------------------------------------------------------------
\* Properties.

Hooks == [file : ToSet(Files), kind : {"setup", "teardown", "setupAll", "teardownAll"},
          path : Seq(Nat), at : Nat]

\* The registries, the locals of the command and .test-seeds keep their types;
\* no test is retried more often than its :flaky says.
TypeOK ==
    /\ phase \in {"none", "next", "eval", "setup-all", "tests"}
    /\ args \in Args
    /\ rest \in Seq(ToSet(Files))
    /\ verdict \in {"none", "ok", "failed"} /\ allPassed \in BOOLEAN
    /\ \A k \in {"setup", "teardown", "setupAll", "teardownAll"} : registry[k] \in Seq(Hooks)
    /\ {registry.failedSeeds, registry.overrides, disk} \subseteq Seq(Seeds)
    /\ registry.describe \in Seq(Labels)
    /\ run.tests # <<>> => run.tries <= RetriesOf(Head(run.tests))
    /\ phase = "eval" => ToSet(registry.tests) \subseteq ToSet(declared)

DeclaredOf(kind) == Filter(declared, LAMBDA d : d.kind = kind)

\* A test runs with the setup and teardown hooks of the describe forms around
\* it that are written before it, outermost setup first and innermost teardown
\* first, and with no others: hooks are "automatically cleaned up when the
\* block exits" (test.nx, describe), whatever ran or failed before.
HooksFollowScopes ==
    \A t \in ToSet(DeclaredOf("test")) : t.meta # "skip" =>
        LET InForce(kind) == Filter(declared, LAMBDA h :
                                h.kind = kind /\ IsPrefix(h.path, t.path) /\ h.at < t.at)
        IN  /\ t.setups = InForce("setup")
            /\ t.teardowns = Reverse(InForce("teardown"))

\* A test's full name is the labels of the describe forms around it and its own
\* name, as long as no earlier file of the process broke off in its evaluation:
\* then labels it left may come first (registry_clear does not clear them).
NamesTellScope ==
    \A t \in ToSet(DeclaredOf("test")) :
        /\ IsSuffix(t.scope, t.labels)
        /\ broken # "eval" => t.labels = t.scope

\* What is in force for a test is what the describe forms around it say.
TestsFollowScopes == HooksFollowScopes /\ NamesTellScope

\* Whatever hook or test is executed for a file was registered by that file in
\* this process, even after a file that ended early.
OnlyThisFile == \A i \in DOMAIN trace : trace[i].what \in ToSet(declared)

\* A test is attempted only after every setup-all hook of the file and of the
\* describe forms around the test has succeeded, and a teardown-all hook runs
\* after the tests of its describe form, once.  This much test.nx and the code
\* agree on; the code runs these hooks around all other tests of the file too.
HooksAroundTheirTests ==
    LET At(kind) == {i \in DOMAIN trace : trace[i].what.kind = kind}
        Around(h, t) == IsPrefix(h.path, t.path)
    IN  /\ \A i \in At("test"), h \in ToSet(DeclaredOf("setupAll")) :
              Around(h, trace[i].what) => \E j \in At("setupAll") : j < i /\ trace[j] = Traced(h, TRUE)
        /\ \A i \in At("teardownAll"), j \in At("test") :
              Around(trace[i].what, trace[j].what) => j < i
        /\ \A i, j \in At("teardownAll") : trace[i].what = trace[j].what => i = j

\* A file is run with its own hooks and tests, the hooks for all tests of a
\* describe form around these tests.
FilesRunAlone == OnlyThisFile /\ HooksAroundTheirTests

\* The names the file focuses, and each name it tags with the tag it gave last.
FocusDeclared ==
    {FullName(t) : t \in {u \in ToSet(declared) : u.kind = "test" /\ u.meta = "focus"}}

TagsDeclared ==
    LET tagged == {t \in ToSet(declared) : t.kind = "test" /\ t.meta \in Tags}
    IN  {<<FullName(t), {t.meta}>> :
            t \in {u \in tagged :
                     \A v \in tagged : FullName(v) = FullName(u) => v.at <= u.at}}

SelectedByFile ==
    Filter(declared, LAMBDA d :
        d.kind = "test" /\ Selected(d, FocusDeclared, TagsDeclared))

\* When the hooks after the tests are due, the tests that have a result are
\* those the file itself selects, each once and in the order they are written:
\* its focused names if it has any, else those with the tag asked for, else
\* those the filter matches.
SelectionFollowsFile ==
    phase = "tests" /\ run.tests = <<>> =>
        [i \in DOMAIN run.results |-> run.results[i].test] = SelectedByFile

\* The command exits with success only if no file broke off, no setup-all hook
\* failed and every test's last attempt succeeded, in all of its files.
VerdictHonest == verdict = "ok" => broken = "no"

\* .test-seeds only ever receives the seeds of checks that failed in the run of
\* the file that was just run, not those an earlier file left in the registry.
SeedsAreOwn == [][disk' # disk => ToSet(disk') = failedHere]_vars

=============================================================================
