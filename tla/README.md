# Nexl in TLA+

Nexl is a Lisp with static types, effects and several back ends, written in
Rust (`src/crates/*`). This directory holds TLA+ models of the parts of it whose
correctness depends on control flow, on interleavings and on crashes, the TLC
configurations that check them, and proofs that TLAPS checks.

## 1. The system

| part (crates) | state it keeps | operations | what is hard | what makes it correct |
|---|---|---|---|---|
| evaluator (`nexl-eval`) | the Rust call stack, a thread-local call depth, loop frames passed by reference | one function per special form | three ways out of every form (value, recur, error), callbacks through natives | depth exact on every way out; loop states live; errors stop only where caught |
| environments, values (`nexl-eval`, `nexl-runtime`) | scopes, module frame | define, lookup, closures | mutual recursion through the module frame | lexical scoping |
| functions host (`nexl-cli/functions.rs`, `nexl-runtime/sandbox.rs`) | the registry file, the log, a thread-local sandbox policy | deploy, invoke, serve | unlocked file shared by processes, crash between any two steps, blocking reads | sandbox, logging, no lost deploys, everyone served |
| definition store (`nexl-pkg`) | a redb database of three tables | put, record expansion, invalidate, plan | transactions that belong together, crashes, stale entries | nothing stale is reused; builds converge |
| manifest and lockfile (`nexl-pkg`) | `project.nx`, lock | parse, resolve | - | resolution is deterministic |
| module loader (`nexl-cli/main.rs`, `nexl-modules`, `nexl-eval/modules.rs`) | queue, seen set, graph | discover, sort, evaluate | cycles, repeated imports, names that disagree with files | each file once, dependencies first, one order |
| name resolver (`nexl-modules/resolver.rs`) | scopes | resolve | ambiguity of imports | a name means one definition |
| type inference (`nexl-infer`, `nexl-types`) | substitution, environments, effect scopes, loop and return types, recorded errors | one function per form; unify, generalise, instantiate | state scoped by hand around bodies that may fail, recovery from errors, a limit on errors | scopes are put back, no error is lost; principal types |
| effects (`nexl-effects`) | registry, executor queue | declare, handle, run | ordering of async tasks | handlers see declared operations |
| reader (`nexl-reader`), syntax tree and printer (`nexl-ast`) | tokens, position, call stack; nodes with comments | lex, read; print | comments, prefixes and discards around forms; one layout per form and per width | nothing that was read is lost; what is printed is read back |
| macro expander (`nexl-macros`) | registry of macros, bindings and fresh names of one expansion | define, match, instantiate, expand again | results that are expanded again, nested templates, names made up | nothing left unexpanded, meaning of the built-in macros, hygiene |
| IR, optimizer (`nexl-ir`) | functions as blocks of bindings | lower, inline, fold, remove dead code, specialise | substitution without renaming, each pass relying on the last | each pass preserves the meaning |
| memory (`nexl-memory`) | reference counts | dup, drop, reuse | balance on every path | every object freed once |
| native and wasm back ends (`nexl-native`, `nexl-wasm`) | locals, function indices, loop targets | emit | assignments one after the other, constructs without support | a compiled program computes what `nexl run` computes, or is refused |
| standard library (`nexl-stdlib`) | handle tables: channels, processes, databases, tests | create, use, close | capacity, use after close | handles do not dangle |
| test runner (`nexl-cli/main.rs`, `nexl-stdlib/src/test.rs`, `test.nx`) | thread-local registries of tests, hooks, labels, focus, tags, seeds; the results; `.test-seeds` | describe, deftest, hooks, check; drain, select, run | registries shared by the files of one process, forms and hooks that fail anywhere | the right hooks around the right tests, an honest verdict |
| command line (`nexl-cli`) | - | one function per command | - | - |
| REPL protocol, language server (`nexl-cli/repl_protocol.rs`, `nexl-lsp`) | sessions; open documents | eval, reset; open, change, close | concurrent handlers | the last diagnostics fit the last text |

The parts interact by calls: the command line expands the macros of a program's
sources, loads its modules (module loader), which evaluates their forms (evaluator) with the standard library as natives;
natives call functions of the program back (`call_value`, `apply_value`). The
functions host runs the evaluator under a sandbox policy that some natives consult.
`nexl check`, the REPL and the language server each drive type inference.
`nexl build` lowers a source to IR, optimizes it and hands it to a back end. The
test runner evaluates test files and runs what they registered. The
definition store is the part of the incremental compiler that exists so far.

`PROJECT.json` lists every part, what is modelled of it, the source lines each
definition stands for, and under `hazards` the places where this code can go
wrong in ways a unit test hardly reaches.

## 2. The modules

### Evaluator (`Evaluator.tla`)

`eval.rs` is a family of mutually recursive functions that return `Ok(Value)`,
`Ok(Recur)` or `Err`. The model makes the Rust stack explicit: `stack` has one
frame per form that waits for a subexpression, and the frame records *where* in
the form that subexpression stands (`at`): `"test"`, `"args"`, `"each_body"` ...
That position alone decides which `loop_state` the subexpression gets
(`FrameFor`), what becomes of a `Recur` out of it (`ForwardsRecur`,
`RejectsRecur`, and otherwise `InvalidRecur`) and of an error
(`CatchesEarly`, `WrapsError`, and otherwise propagated). `ctl` is what is going
on: an expression is about to be evaluated, or a value, a recur (`jump`) or an
error (`err`) is being handed back. `depth` is the thread-local `CALL_DEPTH`.

There is an action per special form (`EvalLet`, `EvalLoop`, `EvalHandle`, ...),
put together from a few primitives (`Begin`, `Then`, `Return`, `Fail`,
`GuardEnter`). The program is arbitrary: wherever an expression is evaluated any
form may stand, and a value is whatever lets one of the next guards pass.
Environments, patterns and values are abstracted.

*Properties.* `CallDepthBalanced`: `CALL_DEPTH` equals the number of forms in a
guarded scope, so no way out leaks a level. `LoopStateLive`: the loop state of
every waiting form refers to a `loop` still waiting for its body.
`RecurReachesItsLoop`: a recur on its way out finds that loop, with as many
values as it binds, through positions that forward it. `ErrorsStopOnlyWhereCaught`:
a step ends an error only in a native that inspects its callback, or ends an
EarlyReturn at a function boundary or `try`.

One statement of the language specification that does not hold of the code has a
run: `RecurStaysInFunction` (`eval_apply` evaluates a body with its *caller's*
loop state, so a recur can leave the function it is in). Another shows in the
model and has no run: `each` and handler expressions wrap an early return of `?`
into an ordinary error (`WrapsError`), where nexl-spec.md:2903 says that the
function returns it.

### Functions host (`FunctionRegistry.tla`, `FunctionsHost.tla`)

`FunctionRegistry` is the file `.nexl-functions/registry.json` and the processes
that deploy: load (an unreadable file is an empty registry), change the copy,
truncate, write, acknowledge, or be killed anywhere. Writes that overlap
overwrite each other's bytes (`Overwrites`). `FunctionsHost` adds the server
(`nexl functions serve`), processes that invoke one function by name, the
clients, the thread-local sandbox policy and the log. An operation a function
performs (`PerformEffect`) has what it does and what it asks the policy for, which
are not the same for all natives; `Guarded` are those that ask for everything they
do. A client that has sent its request may or may not take its answer, and until it
does (`ClientTakes`) the server is in a blocking write.

*Properties.* `TypeOK` says that no registry names a function twice;
`UndisturbedDeploysSurvive`: a deploy that was
acknowledged, and that no other deploy overlapped and no failed write or crash
disturbed, is in the registry; `EffectsWithinCapability`: what an operation asks for
is granted by the level of the function itself, whatever ran in the process before,
so that a guarded operation does nothing the level forbids (one that is not guarded
does, see section 3);
`AnswersAreLogged`: an answer of a function was logged before the client got it
(or the log could not be written); `RequestsAnswered`: unless somebody stalls
the server for good, every request sent is answered or dropped.

### Definition store (`DefinitionStore.tla`)

The three tables of the redb database, each method as its one or two
transactions, and a compiler that uses the store as its tests do: invalidate
edited macros, plan, put each definition, record its macros. `Crash` may come
between any two transactions. A hash identifies the text of a definition and
nothing else, as `hash_definition` does.

*Properties.* `NoStaleExpansion`: no stored artifact was expanded with a macro
body that has since been replaced and invalidated; the entries a crash left
without their expansion records (`orphans`, a history variable) are the
exception, and a real one. `BuildConverges`: when a build is finished every
definition is valid, although the plan was computed before the puts. The
specification's "cold build equals warm build" does not hold
(`WarmBuildEqualsColdBuild`): `is_valid` asks whether the dependencies' *old*
hashes are still stored, and they are never removed.

### Module loader (`ModuleLoader.tla`, `ProgramLoad.tla`)

Breadth-first discovery from the entry file, the graph, `topo_sort` and
`eval_modules`. A file is found by the name an import gives it and goes by the
name its `module` form declares from then on; nothing makes the two agree, and
the model has files that disagree. Module names are numbers because `topo_sort`
takes the least ready name.

`ProgramLoad` is the promise without queue, graph or order: a program is well
formed when its files are there, declare different names, import declared ones
and import each other without a cycle; a well-formed program is never rejected,
a module is evaluated once and after its imports, any other program is rejected
before anything of it is evaluated, nothing follows a module that fails, and
loading ends (`WF_vars(Next)`). A program whose macros do not expand is rejected too
(`MacroFails`), once all of its files are there and before any is evaluated.

*Properties.* `OrderIsLeast` (the order is the least of all topological orders, so no hash
map's iteration order shows); `ImplementsProgramLoad`: with `Status` read off
the phase and the failure, the loader implements `ProgramLoad`, liveness
included. A file found under one name that declares another is reported as a
circular dependency where there is none; `ProgramLoad` only asks that such a
program be rejected.

### Type inference (`Inference.tla`)

`synth` and its relatives thread one `InferState` through a program. Four of its
fields are scoped by hand: `recur_types` is replaced around a loop's body,
`return_type_stack` and `effect_stack` are pushed around the bodies of functions
and handlers, and `errors` is counted against a limit. The model has the Rust
stack explicit, as `Evaluator` has: a frame says where in its form the part
being inferred stands; an entry of a field is the height of the frame that made
it. `RecoverError` is what `let`, `do`, `defn` and others do with an error of a
part (`push_error` and a fresh type), `PropagateError` what the others do. The
three drivers, `nexl check`, the REPL (one state for all inputs) and the
language server, decide what the user hears: the language server drops a deftype
that does not parse (`RegisterDeftype`) and, when an unbound variable is recorded,
everything but malformed forms (`Shown`).

*Properties.* `ContextFollowsForms`: the types of recur and the return types are
exactly what the loops and functions being inferred say, also after errors.
`EffectScopesAccounted`: scopes and bodies agree, except for one scope for each
`handle` whose body ended in an error (`abandoned`, a history variable): there
the code returns before it pops, and from then on effects outside of any function
body are collected, which infer.rs:86 says are not.
`ErrorNeverAccepted`: a source with an error somewhere is not accepted, whatever
was recovered from or dropped by the limit, except for what the language server
drops: a source whose only errors are deftypes, or one with an unbound variable and
nothing malformed that was recorded.

### Compiler (`IR`, `Lowering`, `Optimizer`, `Backends`, `Compiler`)

`nexl build` (main.rs `command_build`) lowers a source, optimizes it unless told
not to, and emits WebAssembly or native code; it neither checks types nor
expands macros. `IR` has the blocks, bindings, tails and functions of
`nexl-ir/src/lib.rs` and two interpreters, of sources and of IR. `Lowering`,
`Optimizer` (`inline_calls`, `fold_constants`, `eliminate_dead_code`,
`specialize`) translate the passes of the same names function by function;
`Backends` says what the emitter and the native compiler make of each construct:
which they refuse, which traps, in which order loop variables are assigned, what
index a call gets. Native code computes on words (`Null`, `Word`): a constructor and
a match are zero, a function as a value is its number, a closure the address of an
object without code, and a call of any of these is a jump to nowhere (`Trap`). `Compiler` is the pipeline as a state machine, one action per
pass.

*Properties.* `MeaningPreserved`: what the source evaluates to, the module
evaluates to at every stage, as long as its variables are bound. `OnlyInliningUnbinds`:
no pass but inlining leaves a variable without a binding. `EmittedIsRight`: what
the emitter accepts computes the source's value; three kinds of program are
excluded, by name, because the code compiles them wrongly (see below).
`NativeNeverWrong`: native code computes that value or traps, in a module that has no
construct the backend leaves to a placeholder (`NativeComplete`).

### Macro expander (`Expander.tla`, `MacroMeaning.tla`)

`Expander` is `expand.rs` on trees: the four kinds of definition, patterns,
templates with unquote and splice, fresh names, the built-in macros, and the
expander a command carries through all sources of a program, one form per step.
A name is a pair of what is written and the counter of `gensym`. A symbol also
has a mark, the expansion whose template wrote it; the code has none, no
definition decides by it, and it is what hygiene is judged by. `MaxDepth` stands
for the Rust stack: the code has no limit on expansions of expansions, and a
macro that expands to itself ends as `overflow`.

`MacroMeaning` evaluates a tree in a world, which gives every global its kind
and every function the kind of its results. Calls are recorded in order. A
variable is looked up by spelling, as the evaluator does, or by spelling and
mark.

*Properties.* `FullyExpanded`: no definition and no call of a known macro is left
in what a form expanded to. `BuiltinsKeepTheirMeaning`: the expansion of
built-in macros computes what their forms promise, with the same calls in the
same order; for `and`, `or` and `cond` the promise is the evaluator's own special
form, which evaluates code that was not expanded. `NoCapture`: spelling alone
means the same as perfect hygiene, *under four conditions* the code needs and the
documentation does not mention: templates bind only fresh names
(`TemplatesBindFresh`), the program does not shadow a global a template means
(`GlobalsUnshadowed`), no template hands its fresh name to another macro that
makes some (`FreshNamesStay`), and no threading chain is a step of another
(`ChainsUnthreaded`). Without any one of them the run fails.

### Test runner (`TestRunner.tla`, `Sublists.tla`)

One process of `nexl test` after the other over the same files. `registry` is
the thread-locals of `nexl-stdlib/src/test.rs` as one record, `run` the locals of
`command_test`, `disk` the content of `.test-seeds`. While a file is evaluated
any of its forms may come next (`Describe`, `EndDescribe`, `Setup`, `Deftest`,
... as the macros of `test.nx` expand to calls of the registry); then the
registries are drained and `RunSetupAll`, `RunTest`, `RunTeardownAll` run what
was drained. User code ends in `Outcomes`: whether it fails, runs a check, and
leaves a failing seed. `Sublists`, which the functions host uses as well, filters
a sequence by positions. `Kill` may come at any step. `declared`, `trace`,
`failedHere` and `broken` are history: what the file wrote, what ran, which seeds
failed in it, and whether an earlier file broke off.

*Properties.* `TestsFollowScopes`: a test gets exactly the hooks of the describe
forms around it that are written before it, and the labels around it as its full
name, unless an earlier file broke off. `FilesRunAlone`: nothing of one file runs
in the next, no test runs before the setup-all hooks around it have succeeded, and a
teardown-all hook runs once at most, behind all tests of its describe form. (The code
runs both around the whole file, see section 3; the property holds of either.)
`SelectionFollowsFile`
(focus before tags before filter, over this file's tests), `VerdictHonest`
(exit status 0 only if nothing failed), `SeedsAreOwn` (`.test-seeds` receives
this file's seeds).

### Reader and formatter (`Reader`, `Printer`, `Formatter`)

`Reader` is `lexer.rs` and `reader.rs` on lexemes: a text is a sequence of
brackets, prefixes, spellings, spaces, newlines and comment signs. `lex_token`
groups them (a name runs on into a name, `~` takes an `@`, a comment takes its
line); `stack` has the calls under way, a frame for each sequence of forms, for
each prefix, for each form and for each chain of `#_` that waits, and the actions
are the branches the recursive descent takes. A form that ends completes what waits
for it, so one step may return from several calls: these returns are folds, and
`tokenize` is a recursive function on positions, so that the module can be proved
about. `ReaderSpec` is the reader by itself, on any text. `Printer` is `printer.rs` function
by function: what may be written on one line, what must be broken (`MustBreak`:
the width is `usize::MAX`), and one layout per form. A layout is a sequence of
lexemes and of nodes still to be laid out. Widths are not modelled: a node that
may be written on one line sometimes fits and sometimes does not, so a property
holds for every `--width`. A string is a literal of which the model knows what is
inside (`Inside`: a newline, something an escape stands for, common indentation ...),
since that decides how it is written and whether it is read again as itself
(`write_str`, `write_multiline_str`) or as something else (`Misread`). `Formatter` is `nexl fmt`: read, print a node at a time,
and read what was printed, as the next command does.

*Properties.* `BracketsAreMatched`: an accepted text is balanced, the reader gets
past no closing bracket without a partner, and it blames the innermost open one.
`NothingReadIsLost`: at every moment the atoms, `?` and `#_` read so far are in
the nodes under way, each once and in order, and so are the comments that stand
behind or before a form. `ReaderTypeOK` (the calls under way nest as
`read_forms_into`, `dispatch` and `require_form` call each other, a part of the
run's `TypeOK`), `TokensCoverText` (the tokens are in the order of the text and
leave out only spaces) and `ReadingAdvances` (no step but the last leaves position
and kind of call as they are) are stated of `ReaderSpec` and proved. `ProgramKept`:
what `nexl fmt` writes is read as the program it was written for. `CommentsKept`:
and with the same comments. The last two except the nodes that `Printable` and
`CommentsLeftOut` name: those the code does not keep (section 3).

### MC modules

`MCFunctionsHost`, `MCDefinitionStore`, `MCModuleLoader`, `MCCompiler`,
`MCTestRunner`, `MCExpander` and `MCFormatter` give constants that a cfg cannot: registry
entries, a dependency chain, the possible disks, programs to compile,
expand or format, command lines.

## 3. The runs

| run | question | bounds | states |
|---|---|---|---|
| `evaluator` | depth, loop states, recur and errors for any program | call depth 2, 3 nested unfinished forms, loops of up to 2 names | 313,653 |
| `recur_scope` | does recur stay in its function? (no) | as above | - |
| `functions_host` | safety of deploy, invoke and serve | 2 deployers with a deploy each, 2 requests, 1 invocation from the command line, 1 exit of the server; 2 functions on one path, one of them deployable at 2 levels; an operation that asks and one that does not | 1,425,099 |
| `functions_host_live` | are requests answered? | 1 deploy, 2 requests, 1 exit of the server | 30,886 |
| `definition_store` | staleness and convergence | a chain of 3 definitions, 2 macros, 2 texts for one definition and each macro | 700,088 |
| `warm_build` | is a warm build a cold build? (no) | the chain, 2 texts of the leaf | - |
| `module_loader` | order and refinement of `ProgramLoad` | all programs of 3 files with up to 2 imports each, at most one file declaring another's name | 170,848 |
| `inference` | scoped state and errors for any source | 2 nested unfinished forms, 3 kinds of errors, a limit of 2 errors, 1 abandoned handle | 741,610 |
| `compiler` | is the meaning kept at every stage? | 4,710 programs; 5 calls or iterations of a path; inlining threshold 10 as in the code | 45,770 |
| `test_runner` | hooks, names, selection, verdict, seeds | 2 files of up to 3 forms with up to 2 tests, 1 label, 1 tag, 1 retry, 1 failing seed a file, 4 command lines | 1,681,951 |
| `expander` | completeness, meaning, hygiene | 1,219 programs: the built-in macros nested, and 10 by 8 user macros with 12 uses; 32 worlds; 8 expansions of expansions | 7,420 |
| `formatter` | are programs and comments kept by reading and formatting? | all texts of up to 4 of 12 pieces; 38 programs, one for each layout and each kind of string, with one of 9 pieces put in at every place; both values of the alignment option | 594,030 |

Why the bounds are enough. The evaluator's properties relate a form to its loop
and to the guards above it: three waiting forms are a loop, a function call in it
and a form in the function's body, with a recur or an error inside, and two
guarded calls reach the depth limit. Inference is the same shape with two: each of a
loop, a function and a handler directly in each other, with an error in the inner one,
three kinds of errors that the language server treats differently, and a limit of two
that is reached, passed and drained; deeper nests are left to the proofs. In the host, two deploys are what an overlap takes, and one
server, one invoking process and one function of each kind reach every pair of
steps; of two operations with the same effect one asks for it and one does not. In the store, a chain of three has a definition that is both a dependency
and a dependent, and two macros separate "recorded" from "partly recorded". In
the loader, three files make every kind of cycle, diamond with a repeated import,
and dangling dependency. The compiler's programs call a function from `main`
once, twice, through a variable and with constants, functions that call another
one, themselves, loop, match, build data or return functions; the fuel exceeds
what any of them takes unless it does not end. In the test runner two files show
what one leaves to the next, three forms are a describe with a hook and a test,
and one retry separates the last attempt from the others. In the expander the
programs pair every kind of macro with every other, in both orders, and some in `@x`. In the
formatter four pieces are a bracketed form with something in it, or a prefix, a
form and a comment; the programs reach every layout, and the piece put in makes
their number of items odd, comments one of them, or breaks them. The larger
values are covered by the proofs where there are some (section 4).

`CHECK_DEADLOCK FALSE` is given where the system really stops: a program ends, a
loader is done, every deploy and request is over, a program is compiled,
expanded or formatted. The runs of the definition store, inference and the test runner check
for deadlock.

*Fairness.* `FunctionsHost!FairSpec` assumes weak fairness of the server's own
steps only: its thread keeps running. Nothing is assumed of clients, of deploys,
or that a killed server is started again; `Stalled` names the two situations in
which somebody else keeps the server from going on, a client that has not sent its
request and one that does not take its answer, and `RequestsAnswered` promises an
answer only when both end. The operating system's buffers, which take short answers
for a client that does not read, are not modelled. `ModuleLoader!FairSpec` assumes weak
fairness of `Next`: the loader is one thread that waits for nobody. From it
follows the fairness of `ProgramLoad`.

### What disagrees with the documentation

Shown by runs: `recur_scope` (nexl-spec.md:889) and `warm_build`
(nexl-spec.md:3229, 3233).

Excluded by name where a property would otherwise fail, or met while modelling:

- *Functions host.* "Effect-sandboxed Nexl functions" (main.rs:171) are sandboxed as far
  as each native asks, and some do not: `db/open`, `db/execute` and `db/query`
  (db.rs:195-257), `env/set` and `env/load-dotenv` (env.rs:107-135), `load`
  (eval.rs:2584) and `uuid/v4` (uuid_mod.rs:62) ask for nothing, `process/run`,
  `run-with` and `spawn` ask for the console only (process_mod.rs:209-236), and
  nothing asks for `Random`. A function deployed as pure can call them. The server
  reads and writes without a timeout (functions.rs:224, 288): one client that does
  not send, or does not read, holds up all others.
- *Native back end.* It accepts constructors and projections (0, compile.rs:392-399), a
  match (returns 0, 484-488), a function as a value (its number, 281-284), closures (an
  object whose code pointer is a function's number, 332-390) and calls of such values
  (320-328), and the program compiled from them computes something else or crashes.
  `NativeComplete` excludes them.
- *Language server.* Beside an unbound variable it reports only malformed forms, not
  even the variable itself (nexl-lsp lib.rs:205-217), and it ignores deftypes that do
  not parse, in the source (lib.rs:162) and in the files it imports.
- *Macros.* Plain names of a template capture and are captured: the scope sets are
  computed and dropped. `v#` is `v__1__auto__` in every expansion, so `(let [tmp# ~x]
  (or ~y tmp#))` loses its `tmp#` to the one of `or` (against nexl-spec.md:2365,
  2413). Chains inside chains share `__sv__1__auto__`. Macro names ignore lexical
  shadowing. `and` and `or` as macros return their last value unchecked and accept
  no arguments; as special forms, which the REPL uses because it does not expand,
  they do neither. In module mode the entry is expanded first, by the expander
  that goes on to the modules it imports: their macros are not available to it,
  and its own reach all of them. A call of a macro inside of `@x` is left unexpanded
  (expand.rs:260).
- *Compiler.* The WebAssembly emitter assigns loop variables one after the other, so
  `(recur y x)` loses a value (nexl-spec.md:889; the evaluator and the native back end
  collect all values first; `RecursDoNotSwap`). Inlining a call in tail position drops
  the bindings of the inlined body (the emitter then refuses the module). A loop's later initial values are
  placed before the loop and cannot see the earlier variables. Two functions of
  one name confuse their numbers. A closure inside a closure does not capture from
  two levels out (lowering refuses it). A native `recur` under `if` traps.
- *Inference.* `synth_handle` leaves its effect scope behind on an error (infer.rs:86
  calls adding effects outside of a function body a no-op). `[a :]` as parameters indexes past the
  end, and quote forms reach `unimplemented!`.
- *Formatter.* "Preserves leading and trailing comments for round-trip formatting"
  (printer.rs:94) and "`nexl fmt` applied twice produces the same output as applied
  once" (nexl-spec.md:3569) do not hold of: a comment behind an item of a form that is
  written on one line, which swallows the rest (`CommentsInside`); `(? x)`, written
  `x?`, which is a name (`QuestionsRunOn`); `~ @x`, `'(? (f))`, and a `#_` that
  discards what starts with another (`PrefixesRegroup`); the last test of an aligned
  `cond` or `match` with an odd number of items, and a `mut` or odd item of a `let`
  with a fallback, which are not written at all (`ItemsLeftOut`); comments on a
  binding vector, on `|` and on the map of a `deftype`, and on the `?` of `(? x)`
  (`CommentsLeftOut`). "dedent_triple will strip the common `indent`-space prefix ...
  recovering the original string value exactly" (printer.rs:1579) does not hold of a
  string with a newline that has, outside of its interpolations, a backslash (the escape
  is resolved, or unknown) or three quotes (which end it), whose lines all start with
  spaces (which are stripped too), or that has nothing but blank lines (which keep the
  padding); and a string on one line gets escapes inside of its interpolations, where
  they are not resolved. A pattern `#"a{2"` is written as `(regex/new "a{2")`, in which
  the brace opens an interpolation. All of them are `StringsRespelled`; a text that
  cannot be read at all for it is not told from one that is read as another.
  `(deftype)`, and `(match)` when it is broken, panic at
  `items[2..]`. The reader itself drops comments before a closing bracket and at
  the end of a file, between a prefix and its form, and inside a chain of `#_`; and
  `{:a #_b 1}` is a map with an odd number of forms.
- *Test runner.* Labels of `describe` survive a file that breaks off. `.test-seeds`
  belongs to a directory: the next file consumes and removes it (against
  nexl-test-spec.md:895-897). `(test/skip)` inside a test's body is discarded, and
  the test passes. A failing body skips its teardown hooks; a failing setup-all
  hook skips teardown-all. Hooks of setup-all and teardown-all belong to their describe
  block (nexl-test-spec.md:471-482, 1357-1360; test.nx:332, 352; test.rs:40-43); the code
  runs all of a file's before and after all of its tests, those of other blocks
  included.

## 4. The proofs

Every run but `compiler` and `expander` has a module of proofs about its component;
the formatter's is about its reader, `ReaderSpec`. The theorems hold for every value
of the constants. Of those they assume what the ASSUMEs of the modules say: numbers
are numbers, operations do and ask for what there is, dependencies are definitions, a definition has some text, bounds are
natural numbers, files have names and there is at least one to test, a disk gives
each name a file with a declared name and a finite list of imports
(`DiskAssumption`). TLC evaluates them in the runs. The theorems about the reader
assume nothing: its text is any sequence of lexemes.

| module | theorem | property |
|---|---|---|
| `EvaluatorProofs` | `TypeCorrect`, `DepthBalanced`, `LoopStatesLive`, `RecurTarget`, `ErrorsStop` | `TypeOK`, `CallDepthBalanced`, `LoopStateLive`, `RecurReachesItsLoop`, `ErrorsStopOnlyWhereCaught` |
| `FunctionsHostProofs` | `TypeCorrect`, `DeploysSurvive`, `Sandboxed`, `AnswersLogged` | `TypeOK`, `UndisturbedDeploysSurvive`, `EffectsWithinCapability`, `AnswersAreLogged` |
| `DefinitionStoreProofs` | `TypeCorrect`, `ExpansionsFresh`, `Converges` | `TypeOK`, `NoStaleExpansion`, `BuildConverges` |
| `ModuleLoaderProofs` | `TypeCorrect`, `OrderLeast`, `LoadsAsPromised` | `TypeOK`, `OrderIsLeast`, the safety part of `ImplementsProgramLoad` |
| `InferenceProofs` | `TypeCorrect`, `ContextFollows`, `EffectsAccounted`, `ErrorsReported` | `TypeOK`, `ContextFollowsForms`, `EffectScopesAccounted`, `ErrorNeverAccepted` |
| `TestRunnerProofs` | `TypeCorrect`, `TestsKeepScopes`, `FilesAreAlone`, `SelectionIsTheFiles`, `VerdictIsHonest`, `SeedsWrittenAreOwn` | `TypeOK`, `TestsFollowScopes`, `FilesRunAlone`, `SelectionFollowsFile`, `VerdictHonest`, `SeedsAreOwn` |
| `ReaderProofs` | `TypeCorrect`, `BracketsMatched`, `TextCovered`, `Advances` | `ReaderTypeOK`, `BracketsAreMatched`, `TokensCoverText`, `ReadingAdvances` |

`SublistsProofs` has what the host, the test runner and the reader need to know of
`Sublists`.

- **Evaluator.** Lemma `StepShape` reduces the two hundred disjuncts of `Next` to
  four shapes: the stack stays, a form is pushed, the top form moves on, or it is
  popped, with what each may do to the depth. Types, depth and loop states are
  then shown to survive the four shapes. `TypeOK`, `CallDepthBalanced` and
  `LoopStateLive` are inductive given the types; `RecurReachesItsLoop` rests on
  `LoopStateLive`: what a recur finds when it starts is the loop its form was
  given.
- **Functions host.** `Sandboxed`: the invariant needs that the policy in force on
  a thread while a function runs is that function's (`PolicyInForce`);
  `EffectsWithinCapability` alone is not inductive because an operation asks the policy,
  not the function. What it does without asking is no part of the theorem. `AnswersLogged`: the strengthening
  is that a response about to be written is already in the log (`PendingIsLogged`).
  `TypeCorrect` has to know that the server invokes functions for requests only
  (`ServerInvokesForRequests`), or it would have nobody to answer; that names stay
  unique comes from replacing an entry in every *copy* a deploy holds.
  `DeploysSurvive`: as long as nothing is disturbed, one deploy at a time is past
  its start, what it holds is the registry with its own entry replaced, and from the
  moment it opens the file the registry is empty (`Calm`); the acknowledged entries
  are then in its hands and not in the file.
- **Definition store.** `ExpansionsFresh` (`NoStaleExpansion`): what
  makes `invalidate_macro` find an entry is that each of its macros is recorded, or
  is still to be recorded by the compiler that has just put it (`ExpansionInv`); an
  entry that is being recorded counts even if it was an orphan before (`Tracked`),
  because recording ends that. `Converges` (`BuildConverges`): while a plan is
  executed, everything not left to compile is stored and depends only on what is
  stored or on the current text of some definition (`ConvergeInv`).
- **Module loader.** While discovery goes on (`Discovering`), the files found are
  those of the least closed set `ProgramLoad!Program` so far: the entry, and one for
  each name seen imported, all of them in the program; when the queue is empty they
  are closed, so they are all of it. The awkward case is a file of the entry's own
  name found a second time, because the entry declares another: in a well-formed
  program it cannot happen (`EntryOnce`), since every file's name is then declared,
  there are as many files as declared names, and the name the entry declares is no
  file's. While sorting (`Sorting`), an in-degree counts the places that import what
  is not in order yet, the ready modules are those with none, and each module in
  order is the least that could stand at its place; `OrderLeast` follows because any
  other topological order differs first at a place where its module could have
  stood as well. If sorting gets stuck, the files whose modules are not in order are
  a set in which each imports another (`SortFailure`); if it does not, the file of
  any set that comes first in order imports none of the others (`SortDone`). With
  `Evaluating` (what is evaluated is a first part of the order) these make every step
  a step of `ProgramLoad` or a stutter (`LoadsAsPromised`).
- **Inference.** As in the evaluator, the steps are first reduced to shapes by what
  they do to the stack and the scoped fields (`StackShape`) and to control
  (`ControlShape`). `ContextFollows`: to know what `recur_types` is after a loop ends
  one has to know that what a loop body has put aside is the loop around it
  (`LoopsNested`). `EffectsAccounted` is inductive given `WellFormed`: the types, that
  top-level forms stand at the bottom of the stack (`Placed`), and that handle bodies
  given up stay within their bound together with those that may still be
  (`HandlesBounded`). `ErrorsReported`: an error is pending, recorded or told until the
  verdict (`ErrorsKnown`); what the verdict shows of those recorded differs by driver.
- **Test runner.** `RunnerInv` says that items know their place in the file, that the
  registries hold exactly what has been declared in force at this point
  (`RegistryFollows`), and that an open describe form remembers how deep the hook
  stacks were around it (`ScopesRemember`): without the last, `end-describe` could
  leave anything. `TestsKeepScopes` adds what every declared test captured
  (`TestsCapture`) and that the label stack ends with the open labels
  (`LabelsFollow`). `FilesAreAlone`: what is still to run was declared by this file,
  setups have run or are due before any test, teardowns are due once
  (`DueAreDeclared`); what is proved to be inductive is the file-wide order the code
  keeps (`HooksAroundAllTests`), of which the order within a describe form is a part. `SelectionIsTheFiles`: the tests with a result followed by those
  that are left are the selection (`SelectionInv`). `VerdictIsHonest`: whatever broke is
  in the command's flag or among the results (`VerdictInv`). `SeedsWrittenAreOwn`: the
  seeds pending are the file's (`SeedsInv`). `Filter` in this module keeps elements by
  their positions (`Sublists`): `SelectSeq` is recursive in its definition, of which
  the provers know nothing.
- **Reader.** `BracketsMatched`: an error of the reader names a bracket, and
  `BracketsAreMatched` says which brackets of the text it may name; of a reader still
  at work it says only that no closing bracket read so far lacks a partner. It is not
  inductive, because what the reader does at the next bracket is up to its calls. The
  invariant `IInv` ties the two together: while reading goes on, the calls nest
  (`Nested`), and the brackets they are inside of (`Opens`) are, in order, the
  brackets read that have no partner yet (`Unpaired`). The awkward cases are those in
  which something waits for a form, a prefix or `#_`: it must stand behind the
  innermost open bracket (`Behind`), or the reader could blame an outer bracket for a
  form missing inside it, and when a form has been called for, there must be one
  (`Standing`). A form that ends may end several calls at once; `ReturnShape` says what
  the fold over them leaves, and `NestedLower` that what it leaves is nested. Each
  step then is one of a few: a form is started (`FormStarted`), called for
  (`FormCalledFor`) or missing (`FormMissing`), a bracket is closed
  (`BracketClosed`), the text ends (`EndReached`). TLC checked `IInv` on every text of
  the run before it was proved. `Unpaired` and `tokenize` are recursive functions on
  positions: that their equations hold at every position is shown by descent to a
  least position where they would not (`LeastNumber`), and so is that the tokens
  cover the text (`TokenizeCovers`).

Only model-checked: liveness (`RequestsAnswered`, and of `ImplementsProgramLoad` that
loading ends), which the prover does not do; everything about compiler and expander;
and what the formatter says of trees (`NothingReadIsLost`, `ProgramKept`,
`CommentsKept`, and its `TypeOK` as a whole). Their definitions are recursive over
trees, and what such a definition computes cannot be proved by induction here. The
formatter reads twice, the text and what was printed of it; each reading is one of
`ReaderSpec`, but that the run composes them so is model-checked. The two runs that expect
a violation have nothing to prove.

## 5. Not modelled yet, and the plan

Order of the work, most important first:

1. **Proofs**: the types of `Compiler` and `MacroMeaning`, once their trees are
   separated from their steps.
2. **Unification** (`nexl-types`): occurs check, effect rows, generalisation,
   against most general unifiers by enumeration.
3. **Name resolution and environments**: what a name means after imports, renames
   and exclusions, composed with `ModuleLoader`.
4. **Memory**: dup and drop balanced on every path of a lowered function.
5. **Interactive services**: REPL sessions and the documents of the language
   server, which handle one request at a time; handle tables of the standard
   library.

Left out for good: the widths and columns of the printer, the documentation generator and the diagnostics
(layout), the binary encodings of the back ends (covered by golden tests), pure
functions of the standard library on strings, numbers and dates, argument
parsing, editor plug-ins and the cookbook. What each modelled component leaves
out is in its `note` in `PROJECT.json`.
