------------------------------ MODULE ModuleLoader ------------------------------
(***************************************************************************)
(* How a multi-file program is loaded: discovery of the imported modules   *)
(* (discover_and_load_modules, crates/nexl-cli/src/main.rs), the module    *)
(* graph and its topological order (crates/nexl-modules/src/lib.rs), and   *)
(* the evaluation of the modules in that order (eval_modules,              *)
(* crates/nexl-eval/src/modules.rs).                                       *)
(*                                                                         *)
(* A module is found by the name an import gives it, but from then on goes *)
(* by the name its own `module' form declares; nothing makes them agree.   *)
(* Module names are numbers, in the order of the strings.                  *)
(***************************************************************************)
EXTENDS Naturals, Sequences, FiniteSets

CONSTANTS
    Names,    \* module names; Names[n] is also the file that n resolves to
    Entry,    \* the file given on the command line
    Disk      \* the possible contents of the disk

ASSUME NamesAssumption == Names \subseteq Nat
ASSUME EntryAssumption == Entry \in Names
ASSUME DiskAssumption ==
    Disk \subseteq [Names -> [loads : BOOLEAN, module : Names, imports : Seq(Names)]]

VARIABLES
    disk,       \* each file: whether it can be loaded, the module it declares, its imports
    phase,      \* discover, graph, sort, eval, done, error
    failure,    \* the error, once phase = "error"
    seen,       \* names already imported (or the entry's own)
    queue,      \* files parsed, their imports not yet followed
    next,       \* the next import of the first of them
    loaded,     \* files whose imports have been followed
    indegree,   \* of each declared module: imports not yet put in order
    ready,      \* modules with none
    order,      \* the topological order so far
    evaluated   \* modules evaluated

vars == <<disk, phase, failure, seen, queue, next, loaded, indegree, ready, order, evaluated>>
discovery == <<seen, queue, next, loaded>>
sorting == <<indegree, ready, order>>

Declared(f) == disk[f].module
Imports(f) == disk[f].imports

SeqRange(s) == {s[i] : i \in DOMAIN s}

Least(S) == CHOOSE x \in S : \A y \in S : x <= y
Greatest(S) == CHOOSE x \in S : \A y \in S : x >= y

NoFailure == [kind |-> "none", modules |-> {}]

Fail(kind, modules) ==
    /\ phase' = "error"
    /\ failure' = [kind |-> kind, modules |-> modules]

-----------------------------------------------------------------------------
(* discover_and_load_modules: breadth first from the entry file.           *)
Init ==
    /\ disk \in Disk
    /\ phase = IF disk[Entry].loads THEN "discover" ELSE "error"
    /\ failure = IF disk[Entry].loads THEN NoFailure ELSE [kind |-> "load", modules |-> {Entry}]
    /\ seen = {Declared(Entry)}
    /\ queue = <<Entry>>
    /\ next = 1
    /\ loaded = <<>>
    /\ indegree = <<>>
    /\ ready = {}
    /\ order = <<>>
    /\ evaluated = {}

Following == phase = "discover" /\ queue # <<>> /\ next <= Len(Imports(Head(queue)))

Import == Imports(Head(queue))[next]

SkipImport ==
    /\ Following
    /\ Import \in seen
    /\ next' = next + 1
    /\ UNCHANGED <<disk, phase, failure, seen, queue, loaded, sorting, evaluated>>

LoadImport ==
    /\ Following
    /\ Import \notin seen
    /\ seen' = seen \union {Import}
    /\ IF disk[Import].loads
       THEN /\ queue' = Append(queue, Import)
            /\ next' = next + 1
            /\ UNCHANGED <<phase, failure>>
       ELSE /\ Fail("load", {Import})
            /\ UNCHANGED <<queue, next>>
    /\ UNCHANGED <<disk, loaded, sorting, evaluated>>

FinishModule ==
    /\ phase = "discover"
    /\ queue # <<>>
    /\ next > Len(Imports(Head(queue)))
    /\ loaded' = Append(loaded, Head(queue))
    /\ queue' = Tail(queue)
    /\ next' = 1
    /\ UNCHANGED <<disk, phase, failure, seen, sorting, evaluated>>

(* command_run: the macros of all modules are expanded before their graph  *)
(* is built, and the first one that fails ends the command.                *)
MacroFails ==
    /\ phase = "discover"
    /\ queue = <<>>
    /\ \E i \in DOMAIN loaded : Fail("macro", {Declared(loaded[i])})
    /\ UNCHANGED <<disk, discovery, sorting, evaluated>>

-----------------------------------------------------------------------------
(* eval_modules: the modules by declared name, and their graph.            *)
Modules == {Declared(loaded[i]) : i \in DOMAIN loaded}

FileOf(m) == CHOOSE f \in SeqRange(loaded) : Declared(f) = m

ImportsOf(m) == Imports(FileOf(m))

Occurrences(m, n) == Cardinality({i \in DOMAIN ImportsOf(m) : ImportsOf(m)[i] = n})

DistinctIndegree(m) == Cardinality(SeqRange(ImportsOf(m)))

(* The length of the list of dependencies, repeated ones included.         *)
Indegree(m) == Len(ImportsOf(m))

BuildGraph ==
    /\ phase = "discover"
    /\ queue = <<>>
    /\ IF \E i, j \in DOMAIN loaded : i # j /\ Declared(loaded[i]) = Declared(loaded[j])
       THEN /\ Fail("duplicate", {})
            /\ UNCHANGED sorting
       ELSE /\ phase' = "sort"
            /\ indegree' = [m \in Modules |-> Indegree(m)]
            /\ ready' = {m \in Modules : Indegree(m) = 0}
            /\ order' = <<>>
            /\ UNCHANGED failure
    /\ UNCHANGED <<disk, discovery, evaluated>>

(* ModuleGraph::topo_sort: the smallest ready module goes next (`ready' is *)
(* a BTreeSet), whatever order the hash maps are iterated in.              *)
GreatestPopReady ==
    /\ phase = "sort"
    /\ ready # {}
    /\ LET n == Greatest(ready)
           users == {m \in Modules : Occurrences(m, n) > 0}
       IN  /\ order' = Append(order, n)
           /\ indegree' = [m \in Modules |-> indegree[m] - Occurrences(m, n)]
           /\ ready' = (ready \ {n}) \union {m \in users : indegree'[m] = 0}
    /\ UNCHANGED <<disk, phase, failure, discovery, evaluated>>

PopReady ==
    /\ phase = "sort"
    /\ ready # {}
    /\ LET n == Least(ready)
           users == {m \in Modules : Occurrences(m, n) > 0}
       IN  /\ order' = Append(order, n)
           /\ indegree' = [m \in Modules |-> indegree[m] - Occurrences(m, n)]
           /\ ready' = (ready \ {n}) \union {m \in users : indegree'[m] = 0}
    /\ UNCHANGED <<disk, phase, failure, discovery, evaluated>>

FinishSort ==
    /\ phase = "sort"
    /\ ready = {}
    /\ IF Len(order) = Cardinality(Modules)
       THEN phase' = "eval" /\ UNCHANGED failure
       ELSE Fail("cycle", {m \in Modules : indegree[m] > 0})
    /\ UNCHANGED <<disk, discovery, sorting, evaluated>>

-----------------------------------------------------------------------------
(* eval_modules: imports are applied from the runtimes evaluated so far,   *)
(* then the forms run and the exports are built; all of it may fail.       *)
DiscoveryOrderEvalModule ==
    /\ phase = "eval"
    /\ Cardinality(evaluated) < Len(order)
    /\ LET m == Declared(loaded[Cardinality(evaluated) + 1])
           unknown == SeqRange(ImportsOf(m)) \ evaluated
       IN  IF unknown # {}
           THEN Fail("unknown", unknown) /\ UNCHANGED evaluated
           ELSE \/ evaluated' = evaluated \union {m} /\ UNCHANGED <<phase, failure>>
                \/ Fail("eval", {m}) /\ UNCHANGED evaluated
    /\ UNCHANGED <<disk, discovery, sorting>>

EvalModule ==
    /\ phase = "eval"
    /\ Cardinality(evaluated) < Len(order)
    /\ LET m == order[Cardinality(evaluated) + 1]
           unknown == SeqRange(ImportsOf(m)) \ evaluated
       IN  IF unknown # {}
           THEN Fail("unknown", unknown) /\ UNCHANGED evaluated
           ELSE \/ evaluated' = evaluated \union {m} /\ UNCHANGED <<phase, failure>>
                \/ Fail("eval", {m}) /\ UNCHANGED evaluated
    /\ UNCHANGED <<disk, discovery, sorting>>

FinishEval ==
    /\ phase = "eval"
    /\ Cardinality(evaluated) = Len(order)
    /\ phase' = "done"
    /\ UNCHANGED <<disk, failure, discovery, sorting, evaluated>>

Next ==
    \/ SkipImport \/ LoadImport \/ FinishModule \/ MacroFails
    \/ BuildGraph \/ PopReady \/ FinishSort
    \/ EvalModule \/ FinishEval

Spec == Init /\ [][Next]_vars

(* The loader runs on one thread and waits for nobody.                     *)
FairSpec == Spec /\ WF_vars(Next)

-----------------------------------------------------------------------------
TypeOK ==
    /\ phase \in {"discover", "sort", "eval", "done", "error"}
    /\ failure.kind \in {"none", "load", "macro", "duplicate", "cycle", "unknown", "eval"}
    /\ failure.modules \subseteq Names
    /\ seen \subseteq Names
    /\ queue \in Seq(Names) /\ loaded \in Seq(Names)
    /\ next \in Nat \ {0}
    /\ \A m \in DOMAIN indegree : m \in Names /\ indegree[m] \in Nat
    /\ ready \subseteq Names
    /\ order \in Seq(Names)
    /\ evaluated \subseteq Names

(***************************************************************************)
(* The order of evaluation depends on the modules and nothing else: it is  *)
(* the least of all topological orders, so no iteration order of a hash    *)
(* map shows in what a program prints while it loads.                      *)
(***************************************************************************)
IsTopological(s) ==
    \A i \in DOMAIN s : \A n \in SeqRange(ImportsOf(s[i])) : \E j \in 1 .. (i - 1) : s[j] = n

Permutations(S) ==
    {s \in [1 .. Cardinality(S) -> S] : SeqRange(s) = S}

Precedes(s, t) ==
    \E i \in DOMAIN s : s[i] < t[i] /\ \A j \in 1 .. (i - 1) : s[j] = t[j]

OrderIsLeast ==
    phase \in {"eval", "done"} =>
        /\ order \in Permutations(Modules) /\ IsTopological(order)
        /\ ~\E s \in Permutations(Modules) : IsTopological(s) /\ Precedes(s, order)

(***************************************************************************)
(* The loader does what ProgramLoad promises: what it is doing is the      *)
(* status, an error of a module's own forms is a failure, in their macros  *)
(* as in their evaluation, and every other error rejects the program       *)
(* before it is evaluated.                                                 *)
(***************************************************************************)
Status ==
    CASE phase = "done" -> "done"
      [] phase = "error" /\ failure.kind \in {"macro", "eval"} -> "failed"
      [] phase = "error" /\ failure.kind \notin {"macro", "eval"} -> "rejected"
      [] OTHER -> "running"

Load == INSTANCE ProgramLoad WITH status <- Status

ImplementsProgramLoad == Load!Spec
===============================================================================
