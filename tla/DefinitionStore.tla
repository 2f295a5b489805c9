---------------------------- MODULE DefinitionStore ----------------------------
(***************************************************************************)
(* The content-addressed definition store of crates/nexl-pkg/src/lib.rs    *)
(* and the incremental builds it is made for.                              *)
(*                                                                         *)
(* The store is a redb database: each method runs one or two transactions, *)
(* each of them atomic and durable, and the process may die between two.   *)
(* The compiler that calls it is not part of the repository yet; it is     *)
(* modelled from the store's tests: plan, put each definition that has to  *)
(* be compiled, then record the macros it was expanded with.               *)
(***************************************************************************)
EXTENDS Naturals

CONSTANTS
    Names,      \* top-level definitions of the program
    Macros,     \* macros
    Versions,   \* bound of the model: Versions[x], the texts x can have
    Deps,       \* Deps[n]: the definitions that definition n refers to
    Uses        \* Uses[n]: the macros that definition n is expanded with

ASSUME DepsAssumption == Deps \in [Names -> SUBSET Names]
ASSUME UsesAssumption == Uses \in [Names -> SUBSET Macros]
ASSUME VersionsAssumption ==
    DOMAIN Versions = Names \union Macros /\ \A x \in Names \union Macros : Versions[x] # {}

VARIABLES
    source,        \* the program text: the version of each definition ...
    macroBody,     \* ... and of each macro
    definitions,   \* table DEFINITIONS: hash -> stored entry
    name_index,    \* table NAME_INDEX: name -> hash
    expansions,    \* table MACRO_EXPANSIONS: pairs <<macro, hash>>
    dirty,         \* macros edited and not yet invalidated
    build,         \* the compiler: what it is doing
    orphans        \* history: hashes put whose expansions were never recorded

vars == <<source, macroBody, definitions, name_index, expansions, dirty, build, orphans>>

(* hash_definition: the text of the definition (and its type, which here   *)
(* follows from it).  The texts of its dependencies and macros are not in. *)
Hashes == UNION {{n} \X Versions[n] : n \in Names}

hash_definition(n) == <<n, source[n]>>

(* What the compiler makes of definition n now, as an entry of the store:  *)
(* its dep_hashes, and the macro bodies its artifact was expanded with.    *)
Compiled(n) ==
    [dep_hashes |-> {hash_definition(d) : d \in Deps[n]},
     expanded   |-> [m \in Uses[n] |-> macroBody[m]]]

-----------------------------------------------------------------------------
(* The store's methods.                                                    *)
Insert(f, key, value) ==
    [k \in DOMAIN f \union {key} |-> IF k = key THEN value ELSE f[k]]

Remove(f, keys) == [k \in DOMAIN f \ keys |-> f[k]]

contains(h) == h \in DOMAIN definitions

is_valid(h) == contains(h) /\ \A d \in definitions[h].dep_hashes : contains(d)

indexed_needs_recompile(h) ==
    ~(h[1] \in DOMAIN name_index /\ name_index[h[1]] = h)

needs_recompile(h) == ~is_valid(h)

definitions_using_macro(m) == {h \in Hashes : <<m, h>> \in expansions}

-----------------------------------------------------------------------------
Idle == [at |-> "idle"]

Init ==
    /\ source = [n \in Names |-> CHOOSE v \in Versions[n] : TRUE]
    /\ macroBody = [m \in Macros |-> CHOOSE v \in Versions[m] : TRUE]
    /\ definitions = [h \in {} |-> {}]
    /\ name_index = [n \in {} |-> {}]
    /\ expansions = {}
    /\ dirty = {}
    /\ build = Idle
    /\ orphans = {}

EditDefinition(n, v) ==
    /\ build.at \in {"idle", "built"}
    /\ v # source[n]
    /\ source' = [source EXCEPT ![n] = v]
    /\ build' = Idle
    /\ UNCHANGED <<macroBody, definitions, name_index, expansions, dirty, orphans>>

EditMacro(m, v) ==
    /\ build.at \in {"idle", "built"}
    /\ v # macroBody[m]
    /\ macroBody' = [macroBody EXCEPT ![m] = v]
    /\ dirty' = dirty \union {m}
    /\ build' = Idle
    /\ UNCHANGED <<source, definitions, name_index, expansions, orphans>>

(* invalidate_macro, its read transaction ...                              *)
InvalidateRead(m) ==
    /\ build.at = "idle"
    /\ m \in dirty
    /\ build' = [at |-> "invalidating", macro |-> m, hashes |-> definitions_using_macro(m)]
    /\ UNCHANGED <<source, macroBody, definitions, name_index, expansions, dirty, orphans>>

(* ... and its write transaction, which scans the expansions again.        *)
KeepingInvalidateWrite ==
    /\ build.at = "invalidating"
    /\ UNCHANGED definitions
    /\ expansions' = {x \in expansions : x[1] # build.macro}
    /\ dirty' = dirty \ {build.macro}
    /\ build' = Idle
    /\ UNCHANGED <<source, macroBody, name_index, orphans>>

InvalidateWrite ==
    /\ build.at = "invalidating"
    /\ definitions' = Remove(definitions, build.hashes)
    /\ expansions' = {x \in expansions : x[1] # build.macro}
    /\ dirty' = dirty \ {build.macro}
    /\ build' = Idle
    /\ UNCHANGED <<source, macroBody, name_index, orphans>>

(* plan_incremental over every definition of the program.                  *)
PlanIncremental ==
    /\ build.at = "idle"
    /\ dirty = {}
    /\ build' = [at         |-> "compiling",
                 to_compile |-> {n \in Names : needs_recompile(hash_definition(n))},
                 cached     |-> {n \in Names : ~needs_recompile(hash_definition(n))}]
    /\ UNCHANGED <<source, macroBody, definitions, name_index, expansions, dirty, orphans>>

(* put_definition: both tables in one transaction.                         *)
PutDefinition(n) ==
    LET h == hash_definition(n) IN
    /\ build.at = "compiling"
    /\ n \in build.to_compile
    /\ definitions' = Insert(definitions, h, Compiled(n))
    /\ name_index' = Insert(name_index, n, h)
    /\ build' = [at |-> "recording", name |-> n, left |-> Uses[n],
                 to_compile |-> build.to_compile \ {n}, cached |-> build.cached]
    /\ UNCHANGED <<source, macroBody, expansions, dirty, orphans>>

KeyedByNamePut(n) ==
    /\ build.at = "compiling"
    /\ n \in build.to_compile
    /\ Deps[n] = {} /\ Uses[n] = {}
    /\ definitions' = Insert(definitions, n, Compiled(n))
    /\ build' = [build EXCEPT !.to_compile = @ \ {n}]
    /\ UNCHANGED <<source, macroBody, name_index, expansions, dirty, orphans>>

(* put, the older interface: neither name nor dependencies.                *)
Put(n) ==
    /\ build.at = "compiling"
    /\ n \in build.to_compile
    /\ Deps[n] = {} /\ Uses[n] = {}
    /\ definitions' = Insert(definitions, hash_definition(n), Compiled(n))
    /\ build' = [build EXCEPT !.to_compile = @ \ {n}]
    /\ UNCHANGED <<source, macroBody, name_index, expansions, dirty, orphans>>

RecordMacroExpansion(m) ==
    /\ build.at = "recording"
    /\ m \in build.left
    /\ expansions' = expansions \union {<<m, hash_definition(build.name)>>}
    /\ build' = [build EXCEPT !.left = @ \ {m}]
    /\ orphans' = IF build.left = {m} THEN orphans \ {hash_definition(build.name)} ELSE orphans
    /\ UNCHANGED <<source, macroBody, definitions, name_index, dirty>>

Recorded ==
    /\ build.at = "recording"
    /\ build.left = {}
    /\ build' = [at |-> "compiling", to_compile |-> build.to_compile, cached |-> build.cached]
    /\ UNCHANGED <<source, macroBody, definitions, name_index, expansions, dirty, orphans>>

FinishBuild ==
    /\ build.at = "compiling"
    /\ build.to_compile = {}
    /\ build' = [at |-> "built"]
    /\ UNCHANGED <<source, macroBody, definitions, name_index, expansions, dirty, orphans>>

(* The compiler dies; what it committed stays.                             *)
Crash ==
    /\ build.at \notin {"idle", "built"}
    /\ build' = Idle
    /\ orphans' = IF build.at = "recording" /\ build.left # {}
                  THEN orphans \union {hash_definition(build.name)} ELSE orphans
    /\ UNCHANGED <<source, macroBody, definitions, name_index, expansions, dirty>>

Next ==
    \/ \E n \in Names : \E v \in Versions[n] : EditDefinition(n, v)
    \/ \E m \in Macros : \E v \in Versions[m] : EditMacro(m, v)
    \/ \E m \in Macros : InvalidateRead(m)
    \/ InvalidateWrite
    \/ PlanIncremental
    \/ \E n \in Names : PutDefinition(n) \/ Put(n)
    \/ \E m \in Macros : RecordMacroExpansion(m)
    \/ Recorded
    \/ FinishBuild
    \/ Crash

Spec == Init /\ [][Next]_vars

-----------------------------------------------------------------------------
BuildState ==
         {Idle, [at |-> "built"]}
  \union [at : {"invalidating"}, macro : Macros, hashes : SUBSET Hashes]
  \union [at : {"compiling"}, to_compile : SUBSET Names, cached : SUBSET Names]
  \union [at : {"recording"}, name : Names, left : SUBSET Macros,
          to_compile : SUBSET Names, cached : SUBSET Names]

TypeOK ==
    /\ DOMAIN source = Names /\ \A n \in Names : source[n] \in Versions[n]
    /\ DOMAIN macroBody = Macros /\ \A m \in Macros : macroBody[m] \in Versions[m]
    /\ DOMAIN definitions \subseteq Hashes
    /\ \A h \in DOMAIN definitions :
         /\ definitions[h].dep_hashes \subseteq Hashes
         /\ DOMAIN definitions[h].expanded = Uses[h[1]]
         /\ \A m \in Uses[h[1]] : definitions[h].expanded[m] \in Versions[m]
    /\ DOMAIN name_index \subseteq Names
    /\ \A n \in DOMAIN name_index : name_index[n] \in Hashes
    /\ expansions \subseteq Macros \X Hashes
    /\ dirty \subseteq Macros
    /\ build \in BuildState
    /\ orphans \subseteq Hashes

(***************************************************************************)
(* No cached artifact, of the current text of a definition or of an older  *)
(* one, was expanded with a macro body that has been replaced and          *)
(* invalidated, however builds, edits and crashes alternate.  The one      *)
(* exception is known: a compiler that died between put_definition and     *)
(* record_macro_expansion leaves an entry no invalidation will ever find.  *)
(***************************************************************************)
NoStaleExpansion ==
    \A h \in DOMAIN definitions \ orphans :
        \A m \in DOMAIN definitions[h].expanded :
            m \in dirty \/ definitions[h].expanded[m] = macroBody[m]

(***************************************************************************)
(* A finished build leaves nothing to do: planned again, it would find     *)
(* every definition valid, although it was planned before the definitions  *)
(* it depends on were put, and after any number of crashes.                *)
(***************************************************************************)
BuildConverges ==
    build.at = "built" => \A n \in Names : is_valid(hash_definition(n))

(***************************************************************************)
(* "A cold build with an empty cache produces identical output to a warm   *)
(* build" (nexl-spec.md, 12.3): after a build, the entry stored for every  *)
(* definition is what compiling it now would store.                        *)
(***************************************************************************)
WarmBuildEqualsColdBuild ==
    build.at = "built" =>
        \A n \in Names : definitions[hash_definition(n)] = Compiled(n)
===============================================================================
