------------------------- MODULE DefinitionStoreProofs -------------------------
(***************************************************************************)
(* The definition store, for any program, any macros and any number of     *)
(* edits, builds, invalidations and crashes.                               *)
(***************************************************************************)
EXTENDS DefinitionStore, TLAPS

(* hash_definition of a definition of the program is a hash.               *)
LEMMA HashOfDefinition ==
    ASSUME TypeOK, NEW n \in Names
    PROVE  hash_definition(n) \in Hashes /\ hash_definition(n)[1] = n
  BY DEF TypeOK, Hashes, hash_definition

(* The entry the compiler makes has the type of an entry.                  *)
LEMMA CompiledEntry ==
    ASSUME TypeOK, NEW n \in Names
    PROVE  /\ Compiled(n).dep_hashes \subseteq Hashes
           /\ DOMAIN Compiled(n).expanded = Uses[n]
           /\ \A m \in Uses[n] : /\ m \in Macros
                                 /\ Compiled(n).expanded[m] = macroBody[m]
                                 /\ Compiled(n).expanded[m] \in Versions[m]
  <1>1. Deps[n] \subseteq Names /\ Uses[n] \subseteq Macros
    BY DepsAssumption, UsesAssumption
  <1>2. \A d \in Deps[n] : hash_definition(d) \in Hashes
    BY <1>1, HashOfDefinition
  <1>3. QED
    BY <1>1, <1>2 DEF Compiled, TypeOK

-----------------------------------------------------------------------------
(* The conjuncts of TypeOK about the compiler's state.                     *)
LEMMA TypeInit == Init => TypeOK
  <1> SUFFICES ASSUME Init PROVE TypeOK
    OBVIOUS
  <1>1. \A x \in Names \union Macros : (CHOOSE v \in Versions[x] : TRUE) \in Versions[x]
    BY VersionsAssumption
  <1>2. build \in BuildState
    BY DEF Init, BuildState
  <1>3. QED
    BY <1>1, <1>2 DEF Init, TypeOK

(* Storing an entry under the hash of a definition keeps the table typed.  *)
LEMMA TypeInsert ==
    ASSUME TypeOK, NEW n \in Names,
           definitions' = Insert(definitions, hash_definition(n), Compiled(n))
    PROVE  /\ DOMAIN definitions' \subseteq Hashes
           /\ \A h \in DOMAIN definitions' :
                /\ definitions'[h].dep_hashes \subseteq Hashes
                /\ DOMAIN definitions'[h].expanded = Uses[h[1]]
                /\ \A m \in Uses[h[1]] : definitions'[h].expanded[m] \in Versions[m]
  <1> DEFINE key == hash_definition(n)
             entry == Compiled(n)
  <1>1. key \in Hashes /\ key[1] = n
    BY HashOfDefinition
  <1>2. /\ entry.dep_hashes \subseteq Hashes
        /\ DOMAIN entry.expanded = Uses[n]
        /\ \A m \in Uses[n] : entry.expanded[m] \in Versions[m]
    BY CompiledEntry
  <1>3. /\ DOMAIN definitions' = DOMAIN definitions \union {key}
        /\ \A h \in DOMAIN definitions' :
             definitions'[h] = IF h = key THEN entry ELSE definitions[h]
    BY DEF Insert
  <1> HIDE DEF key, entry
  <1>4. QED
    BY <1>1, <1>2, <1>3 DEF TypeOK

(* Every step keeps the types.                                             *)
LEMMA TypeStep == TypeOK /\ [Next]_vars => TypeOK'
  <1> SUFFICES ASSUME TypeOK, [Next]_vars PROVE TypeOK'
    OBVIOUS
  <1>0. Hashes' = Hashes
    BY DEF Hashes
  <1>1. ASSUME NEW n \in Names, NEW v \in Versions[n], EditDefinition(n, v) PROVE TypeOK'
    <2>1. build' \in BuildState
      BY <1>1 DEF EditDefinition, BuildState
    <2>2. QED
      BY <1>1, <2>1 DEF EditDefinition, TypeOK, Hashes, BuildState
  <1>2. ASSUME NEW m \in Macros, NEW v \in Versions[m], EditMacro(m, v) PROVE TypeOK'
    <2>1. build' \in BuildState
      BY <1>2 DEF EditMacro, BuildState
    <2>2. QED
      BY <1>2, <2>1 DEF EditMacro, TypeOK, Hashes, BuildState
  <1>3. ASSUME NEW m \in Macros, InvalidateRead(m) PROVE TypeOK'
    <2>1. build' \in BuildState
      BY <1>3 DEF InvalidateRead, BuildState, definitions_using_macro
    <2>2. QED
      BY <1>3, <2>1 DEF InvalidateRead, TypeOK, Hashes, BuildState
  <1>4. CASE InvalidateWrite
    <2>1. build' \in BuildState
      BY <1>4 DEF InvalidateWrite, BuildState
    <2>2. /\ DOMAIN definitions' \subseteq DOMAIN definitions
          /\ \A h \in DOMAIN definitions' : definitions'[h] = definitions[h]
      BY <1>4 DEF InvalidateWrite, Remove
    <2>3. expansions' \subseteq expansions /\ dirty' \subseteq dirty
      BY <1>4 DEF InvalidateWrite
    <2>4. UNCHANGED <<source, macroBody, name_index, orphans>>
      BY <1>4 DEF InvalidateWrite
    <2>5. QED
      BY <2>1, <2>2, <2>3, <2>4 DEF TypeOK, Hashes, BuildState
  <1>5. CASE PlanIncremental
    <2>1. build' \in BuildState
      BY <1>5 DEF PlanIncremental, BuildState
    <2>2. QED
      BY <1>5, <2>1 DEF PlanIncremental, TypeOK, Hashes, BuildState
  <1>6. ASSUME NEW n \in Names, PutDefinition(n) PROVE TypeOK'
    <2>1. build' \in BuildState
      <3>1. build.to_compile \subseteq Names /\ build.cached \subseteq Names
        BY <1>6 DEF PutDefinition, TypeOK, BuildState, Idle
      <3>2. Uses[n] \subseteq Macros
        BY UsesAssumption
      <3>3. QED
        BY <1>6, <3>1, <3>2 DEF PutDefinition, BuildState
    <2>2. definitions' = Insert(definitions, hash_definition(n), Compiled(n))
      BY <1>6 DEF PutDefinition
    <2>3. /\ DOMAIN name_index' \subseteq Names
          /\ \A k \in DOMAIN name_index' : name_index'[k] \in Hashes
      <3>1. hash_definition(n) \in Hashes
        BY HashOfDefinition
      <3>2. name_index' = Insert(name_index, n, hash_definition(n))
        BY <1>6 DEF PutDefinition
      <3>3. QED
        BY <3>1, <3>2 DEF Insert, TypeOK
    <2>4. UNCHANGED <<source, macroBody, expansions, dirty, orphans>>
      BY <1>6 DEF PutDefinition
    <2>5. QED
      BY <1>0, <2>1, <2>2, <2>3, <2>4, TypeInsert DEF TypeOK, BuildState
  <1>7. ASSUME NEW n \in Names, Put(n) PROVE TypeOK'
    <2>1. build' \in BuildState
      BY <1>7 DEF Put, TypeOK, BuildState, Idle
    <2>2. definitions' = Insert(definitions, hash_definition(n), Compiled(n))
      BY <1>7 DEF Put
    <2>3. UNCHANGED <<source, macroBody, name_index, expansions, dirty, orphans>>
      BY <1>7 DEF Put
    <2>4. QED
      BY <1>0, <2>1, <2>2, <2>3, TypeInsert DEF TypeOK, BuildState
  <1>8. ASSUME NEW m \in Macros, RecordMacroExpansion(m) PROVE TypeOK'
    <2>1. build' \in BuildState /\ build.name \in Names
      BY <1>8 DEF RecordMacroExpansion, TypeOK, BuildState, Idle
    <2>2. hash_definition(build.name) \in Hashes
      BY <2>1, HashOfDefinition
    <2>3. expansions' \subseteq Macros \X Hashes
      BY <1>8, <2>2 DEF RecordMacroExpansion, TypeOK
    <2>4. orphans' \subseteq Hashes
      BY <1>8 DEF RecordMacroExpansion, TypeOK
    <2>5. UNCHANGED <<source, macroBody, definitions, name_index, dirty>>
      BY <1>8 DEF RecordMacroExpansion
    <2>6. QED
      BY <1>0, <2>1, <2>3, <2>4, <2>5 DEF TypeOK, BuildState
  <1>9. CASE Recorded
    <2>1. build' \in BuildState
      BY <1>9 DEF Recorded, TypeOK, BuildState, Idle
    <2>2. QED
      BY <1>9, <2>1 DEF Recorded, TypeOK, Hashes, BuildState
  <1>10. CASE FinishBuild
    <2>1. build' \in BuildState
      BY <1>10 DEF FinishBuild, BuildState
    <2>2. QED
      BY <1>10, <2>1 DEF FinishBuild, TypeOK, Hashes, BuildState
  <1>11. CASE Crash
    <2>1. build' \in BuildState
      BY <1>11 DEF Crash, BuildState
    <2>2. orphans' \subseteq Hashes
      <3>1. CASE build.at = "recording"
        <4>1. build.name \in Names
          BY <3>1 DEF TypeOK, BuildState, Idle
        <4>2. QED
          BY <1>11, <4>1, HashOfDefinition DEF Crash, TypeOK
      <3>2. QED
        BY <1>11, <3>1 DEF Crash, TypeOK
    <2>3. UNCHANGED <<source, macroBody, definitions, name_index, expansions, dirty>>
      BY <1>11 DEF Crash
    <2>4. QED
      BY <1>0, <2>1, <2>2, <2>3 DEF TypeOK, BuildState
  <1>12. CASE UNCHANGED vars
    BY <1>12 DEF vars, TypeOK, Hashes, BuildState
  <1>13. QED
    BY <1>1, <1>2, <1>3, <1>4, <1>5, <1>6, <1>7, <1>8, <1>9, <1>10, <1>11, <1>12 DEF Next

(* The three tables, the program and the compiler keep their types.        *)
THEOREM TypeCorrect == Spec => []TypeOK
  BY TypeInit, TypeStep, PTL DEF Spec

-----------------------------------------------------------------------------
(***************************************************************************)
(* NoStaleExpansion is not inductive: what makes invalidate_macro find an  *)
(* entry is that the entry's macros are recorded, or are about to be by a  *)
(* compiler that has just put it.  The hash being recorded counts even     *)
(* when it is an orphan: recording it ends that.                           *)
(***************************************************************************)
Tracked ==
    {h \in DOMAIN definitions :
        h \notin orphans \/ (build.at = "recording" /\ h = hash_definition(build.name))}

(* A macro of a stored entry that the compiler has still to record.        *)
StillToRecord(h, m) ==
    build.at = "recording" /\ h = hash_definition(build.name) /\ m \in build.left

ExpansionInv ==
    /\ \A h \in Tracked : \A m \in DOMAIN definitions[h].expanded :
         /\ m \in dirty \/ definitions[h].expanded[m] = macroBody[m]
         /\ <<m, h>> \in expansions \/ StillToRecord(h, m)
    /\ build.at = "invalidating" => build.hashes = definitions_using_macro(build.macro)

(* A step that leaves the store, the macros and the orphans alone, and is  *)
(* not about recording, keeps the invariant.                               *)
LEMMA ExpansionStay ==
    ASSUME ExpansionInv,
           UNCHANGED <<macroBody, definitions, expansions, orphans>>,
           dirty \subseteq dirty',
           build.at # "recording", build'.at # "recording",
           build'.at = "invalidating" => build'.hashes = definitions_using_macro(build'.macro)
    PROVE  ExpansionInv'
  BY DEF ExpansionInv, Tracked, StillToRecord, definitions_using_macro, Hashes

(* Editing a macro makes it dirty.                                         *)
LEMMA ExpansionEditMacro ==
    ASSUME TypeOK, ExpansionInv, NEW m \in Macros, NEW v \in Versions[m], EditMacro(m, v)
    PROVE  ExpansionInv'
  <1>1. /\ UNCHANGED <<definitions, expansions, orphans>>
        /\ dirty' = dirty \union {m}
        /\ \A k \in Macros \ {m} : macroBody'[k] = macroBody[k]
        /\ build.at # "recording" /\ build'.at = "idle"
    BY DEF EditMacro, Idle, TypeOK
  <1>2. \A h \in DOMAIN definitions : DOMAIN definitions[h].expanded \subseteq Macros
    BY UsesAssumption DEF TypeOK, Hashes
  <1>3. QED
    BY <1>1, <1>2 DEF ExpansionInv, Tracked, StillToRecord

(* Invalidating a macro removes every entry that was expanded with it and  *)
(* is tracked, so that the macro need not be dirty any more.               *)
LEMMA ExpansionInvalidate ==
    ASSUME TypeOK, ExpansionInv, InvalidateWrite
    PROVE  ExpansionInv'
  <1>1. /\ DOMAIN definitions' = DOMAIN definitions \ build.hashes
        /\ \A h \in DOMAIN definitions' : definitions'[h] = definitions[h]
    BY DEF InvalidateWrite, Remove
  <1>2. /\ build.at = "invalidating" /\ build'.at = "idle"
        /\ expansions' = {x \in expansions : x[1] # build.macro}
        /\ dirty' = dirty \ {build.macro}
        /\ UNCHANGED <<macroBody, orphans>>
    BY DEF InvalidateWrite, Idle
  <1>3. build.hashes = {h \in Hashes : <<build.macro, h>> \in expansions}
    BY <1>2 DEF ExpansionInv, definitions_using_macro
  <1>4. ASSUME NEW h \in Tracked', NEW m \in DOMAIN definitions'[h].expanded
        PROVE  /\ m \in dirty' \/ definitions'[h].expanded[m] = macroBody'[m]
               /\ <<m, h>> \in expansions'
    <2>1. h \in Tracked /\ h \in Hashes /\ h \notin build.hashes
          /\ definitions'[h] = definitions[h]
      BY <1>1, <1>2 DEF Tracked, TypeOK
    <2>2. /\ m \in dirty \/ definitions[h].expanded[m] = macroBody[m]
          /\ <<m, h>> \in expansions
      BY <1>2, <2>1 DEF ExpansionInv, StillToRecord
    <2>3. m # build.macro
      BY <1>3, <2>1, <2>2
    <2>4. QED
      BY <1>2, <2>1, <2>2, <2>3
  <1>5. QED
    BY <1>2, <1>4 DEF ExpansionInv

(* A put stores an entry expanded with the macros as they are, all of      *)
(* which the compiler then has to record.                                  *)
LEMMA ExpansionPut ==
    ASSUME TypeOK, ExpansionInv, NEW n \in Names, PutDefinition(n)
    PROVE  ExpansionInv'
  <1> DEFINE key == hash_definition(n)
             entry == Compiled(n)
  <1>1. /\ DOMAIN definitions' = DOMAIN definitions \union {key}
        /\ \A h \in DOMAIN definitions' :
             definitions'[h] = IF h = key THEN entry ELSE definitions[h]
    BY DEF PutDefinition, Insert
  <1>2. /\ DOMAIN entry.expanded = Uses[n]
        /\ \A m \in Uses[n] : entry.expanded[m] = macroBody[m]
    BY CompiledEntry
  <1>3. /\ build.at = "compiling" /\ build'.at = "recording"
        /\ build'.name = n /\ build'.left = Uses[n]
        /\ UNCHANGED <<macroBody, expansions, dirty, orphans, source>>
    BY DEF PutDefinition
  <1>4. hash_definition(build.name)' = key
    BY <1>3 DEF hash_definition
  <1> HIDE DEF key, entry
  <1>5. ASSUME NEW h \in Tracked', NEW m \in DOMAIN definitions'[h].expanded
        PROVE  /\ m \in dirty' \/ definitions'[h].expanded[m] = macroBody'[m]
               /\ <<m, h>> \in expansions' \/ StillToRecord(h, m)'
    <2>1. CASE h = key
      BY <1>1, <1>2, <1>3, <1>4, <2>1 DEF Tracked, StillToRecord
    <2>2. CASE h # key
      <3>1. h \in Tracked /\ definitions'[h] = definitions[h]
        BY <1>1, <1>3, <1>4, <2>2 DEF Tracked
      <3>2. QED
        BY <1>3, <3>1 DEF ExpansionInv, StillToRecord
    <2>3. QED
      BY <2>1, <2>2
  <1>6. QED
    BY <1>3, <1>5 DEF ExpansionInv

(* The older put stores an entry that was expanded with no macro.          *)
LEMMA ExpansionOldPut ==
    ASSUME TypeOK, ExpansionInv, NEW n \in Names, Put(n)
    PROVE  ExpansionInv'
  <1> DEFINE key == hash_definition(n)
             entry == Compiled(n)
  <1>1. /\ DOMAIN definitions' = DOMAIN definitions \union {key}
        /\ \A h \in DOMAIN definitions' :
             definitions'[h] = IF h = key THEN entry ELSE definitions[h]
    BY DEF Put, Insert
  <1>2. DOMAIN entry.expanded = {}
    BY CompiledEntry DEF Put
  <1>3. /\ build.at = "compiling" /\ build'.at = "compiling"
        /\ UNCHANGED <<macroBody, expansions, dirty, orphans, source>>
    BY DEF Put, TypeOK, BuildState, Idle
  <1> HIDE DEF key, entry
  <1>4. QED
    BY <1>1, <1>2, <1>3 DEF ExpansionInv, Tracked, StillToRecord

(* Recording a macro of the entry just put.                                *)
LEMMA ExpansionRecord ==
    ASSUME TypeOK, ExpansionInv, NEW m \in Macros, RecordMacroExpansion(m)
    PROVE  ExpansionInv'
  <1> DEFINE key == hash_definition(build.name)
  <1>1. /\ build.at = "recording" /\ build'.at = "recording"
        /\ build'.name = build.name /\ build'.left = build.left \ {m}
    BY DEF RecordMacroExpansion, TypeOK, BuildState, Idle
  <1>2. /\ expansions' = expansions \union {<<m, key>>}
        /\ UNCHANGED <<source, macroBody, definitions, dirty>>
        /\ orphans \ {key} \subseteq orphans'
    BY DEF RecordMacroExpansion
  <1>3. hash_definition(build.name)' = key
    BY <1>1, <1>2 DEF hash_definition
  <1> HIDE DEF key
  <1>4. Tracked' \subseteq Tracked
    BY <1>1, <1>2, <1>3 DEF Tracked, key
  <1>5. QED
    BY <1>1, <1>2, <1>3, <1>4 DEF ExpansionInv, StillToRecord, key

(* The compiler goes on to the next definition, or dies: an entry whose    *)
(* macros are not all recorded becomes an orphan.                          *)
LEMMA ExpansionLeaveRecording ==
    ASSUME ExpansionInv, Recorded \/ Crash
    PROVE  ExpansionInv'
  <1>1. /\ UNCHANGED <<source, macroBody, definitions, expansions, dirty>>
        /\ build'.at \notin {"recording", "invalidating"}
        /\ orphans \subseteq orphans'
    BY DEF Recorded, Crash, Idle
  <1>2. build.at = "recording" /\ build.left # {} => hash_definition(build.name) \in orphans'
    BY DEF Recorded, Crash
  <1>3. QED
    BY <1>1, <1>2 DEF ExpansionInv, Tracked, StillToRecord

(* Every step keeps the invariant.                                         *)
LEMMA ExpansionStep == TypeOK /\ ExpansionInv /\ [Next]_vars => ExpansionInv'
  <1> SUFFICES ASSUME TypeOK, ExpansionInv, [Next]_vars PROVE ExpansionInv'
    OBVIOUS
  <1>1. ASSUME NEW n \in Names, NEW v \in Versions[n], EditDefinition(n, v) PROVE ExpansionInv'
    BY <1>1, ExpansionStay DEF EditDefinition, Idle
  <1>2. ASSUME NEW m \in Macros, InvalidateRead(m) PROVE ExpansionInv'
    BY <1>2, ExpansionStay DEF InvalidateRead
  <1>3. CASE PlanIncremental \/ FinishBuild
    BY <1>3, ExpansionStay DEF PlanIncremental, FinishBuild
  <1>4. CASE UNCHANGED vars
    BY <1>4 DEF vars, ExpansionInv, Tracked, StillToRecord, definitions_using_macro,
                Hashes, hash_definition
  <1>5. QED
    BY <1>1, <1>2, <1>3, <1>4, ExpansionEditMacro, ExpansionInvalidate, ExpansionPut,
       ExpansionOldPut, ExpansionRecord, ExpansionLeaveRecording DEF Next

(* No entry but an orphan was expanded with a macro body that has been     *)
(* replaced and invalidated.                                               *)
THEOREM ExpansionsFresh == Spec => []NoStaleExpansion
  <1>1. Init => ExpansionInv
    BY DEF Init, Idle, ExpansionInv, Tracked
  <1>2. ExpansionInv => NoStaleExpansion
    BY DEF ExpansionInv, NoStaleExpansion, Tracked
  <1>3. QED
    BY <1>1, <1>2, ExpansionStep, TypeCorrect, PTL DEF Spec

-----------------------------------------------------------------------------
(***************************************************************************)
(* While the plan is executed, the store only grows: a definition that is  *)
(* not to be compiled is stored, and what it depends on is stored too or   *)
(* is the current text of a definition, which the plan will have stored in *)
(* the end.                                                                *)
(***************************************************************************)
Done(n) ==
    /\ contains(hash_definition(n))
    /\ \A d \in definitions[hash_definition(n)].dep_hashes :
         contains(d) \/ \E k \in Names : d = hash_definition(k)

ConvergeInv ==
    /\ build.at \in {"compiling", "recording"} => \A n \in Names \ build.to_compile : Done(n)
    /\ BuildConverges

(* Storing the entry of a definition finishes that definition and undoes   *)
(* no other.                                                               *)
LEMMA DoneAfterInsert ==
    ASSUME TypeOK, NEW n \in Names, UNCHANGED source,
           definitions' = Insert(definitions, hash_definition(n), Compiled(n))
    PROVE  Done(n)' /\ \A k \in Names : Done(k) => Done(k)'
  <1> DEFINE key == hash_definition(n)
             entry == Compiled(n)
  <1>1. /\ DOMAIN definitions' = DOMAIN definitions \union {key}
        /\ \A h \in DOMAIN definitions' :
             definitions'[h] = IF h = key THEN entry ELSE definitions[h]
    BY DEF Insert
  <1>2. \A k \in Names : hash_definition(k)' = hash_definition(k)
    BY DEF hash_definition
  <1>3. \A d \in entry.dep_hashes : \E k \in Names : d = hash_definition(k)
    BY DepsAssumption DEF Compiled
  <1> HIDE DEF entry
  <1>4. Done(n)'
    BY <1>1, <1>2, <1>3 DEF Done, contains
  <1>5. ASSUME NEW k \in Names, Done(k) PROVE Done(k)'
    BY <1>1, <1>2, <1>3, <1>5 DEF Done, contains
  <1>6. QED
    BY <1>4, <1>5

(* Every step keeps ConvergeInv.                                           *)
LEMMA ConvergeStep == TypeOK /\ ConvergeInv /\ [Next]_vars => ConvergeInv'
  <1> SUFFICES ASSUME TypeOK, ConvergeInv, [Next]_vars PROVE ConvergeInv'
    OBVIOUS
  <1>1. ASSUME build'.at \notin {"compiling", "recording", "built"} PROVE ConvergeInv'
    BY <1>1 DEF ConvergeInv, BuildConverges
  <1>2. CASE PlanIncremental
    <2>1. /\ UNCHANGED <<source, definitions>> /\ build'.at = "compiling"
          /\ build'.to_compile = {n \in Names : ~is_valid(hash_definition(n))}
      BY <1>2 DEF PlanIncremental, needs_recompile
    <2>2. QED
      BY <2>1 DEF ConvergeInv, BuildConverges, Done, is_valid, contains, hash_definition
  <1>3. ASSUME NEW n \in Names, PutDefinition(n) \/ Put(n) PROVE ConvergeInv'
    <2>1. /\ build.at = "compiling" /\ build'.at \in {"compiling", "recording"}
          /\ build'.to_compile = build.to_compile \ {n}
          /\ UNCHANGED source
          /\ definitions' = Insert(definitions, hash_definition(n), Compiled(n))
      BY <1>3 DEF PutDefinition, Put, TypeOK, BuildState, Idle
    <2>2. \A k \in Names \ build.to_compile : Done(k)
      BY <2>1 DEF ConvergeInv
    <2>3. \A k \in Names \ build'.to_compile : Done(k)'
      BY <2>1, <2>2, DoneAfterInsert
    <2>4. QED
      BY <2>1, <2>3 DEF ConvergeInv, BuildConverges
  <1>4. ASSUME (\E m \in Macros : RecordMacroExpansion(m)) \/ Recorded PROVE ConvergeInv'
    <2>1. /\ build.at = "recording" /\ build'.at \in {"compiling", "recording"}
          /\ build'.to_compile = build.to_compile
          /\ UNCHANGED <<source, definitions>>
      BY <1>4 DEF RecordMacroExpansion, Recorded, TypeOK, BuildState, Idle
    <2>2. QED
      BY <2>1 DEF ConvergeInv, BuildConverges, Done, contains, hash_definition
  <1>5. CASE FinishBuild
    <2>1. /\ build.at = "compiling" /\ build.to_compile = {} /\ build'.at = "built"
          /\ UNCHANGED <<source, definitions>>
      BY <1>5 DEF FinishBuild
    <2>2. \A n \in Names : Done(n)
      BY <2>1 DEF ConvergeInv
    <2>3. \A n \in Names : is_valid(hash_definition(n))
      BY <2>2 DEF Done, is_valid, contains
    <2>4. QED
      BY <2>1, <2>3 DEF ConvergeInv, BuildConverges, is_valid, contains, hash_definition
  <1>6. CASE UNCHANGED vars
    BY <1>6 DEF vars, ConvergeInv, BuildConverges, Done, is_valid, contains, hash_definition
  <1>7. QED
    BY <1>1, <1>2, <1>3, <1>4, <1>5, <1>6
       DEF Next, EditDefinition, EditMacro, InvalidateRead, InvalidateWrite, Crash, Idle

(* A finished build leaves nothing to compile, for any dependencies,       *)
(* circular ones included, and in whatever order the plan is executed.     *)
THEOREM Converges == Spec => []BuildConverges
  <1>1. Init => ConvergeInv
    BY DEF Init, Idle, ConvergeInv, BuildConverges
  <1>2. ConvergeInv => BuildConverges
    BY DEF ConvergeInv
  <1>3. QED
    BY <1>1, <1>2, ConvergeStep, TypeCorrect, PTL DEF Spec
===============================================================================
