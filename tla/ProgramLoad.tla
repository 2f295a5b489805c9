------------------------------ MODULE ProgramLoad ------------------------------
(***************************************************************************)
(* What loading a program of several modules promises, without how:        *)
(* a well-formed program is never rejected, each of its modules is         *)
(* evaluated once and after the modules it imports, a program that is not  *)
(* well formed is rejected before anything of it is evaluated, and nothing *)
(* is evaluated after a module fails.  ModuleLoader implements it.         *)
(***************************************************************************)
EXTENDS Naturals, Sequences, FiniteSets

CONSTANTS Names, Entry, Disk

VARIABLES
    disk,       \* the files, as in ModuleLoader
    status,     \* running, rejected, failed, done
    evaluated   \* the modules evaluated

vars == <<disk, status, evaluated>>

ImportedBy(f) == {disk[f].imports[i] : i \in DOMAIN disk[f].imports}

(* The least set of files with the entry and what its members import; the  *)
(* name the entry declares needs no file of its own.                       *)
Program ==
    CHOOSE S \in SUBSET Names :
        LET Closed(T) == /\ Entry \in T
                         /\ \A f \in T : ImportedBy(f) \ {disk[Entry].module} \subseteq T
        IN  Closed(S) /\ \A T \in SUBSET Names : Closed(T) => S \subseteq T

(* Every file is there and declares a name of its own, every import is     *)
(* declared by one of them, and nothing imports itself in the end: in      *)
(* every set of modules one imports none of the set.                       *)
WellFormed ==
    /\ \A f \in Program : disk[f].loads
    /\ \A f, g \in Program : disk[f].module = disk[g].module => f = g
    /\ \A f \in Program : ImportedBy(f) \subseteq {disk[g].module : g \in Program}
    /\ \A S \in (SUBSET Program) \ {{}} :
          \E f \in S : ImportedBy(f) \intersect {disk[g].module : g \in S} = {}

Init ==
    /\ disk \in Disk
    /\ status = IF disk[Entry].loads THEN "running" ELSE "rejected"
    /\ evaluated = {}

Reject ==
    /\ status = "running" /\ evaluated = {}
    /\ status' = "rejected"
    /\ UNCHANGED <<disk, evaluated>>
    /\ ~WellFormed

(* All files are there, and the macros of one cannot be expanded.           *)
FailToExpand ==
    /\ status = "running" /\ evaluated = {}
    /\ status' = "failed"
    /\ UNCHANGED <<disk, evaluated>>
    /\ \A f \in Program : disk[f].loads

Due(f) ==
    /\ disk[f].module \notin evaluated /\ ImportedBy(f) \subseteq evaluated
    /\ f \in Program /\ WellFormed

Evaluate(f) ==
    /\ status = "running"
    /\ evaluated' = evaluated \union {disk[f].module}
    /\ UNCHANGED <<disk, status>>
    /\ Due(f)

Fail(f) ==
    /\ status = "running"
    /\ status' = "failed"
    /\ UNCHANGED <<disk, evaluated>>
    /\ Due(f)

Finish ==
    /\ status = "running"
    /\ status' = "done"
    /\ UNCHANGED <<disk, evaluated>>
    /\ evaluated = {disk[f].module : f \in Program} /\ WellFormed

Next ==
    \/ Reject \/ FailToExpand \/ Finish
    \/ \E f \in Names : Evaluate(f) \/ Fail(f)

Spec == Init /\ [][Next]_vars /\ WF_vars(Next)
================================================================================
