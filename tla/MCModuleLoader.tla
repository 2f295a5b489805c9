----------------------------- MODULE MCModuleLoader -----------------------------
(* Three modules; every file may be missing or broken, import any two of   *)
(* them (itself and one twice included), and one of them may declare a     *)
(* name that is not its own.                                               *)
EXTENDS ModuleLoader

Broken == [loads |-> FALSE, module |-> Entry, imports |-> <<>>]

ImportLists == {<<>>} \union {<<a>> : a \in Names} \union {<<a, b>> : a, b \in Names}

MCDisk ==
    { d \in [Names -> {Broken} \union [loads : {TRUE}, module : Names, imports : ImportLists]] :
        Cardinality({f \in Names : d[f].loads /\ d[f].module # f}) <= 1 }
===============================================================================
