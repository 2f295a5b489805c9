---------------------------- MODULE MCFunctionsHost ----------------------------
(* A small instance of FunctionsHost: a redeployable function, one on the  *)
(* same route, and one whose route takes any segment.                      *)
EXTENDS FunctionsHost, TLC

MCEntries ==
    { [name |-> "a", capability |-> "pure",      route |-> <<"x">>],
      [name |-> "a", capability |-> "full",      route |-> <<"x">>],
      [name |-> "b", capability |-> "read-only", route |-> <<":param">>] }

MCPaths == { <<"x">> }

(* `slurp' asks for what it does; `load' reads a file and asks for nothing. *)
MCOperations ==
    { [does |-> {"FileSystem"}, asks |-> {"FileSystem"}],
      [does |-> {"FileSystem"}, asks |-> {}] }

MCStatuses == {-1}

(* Deployers and requests are interchangeable. *)
MCSymmetry == Permutations(Deployers) \union Permutations(Requests)
===============================================================================
