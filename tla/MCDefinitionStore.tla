--------------------------- MODULE MCDefinitionStore ---------------------------
(* A chain of three definitions, the last two of them expanded with macros. *)
EXTENDS DefinitionStore, TLC

CONSTANTS leaf, middle, root, when, unless

MCDeps == (leaf :> {}) @@ (middle :> {leaf}) @@ (root :> {middle})

MCUses == (leaf :> {}) @@ (middle :> {when}) @@ (root :> {when, unless})

(* The text of one definition and of one macro can change ... *)
MCVersions == (leaf :> {1}) @@ (middle :> {1, 2}) @@ (root :> {1})
           @@ (when :> {1, 2}) @@ (unless :> {1, 2})

(* ... or, without macros, that of the first in the chain. *)
MCNoUses == [n \in Names |-> {}]
MCLeafVersions == (leaf :> {1, 2}) @@ (middle :> {1}) @@ (root :> {1})
===============================================================================
