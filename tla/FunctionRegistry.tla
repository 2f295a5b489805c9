--------------------------- MODULE FunctionRegistry ---------------------------
(***************************************************************************)
(* The registry of deployed functions, .nexl-functions/registry.json, and  *)
(* the `nexl functions deploy' processes that rewrite it                   *)
(* (crates/nexl-cli/src/functions.rs).                                     *)
(*                                                                         *)
(* A deploy reads the whole file, edits its copy and writes the whole file *)
(* back.  Nothing locks the file, and std::fs::write first truncates it    *)
(* and then writes: other processes run between any two of these steps,    *)
(* and a process may be killed between them.                               *)
(***************************************************************************)
EXTENDS Naturals, Sequences, Sublists

CONSTANTS
    Deployers,   \* processes that run `nexl functions deploy'
    Entries,     \* the FunctionEntry records they may register
    MaxDeploys   \* bound of the model: deploys started

Capabilities == {"pure", "read-only", "full"}

ASSUME EntriesAssumption ==
    \A e \in Entries : {"name", "capability", "route"} \subseteq DOMAIN e
ASSUME MaxDeploysAssumption == MaxDeploys \in Nat

VARIABLES
    registry,   \* the file: whether it parses, and the entries if it does
    dep,        \* each deployer: where it is, its entry, its copy of the registry
    deploys,    \* deploys started so far
    acked,      \* history: entries whose latest deploy printed its check mark
    disturbed   \* history: two deploys overlapped, or one failed half-way

registryVars == <<registry, dep, deploys, acked, disturbed>>

Json(s) == [state |-> "json", entries |-> s]
Missing == [state |-> "missing", entries |-> <<>>]
Empty   == [state |-> "empty",   entries |-> <<>>]
Garbled == [state |-> "garbled", entries |-> <<>>]

(* A missing, unreadable or unparsable file reads as no entries at all.    *)
load_registry == IF registry.state = "json" THEN registry.entries ELSE <<>>

(* `find(|e| e.name == name)': the first entry of that name.               *)
Named(s, name) == {i \in DOMAIN s : s[i].name = name}

First(S) == CHOOSE i \in S : \A j \in S : i <= j

Finds(s, e) ==
    /\ Named(s, e.name) # {}
    /\ s[First(Named(s, e.name))] = e

(* `retain' the other names, then `push'.                                  *)
Replaced(s, e) ==
    Append(Filter(s, LAMBDA x : x.name # e.name), e)

(***************************************************************************)
(* What the file holds after s is written over it from offset 0.  The      *)
(* writer truncated it, but another deploy may have written since: bytes   *)
(* of a longer text then stay behind the new one.                          *)
(***************************************************************************)
Overwrites(s) ==
    IF registry.state = "empty" THEN {Json(s)} ELSE {Json(s), Garbled}

-----------------------------------------------------------------------------
Idle == [at |-> "idle"]

RegistryInit ==
    /\ registry = Missing
    /\ dep = [d \in Deployers |-> Idle]
    /\ deploys = 0
    /\ acked = {}
    /\ disturbed = FALSE

(* cmd_deploy up to save_registry; an unknown capability level is refused  *)
(* before anything is read.                                                *)
TruncatingLoadForDeploy(d, e) ==
    /\ dep[d].at = "idle"
    /\ deploys < MaxDeploys
    /\ deploys' = deploys + 1
    /\ dep' = [dep EXCEPT ![d] =
                 [at |-> "opened", entry |-> e, entries |-> Replaced(<<>>, e)]]
    /\ disturbed' = (disturbed \/ \E o \in Deployers : dep[o].at # "idle")
    /\ registry' = Empty
    /\ UNCHANGED acked

LoadForDeploy(d, e) ==
    /\ dep[d].at = "idle"
    /\ e.capability \in Capabilities
    /\ deploys < MaxDeploys
    /\ deploys' = deploys + 1
    /\ dep' = [dep EXCEPT ![d] =
                 [at |-> "loaded", entry |-> e, entries |-> Replaced(load_registry, e)]]
    /\ disturbed' = (disturbed \/ \E o \in Deployers : dep[o].at # "idle")
    /\ UNCHANGED <<registry, acked>>

(* fs::write opens the file with O_CREAT | O_TRUNC ...                     *)
TruncateRegistry(d) ==
    /\ dep[d].at = "loaded"
    /\ dep' = [dep EXCEPT ![d].at = "opened"]
    /\ registry' = Empty
    /\ UNCHANGED <<deploys, acked, disturbed>>

(* cmd_deploy prints its check mark whatever save_registry did.            *)
Acknowledge(d) ==
    LET e == dep[d].entry IN
    /\ dep' = [dep EXCEPT ![d] = Idle]
    /\ acked' = {a \in acked : a.name # e.name} \union {e}

(* ... and then writes the text, and the deploy is done.                   *)
WriteRegistry(d) ==
    /\ dep[d].at = "opened"
    /\ registry' \in Overwrites(dep[d].entries)
    /\ Acknowledge(d)
    /\ UNCHANGED <<deploys, disturbed>>

(* The file cannot be opened, or the text is not written or cut short: the *)
(* error is dropped (`let _ = std::fs::write(..)').                        *)
SaveFails(d) ==
    /\ \/ dep[d].at = "loaded" /\ UNCHANGED registry
       \/ dep[d].at = "opened" /\ registry' \in {registry, Garbled}
    /\ Acknowledge(d)
    /\ disturbed' = TRUE
    /\ UNCHANGED deploys

(* The process is killed.                                                  *)
KillDeploy(d) ==
    /\ \/ dep[d].at = "loaded" /\ UNCHANGED <<registry, disturbed>>
       \/ /\ dep[d].at = "opened"
          /\ registry' \in {registry, Garbled}
          /\ disturbed' = TRUE
    /\ dep' = [dep EXCEPT ![d] = Idle]
    /\ UNCHANGED <<deploys, acked>>

RegistryNext ==
    \E d \in Deployers :
        \/ \E e \in Entries : LoadForDeploy(d, e)
        \/ TruncateRegistry(d)
        \/ WriteRegistry(d)
        \/ SaveFails(d)
        \/ KillDeploy(d)

-----------------------------------------------------------------------------
FunctionEntries == Seq(Entries)

(***************************************************************************)
(* No registry, on disk or about to be written, has two entries of one     *)
(* name, in whatever order overlapping, killed and failing deploys ran:    *)
(* cmd_invoke, which takes the first entry of a name, has no choice.       *)
(***************************************************************************)
DistinctNames(s) == \A i, j \in DOMAIN s : s[i].name = s[j].name => i = j

NamesUnique ==
    /\ DistinctNames(registry.entries)
    /\ \A d \in Deployers : dep[d].at # "idle" => DistinctNames(dep[d].entries)

(* A deploy under way: its entry, and the entries it will write.           *)
Deploys == [at : {"loaded", "opened"}, entry : Entries, entries : FunctionEntries]

(* What the registry and the deployers hold; a name is there only once.    *)
RegistryTypeOK ==
    /\ registry.state \in {"missing", "empty", "garbled", "json"}
    /\ registry.entries \in FunctionEntries
    /\ dep \in [Deployers -> {Idle} \union Deploys]
    /\ NamesUnique
    /\ deploys \in 0..MaxDeploys
    /\ acked \subseteq Entries
    /\ disturbed \in BOOLEAN

(***************************************************************************)
(* As long as no two deploys overlap and none fails or is killed half-way, *)
(* an acknowledged deploy is what a reader of the registry finds under its *)
(* name, through any number of later deploys of other functions; the only  *)
(* exception is the moment a deploy has truncated the file, and then the   *)
(* text that deploy is about to write has it (or replaces it).             *)
(***************************************************************************)
UndisturbedDeploysSurvive ==
    ~disturbed =>
        \A e \in acked :
            \/ Finds(load_registry, e)
            \/ \E d \in Deployers :
                 /\ dep[d].at = "opened"
                 /\ \/ Finds(dep[d].entries, e)
                    \/ dep[d].entry.name = e.name
===============================================================================
