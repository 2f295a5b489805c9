-------------------------- MODULE FunctionsHostProofs --------------------------
(***************************************************************************)
(* Type correctness and the safety of the function host and its registry,  *)
(* for any number of deploys, requests, functions and host processes.      *)
(***************************************************************************)
EXTENDS FunctionsHost, SublistsProofs

(* Every action changes the state of one process and leaves the domains of *)
(* the state functions alone.                                              *)
Domains ==
    /\ DOMAIN host = Hosts
    /\ DOMAIN policy = Hosts
    /\ DOMAIN client = Requests

(* While a function runs, its own level's policy is installed on its       *)
(* thread.                                                                 *)
PolicyInForce ==
    \A h \in Hosts :
        host[h].at = "running" =>
            /\ host[h] = [at |-> "running", req |-> host[h].req,
                          entry |-> host[h].entry, used |-> host[h].used]
            /\ policy[h] = capability_set(host[h].entry.capability)

(* What keeps functions inside their capability, step by step.             *)
SandboxInv == Domains /\ PolicyInForce /\ EffectsWithinCapability

(* The initial states satisfy the sandbox invariant: nothing runs.         *)
LEMMA SandboxInit == Init => SandboxInv
  BY DEF Init, HostInit, SandboxInv, Domains, PolicyInForce, EffectsWithinCapability,
         Down, Ready, Hosts

(* A step that moves host h to a state in which it runs no function keeps  *)
(* the sandbox invariant.                                                  *)
LEMMA SandboxLeave ==
    ASSUME SandboxInv, NEW h \in Hosts, NEW s, s.at # "running",
           host' = [host EXCEPT ![h] = s],
           DOMAIN policy' = Hosts, \A o \in Hosts \ {h} : policy'[o] = policy[o],
           DOMAIN client' = Requests
    PROVE  SandboxInv'
  BY DEF SandboxInv, Domains, PolicyInForce, EffectsWithinCapability

(* A step that moves no host keeps it too.                                 *)
LEMMA SandboxStay ==
    ASSUME SandboxInv, UNCHANGED <<host, policy>>, DOMAIN client' = Requests
    PROVE  SandboxInv'
  BY DEF SandboxInv, Domains, PolicyInForce, EffectsWithinCapability

(* invoke_function returning leaves no function running.                   *)
LEMMA SandboxReturned ==
    ASSUME SandboxInv, NEW h \in Hosts, NEW status, Returned(h, status),
           UNCHANGED <<policy, client>>
    PROVE  SandboxInv'
  <1>1. /\ DOMAIN policy' = Hosts
        /\ \A o \in Hosts \ {h} : policy'[o] = policy[o]
        /\ DOMAIN client' = Requests
    BY DEF SandboxInv, Domains
  <1>2. CASE h = Server
    <2> DEFINE s == [at |-> "logging", req |-> host[h].req,
                     entry |-> host[h].entry, status |-> status]
    <2>1. host' = [host EXCEPT ![h] = s]
      BY <1>2 DEF Returned
    <2>2. s.at # "running"
      OBVIOUS
    <2> HIDE DEF s
    <2>3. QED
      BY <1>1, <2>1, <2>2, SandboxLeave
  <1>3. CASE h # Server
    <2>1. host' = [host EXCEPT ![h] = Ready]
      BY <1>3 DEF Returned
    <2>2. Ready.at # "running"
      BY DEF Ready
    <2>3. QED
      BY <1>1, <2>1, <2>2, SandboxLeave
  <1>4. QED
    BY <1>2, <1>3

(* So does every step of an invocation, in the server or not.              *)
LEMMA SandboxInvocation ==
    ASSUME SandboxInv, NEW h \in Hosts, Invocation(h)
    PROVE  SandboxInv'
  <1>1. CASE SourceUnreadable(h)
    BY <1>1, SandboxReturned DEF SourceUnreadable
  <1>2. CASE ApplyPolicy(h)
    BY <1>2 DEF ApplyPolicy, SandboxInv, Domains, PolicyInForce, EffectsWithinCapability
  <1>3. CASE FunctionFails(h)
    BY <1>3, SandboxReturned DEF FunctionFails
  <1>4. CASE FunctionReturns(h)
    <2>1. PICK n \in Statuses : Returned(h, AsU16(n))
      BY <1>4 DEF FunctionReturns
    <2>2. QED
      BY <1>4, <2>1, SandboxReturned DEF FunctionReturns
  <1>5. QED
    BY <1>1, <1>2, <1>3, <1>4 DEF Invocation

(* The sandbox invariant is preserved by every step.                       *)
LEMMA SandboxStep == SandboxInv /\ [Next]_vars => SandboxInv'
  <1> SUFFICES ASSUME SandboxInv, [Next]_vars
               PROVE  SandboxInv'
    OBVIOUS
  <1> USE DEF SandboxInv, Domains
  <1>0. Server \in Hosts
    BY DEF Hosts
  <1>1. CASE UNCHANGED hostVars
    BY <1>1, SandboxStay DEF hostVars
  <1>2. ASSUME NEW r \in Requests, Accept(r)
        PROVE  SandboxInv'
    BY <1>0, <1>2, SandboxLeave DEF Accept
  <1>3. CASE ReadRequest
    <2> DEFINE r == host[Server].req
               s == CASE client[r].kind = "malformed" -> Responding(r, {}, 400)
                      [] client[r].kind = "dashboard" -> Responding(r, {}, 200)
                      [] OTHER -> [at |-> "routing", req |-> r, path |-> client[r].path]
    <2>1. host' = [host EXCEPT ![Server] = s]
      BY <1>3 DEF ReadRequest
    <2>2. s.at # "running"
      BY DEF Responding
    <2> HIDE DEF s
    <2>3. QED
      BY <1>0, <1>3, <2>1, <2>2, SandboxLeave DEF ReadRequest
  <1>4. CASE Route
    <2> DEFINE matching == Routed(load_registry, host[Server].path)
               s == IF matching = {} THEN Responding(host[Server].req, {}, 404)
                    ELSE Invoking(host[Server].req, load_registry[First(matching)])
    <2>1. host' = [host EXCEPT ![Server] = s]
      BY <1>4 DEF Route
    <2>2. s.at # "running"
      BY DEF Responding, Invoking
    <2> HIDE DEF s
    <2>3. QED
      BY <1>0, <1>4, <2>1, <2>2, SandboxLeave DEF Route
  <1>5. CASE LogInvocation
    BY <1>0, <1>5, SandboxLeave DEF LogInvocation, Responding
  <1>6. CASE Respond
    BY <1>0, <1>6, SandboxLeave DEF Respond, Ready
  <1>7. CASE ServerStarts
    BY <1>0, <1>7, SandboxLeave DEF ServerStarts, Ready
  <1>8. CASE ServerExits
    BY <1>0, <1>8, SandboxLeave DEF ServerExits, Down
  <1>9. ASSUME NEW r \in Requests, ClientConnects(r) \/ ClientSends(r) \/ ClientTakes(r) \/ ConnectionError(r)
        PROVE  SandboxInv'
    BY <1>9, SandboxStay DEF ClientConnects, ClientSends, ClientTakes, ConnectionError
  <1>10. ASSUME NEW h \in Invokers, NEW e \in Entries, InvokeByName(h, e)
         PROVE  SandboxInv'
    <2>1. h \in Hosts
      BY DEF Hosts
    <2>2. QED
      BY <1>10, <2>1, SandboxLeave DEF InvokeByName, Invoking
  <1>11. ASSUME NEW h \in Hosts, Invocation(h)
         PROVE  SandboxInv'
    BY <1>11, SandboxInvocation
  <1>12. ASSUME NEW h \in Hosts, NEW op \in Operations, PerformEffect(h, op)
         PROVE  SandboxInv'
    <2>1. host[h] = [at |-> "running", req |-> host[h].req,
                     entry |-> host[h].entry, used |-> host[h].used]
      BY <1>12 DEF PerformEffect, PolicyInForce
    <2>2. host'[h] = [at |-> "running", req |-> host[h].req,
                      entry |-> host[h].entry, used |-> host[h].used \union {op}]
      BY <1>12, <2>1 DEF PerformEffect
    <2>3. /\ DOMAIN host' = Hosts
          /\ \A o \in Hosts \ {h} : host'[o] = host[o]
          /\ UNCHANGED <<policy, client>>
      BY <1>12 DEF PerformEffect
    <2> DEFINE level == capability_set(host[h].entry.capability)
               Within(o, caps) == o.asks \subseteq caps /\ (Guarded(o) => o.does \subseteq caps)
    <2>4. Within(op, level)
      BY <1>12 DEF PerformEffect, PolicyInForce, Guarded
    <2>5. \A o \in host[h].used : Within(o, level)
      BY <1>12 DEF PerformEffect, EffectsWithinCapability
    <2>6. policy[h] = capability_set(host[h].entry.capability)
      BY <1>12 DEF PerformEffect, PolicyInForce
    <2> DEFINE Holds(o) == host[o].at = "running" =>
                 /\ host[o] = [at |-> "running", req |-> host[o].req,
                               entry |-> host[o].entry, used |-> host[o].used]
                 /\ policy[o] = capability_set(host[o].entry.capability)
                 /\ \A x \in host[o].used : Within(x, capability_set(host[o].entry.capability))
    <2>7. Holds(h)'
      BY <2>2, <2>3, <2>4, <2>5, <2>6
    <2>8. ASSUME NEW o \in Hosts \ {h}
          PROVE  Holds(o)'
      BY <2>3, <2>8 DEF PolicyInForce, EffectsWithinCapability
    <2>9. \A o \in Hosts : Holds(o)'
      BY <2>7, <2>8
    <2>10. QED
      BY <2>3, <2>9 DEF PolicyInForce, EffectsWithinCapability
  <1>13. CASE HostNext
    BY <1>0, <1>2, <1>3, <1>4, <1>5, <1>6, <1>7, <1>8, <1>9, <1>10, <1>11, <1>12, <1>13
       DEF HostNext, ServerStep, Hosts
  <1>14. QED
    BY <1>1, <1>13 DEF Next, vars, hostVars

(***************************************************************************)
(* Functions stay within the capability they were deployed with: the       *)
(* thread-local policy, set once per invocation and never reset, is always *)
(* the running function's own.                                             *)
(***************************************************************************)
THEOREM Sandboxed == Spec => []EffectsWithinCapability
  <1>1. SandboxInv => EffectsWithinCapability
    BY DEF SandboxInv
  <1>2. QED
    BY <1>1, SandboxInit, SandboxStep, PTL DEF Spec

-----------------------------------------------------------------------------
(* The registry.                                                           *)

(* An entry is somewhere in a sequence of entries.                         *)
Holds(s, e) == \E i \in DOMAIN s : s[i] = e

(* The first of some positions is one of them.                             *)
LEMMA FirstIn ==
    ASSUME NEW n \in Nat, NEW K \in SUBSET (1..n), K # {}
    PROVE  First(K) \in K
  <1>1. IsFiniteSet(K) /\ Cardinality(K) \in Nat
    BY PositionsFinite
  <1>2. Cardinality(K) # 0
    BY <1>1, FS_EmptySet
  <1>3. 1 \in 1..Cardinality(K)
    BY <1>1, <1>2
  <1> DEFINE i == Nth(K, 1)
  <1>4. i \in K /\ Rank(K, i) = 1
    BY <1>3, NthHasRank
  <1> HIDE DEF i
  <1>5. ASSUME NEW j \in K
        PROVE  i <= j
    <2>1. j \in Nat /\ i \in Nat
      BY <1>4
    <2>2. ~(j < i)
      <3>1. SUFFICES ASSUME j < i
                     PROVE  FALSE
        OBVIOUS
      <3>2. Rank(K, j) < 1
        BY <1>4, <3>1, RankIncreases
      <3>3. Rank(K, j) \in 1..Cardinality(K)
        BY RankBounds
      <3>4. QED
        BY <1>1, <3>2, <3>3
    <2>3. QED
      BY <2>1, <2>2
  <1>6. QED
    BY <1>4, <1>5 DEF First

(* Where names are distinct, what is found under a name is what is there.  *)
LEMMA FindsHeld ==
    ASSUME NEW s \in Seq(Entries), DistinctNames(s), NEW e
    PROVE  Finds(s, e) <=> Holds(s, e)
  <1>1. ASSUME Finds(s, e)
        PROVE  Holds(s, e)
    <2>1. Named(s, e.name) # {} /\ Named(s, e.name) \in SUBSET (1..Len(s)) /\ Len(s) \in Nat
      BY <1>1, LenProperties DEF Finds, Named
    <2>2. First(Named(s, e.name)) \in Named(s, e.name)
      BY <2>1, FirstIn
    <2>3. QED
      BY <1>1, <2>2 DEF Finds, Named, Holds
  <1>2. ASSUME Holds(s, e)
        PROVE  Finds(s, e)
    <2>1. PICK i \in DOMAIN s : s[i] = e
      BY <1>2 DEF Holds
    <2>2. Named(s, e.name) # {} /\ \A j \in Named(s, e.name) : j = i
      BY <2>1 DEF Named, DistinctNames
    <2>3. Named(s, e.name) \in SUBSET (1..Len(s)) /\ Len(s) \in Nat
      BY LenProperties DEF Named
    <2>4. First(Named(s, e.name)) = i
      BY <2>2, <2>3, FirstIn
    <2>5. QED
      BY <2>1, <2>2, <2>4 DEF Finds
  <1>3. QED
    BY <1>1, <1>2

(* Replacing an entry leaves one of its name and keeps the others.         *)
LEMMA ReplacedKeeps ==
    ASSUME NEW s \in Seq(Entries), DistinctNames(s), NEW e \in Entries
    PROVE  /\ Replaced(s, e) \in Seq(Entries)
           /\ DistinctNames(Replaced(s, e))
           /\ Holds(Replaced(s, e), e)
           /\ \A a : Holds(s, a) /\ a.name # e.name => Holds(Replaced(s, e), a)
  <1> DEFINE K == {i \in DOMAIN s : s[i].name # e.name}
             t == Sublist(s, K)
             m == Len(t)
             r == Append(t, e)
  <1>1. Replaced(s, e) = r
    BY DEF Replaced, Filter
  <1>2. Len(s) \in Nat /\ DOMAIN s = 1..Len(s) /\ K \in SUBSET (1..Len(s)) /\ K \in SUBSET DOMAIN s
    BY LenProperties
  <1>3. \A i \in K : s[i].name # e.name
    OBVIOUS
  <1>4. \A i \in DOMAIN s : s[i].name # e.name => i \in K
    OBVIOUS
  <1> HIDE DEF K
  <1>5. t \in Seq(Entries) /\ m = Cardinality(K)
    BY <1>2, SublistType
  <1>6. m \in Nat /\ DOMAIN t = 1..m
    BY <1>5, LenProperties
  <1>7. \A k \in 1..m : Nth(K, k) \in K /\ t[k] = s[Nth(K, k)]
    BY <1>2, <1>6, SublistAt
  <1>8. ASSUME NEW k \in 1..m, NEW l \in 1..m, Nth(K, k) = Nth(K, l)
        PROVE  k = l
    <2>1. k \in 1..Cardinality(K) /\ l \in 1..Cardinality(K)
      BY <1>5
    <2>2. Rank(K, Nth(K, k)) = k /\ Rank(K, Nth(K, l)) = l
      BY <1>2, <2>1, NthHasRank
    <2>3. QED
      BY <1>8, <2>2
  <1>9. \A i \in K : Rank(K, i) \in 1..m /\ Nth(K, Rank(K, i)) = i
    BY <1>2, <1>5, RankBounds, NthOfRank
  <1> HIDE DEF t
  <1>10. /\ r \in Seq(Entries) /\ DOMAIN r = 1..(m + 1)
         /\ \A k \in 1..m : r[k] = t[k]
         /\ r[m + 1] = e
    BY <1>5, AppendProperties, LenProperties
  <1> HIDE DEF m, r
  <1>11. \A k \in 1..(m + 1) : k \in 1..m \/ k = m + 1
    BY <1>6
  <1>12. 1..m \subseteq 1..(m + 1) /\ m + 1 \in 1..(m + 1)
    BY <1>6
  <1>13. \A k \in 1..m : r[k] = s[Nth(K, k)] /\ r[k].name # e.name /\ Nth(K, k) \in DOMAIN s
    BY <1>2, <1>3, <1>7, <1>10
  <1>14. DistinctNames(r)
    <2>1. SUFFICES ASSUME NEW k \in 1..(m + 1), NEW l \in 1..(m + 1), r[k].name = r[l].name
                   PROVE  k = l
      BY <1>10 DEF DistinctNames
    <2>2. CASE k \in 1..m /\ l \in 1..m
      <3>1. Nth(K, k) = Nth(K, l)
        BY <1>13, <2>1, <2>2 DEF DistinctNames
      <3>2. QED
        BY <1>8, <2>2, <3>1
    <2>3. CASE k = m + 1 \/ l = m + 1
      BY <1>10, <1>11, <1>13, <2>1, <2>3
    <2>4. QED
      BY <1>11, <2>2, <2>3
  <1>15. Holds(r, e)
    BY <1>10, <1>12 DEF Holds
  <1>16. ASSUME NEW a, Holds(s, a), a.name # e.name
         PROVE  Holds(r, a)
    <2>1. PICK i \in K : s[i] = a
      BY <1>4, <1>16 DEF Holds
    <2>2. Rank(K, i) \in 1..m /\ r[Rank(K, i)] = a
      BY <1>9, <1>13, <2>1
    <2>3. QED
      BY <1>10, <1>12, <2>2 DEF Holds
  <1>17. QED
    BY <1>1, <1>10, <1>14, <1>15, <1>16

(* What a reader gets from the registry: entries, one of each name.        *)
LEMMA RegistryShape ==
    RegistryTypeOK => /\ load_registry \in Seq(Entries)
                      /\ DistinctNames(load_registry)
  <1> SUFFICES ASSUME RegistryTypeOK
               PROVE  load_registry \in Seq(Entries) /\ DistinctNames(load_registry)
    OBVIOUS
  <1>1. <<>> \in Seq(Entries) /\ DistinctNames(<<>>)
    BY DEF DistinctNames
  <1>2. QED
    BY <1>1 DEF RegistryTypeOK, NamesUnique, load_registry, FunctionEntries

(* A step of one deployer that moves it to a typed state, and leaves the   *)
(* registry and the histories typed, keeps the registry's type invariant.  *)
LEMMA DeployStep ==
    ASSUME RegistryTypeOK, NEW d \in Deployers, NEW s, dep' = [dep EXCEPT ![d] = s],
           s = Idle \/ (s \in Deploys /\ DistinctNames(s.entries)),
           registry'.state \in {"missing", "empty", "garbled", "json"},
           registry'.entries \in FunctionEntries, DistinctNames(registry'.entries),
           deploys' \in 0..MaxDeploys, acked' \subseteq Entries, disturbed' \in BOOLEAN
    PROVE  RegistryTypeOK'
  <1>1. \A o \in Deployers : dep'[o] = s \/ dep'[o] = dep[o]
    BY DEF RegistryTypeOK
  <1>2. Idle.at = "idle"
    BY DEF Idle
  <1>3. NamesUnique'
    BY <1>1, <1>2 DEF RegistryTypeOK, NamesUnique
  <1>4. dep' \in [Deployers -> {Idle} \union Deploys]
    <2>1. \A o \in Deployers : dep[o] \in {Idle} \union Deploys
      BY DEF RegistryTypeOK
    <2>2. DOMAIN dep' = Deployers /\ dep' = [o \in Deployers |-> dep'[o]]
      BY DEF RegistryTypeOK
    <2>3. QED
      BY <1>1, <2>1, <2>2
  <1>5. QED
    BY <1>3, <1>4 DEF RegistryTypeOK

(* The registry is typed at first: there is none.                          *)
LEMMA RegistryStart == RegistryInit => RegistryTypeOK
  <1> SUFFICES ASSUME RegistryInit
               PROVE  RegistryTypeOK
    OBVIOUS
  <1>1. <<>> \in FunctionEntries /\ DistinctNames(<<>>)
    BY DEF FunctionEntries, DistinctNames
  <1>2. NamesUnique
    BY <1>1 DEF RegistryInit, NamesUnique, Missing, Idle
  <1>3. dep \in [Deployers -> {Idle} \union Deploys]
    BY DEF RegistryInit
  <1>4. deploys \in 0..MaxDeploys
    BY MaxDeploysAssumption DEF RegistryInit
  <1>5. QED
    BY <1>1, <1>2, <1>3, <1>4 DEF RegistryInit, RegistryTypeOK, Missing

(* Whatever a writer leaves of a typed text is typed.                      *)
LEMMA WrittenTyped ==
    ASSUME RegistryTypeOK, NEW s \in FunctionEntries, DistinctNames(s),
           \/ registry' \in Overwrites(s)
           \/ registry' \in {registry, Garbled, Empty}
    PROVE  /\ registry'.state \in {"missing", "empty", "garbled", "json"}
           /\ registry'.entries \in FunctionEntries
           /\ DistinctNames(registry'.entries)
  <1>1. <<>> \in FunctionEntries /\ DistinctNames(<<>>)
    BY DEF FunctionEntries, DistinctNames
  <1>2. \/ registry' = registry
        \/ registry' = Garbled
        \/ registry' = Empty
        \/ registry' = Json(s)
    BY DEF Overwrites
  <1>3. QED
    BY <1>1, <1>2 DEF RegistryTypeOK, NamesUnique, Garbled, Empty, Json

(* A deploy under way is typed.                                            *)
LEMMA UnderWay ==
    ASSUME RegistryTypeOK, NEW d \in Deployers, dep[d].at # "idle"
    PROVE  /\ dep[d] \in Deploys
           /\ dep[d].entry \in Entries
           /\ dep[d].entries \in FunctionEntries
           /\ DistinctNames(dep[d].entries)
  <1>1. Idle.at = "idle"
    BY DEF Idle
  <1>2. dep[d] \in Deploys
    BY <1>1 DEF RegistryTypeOK
  <1>3. QED
    BY <1>2 DEF Deploys, RegistryTypeOK, NamesUnique

(* Every step of a deploy, however it ends, keeps the registry typed.      *)
LEMMA RegistryStep ==
    RegistryTypeOK /\ [RegistryNext]_registryVars => RegistryTypeOK'
  <1> SUFFICES ASSUME RegistryTypeOK, [RegistryNext]_registryVars
               PROVE  RegistryTypeOK'
    OBVIOUS
  <1>0. acked \subseteq Entries /\ deploys \in 0..MaxDeploys /\ disturbed \in BOOLEAN
        /\ MaxDeploys \in Nat
    BY MaxDeploysAssumption DEF RegistryTypeOK
  <1>1. ASSUME NEW d \in Deployers, NEW e \in Entries, LoadForDeploy(d, e)
        PROVE  RegistryTypeOK'
    <2> DEFINE s == [at |-> "loaded", entry |-> e, entries |-> Replaced(load_registry, e)]
    <2>1. load_registry \in Seq(Entries) /\ DistinctNames(load_registry)
      BY RegistryShape
    <2>2. Replaced(load_registry, e) \in FunctionEntries /\ DistinctNames(Replaced(load_registry, e))
      BY <2>1, ReplacedKeeps DEF FunctionEntries
    <2>3. s \in Deploys /\ DistinctNames(s.entries)
      BY <2>2 DEF Deploys
    <2>4. dep' = [dep EXCEPT ![d] = s]
      BY <1>1 DEF LoadForDeploy
    <2> HIDE DEF s
    <2>5. deploys' \in 0..MaxDeploys
      BY <1>0, <1>1 DEF LoadForDeploy
    <2>6. UNCHANGED <<registry, acked>> /\ disturbed' \in BOOLEAN
      BY <1>1 DEF LoadForDeploy
    <2>7. /\ registry'.state \in {"missing", "empty", "garbled", "json"}
          /\ registry'.entries \in FunctionEntries
          /\ DistinctNames(registry'.entries)
      BY <2>6 DEF RegistryTypeOK, NamesUnique
    <2>8. QED
      BY <1>0, <2>3, <2>4, <2>5, <2>6, <2>7, DeployStep
  <1>2. ASSUME NEW d \in Deployers, TruncateRegistry(d)
        PROVE  RegistryTypeOK'
    <2> DEFINE s == [dep[d] EXCEPT !.at = "opened"]
    <2>1. /\ dep[d] \in Deploys
          /\ dep[d].entries \in FunctionEntries
          /\ DistinctNames(dep[d].entries)
      BY <1>2, UnderWay DEF TruncateRegistry
    <2>2. s \in Deploys /\ DistinctNames(s.entries)
      BY <2>1 DEF Deploys
    <2>3. dep' = [dep EXCEPT ![d] = s]
      BY <1>2 DEF TruncateRegistry
    <2> HIDE DEF s
    <2>4. /\ registry'.state \in {"missing", "empty", "garbled", "json"}
          /\ registry'.entries \in FunctionEntries
          /\ DistinctNames(registry'.entries)
      BY <1>2, <2>1, WrittenTyped DEF TruncateRegistry
    <2>5. QED
      BY <1>0, <1>2, <2>2, <2>3, <2>4, DeployStep DEF TruncateRegistry
  <1>3. ASSUME NEW d \in Deployers, WriteRegistry(d) \/ SaveFails(d) \/ KillDeploy(d)
        PROVE  RegistryTypeOK'
    <2>1. dep[d].at # "idle"
      BY <1>3 DEF WriteRegistry, SaveFails, KillDeploy
    <2>2. /\ dep[d].entry \in Entries
          /\ dep[d].entries \in FunctionEntries
          /\ DistinctNames(dep[d].entries)
      BY <2>1, UnderWay
    <2>3. dep' = [dep EXCEPT ![d] = Idle]
      BY <1>3 DEF WriteRegistry, SaveFails, KillDeploy, Acknowledge
    <2>4. \/ registry' \in Overwrites(dep[d].entries)
          \/ registry' \in {registry, Garbled, Empty}
      BY <1>3 DEF WriteRegistry, SaveFails, KillDeploy
    <2>5. /\ registry'.state \in {"missing", "empty", "garbled", "json"}
          /\ registry'.entries \in FunctionEntries
          /\ DistinctNames(registry'.entries)
      BY <2>2, <2>4, WrittenTyped
    <2>6. UNCHANGED deploys /\ disturbed' \in BOOLEAN
      BY <1>0, <1>3 DEF WriteRegistry, SaveFails, KillDeploy
    <2>7. acked' \subseteq Entries
      BY <1>0, <1>3, <2>2 DEF WriteRegistry, SaveFails, KillDeploy, Acknowledge
    <2>8. QED
      BY <1>0, <2>3, <2>5, <2>6, <2>7, DeployStep
  <1>4. CASE UNCHANGED registryVars
    BY <1>4 DEF registryVars, RegistryTypeOK, NamesUnique
  <1>5. QED
    BY <1>1, <1>2, <1>3, <1>4 DEF RegistryNext

-----------------------------------------------------------------------------
(* Types.                                                                  *)

(* The part of the type invariant that is about the hosts.                 *)
HostTypeOK ==
    /\ host \in [Hosts -> HostState]
    /\ policy \in [Hosts -> SUBSET Capability]
    /\ client \in [Requests -> ClientState]
    /\ \A l \in log : l.req \in Requests /\ l.status \in U16
    /\ logLost \subseteq Requests
    /\ invokes \in 0..MaxInvokes
    /\ exits \in 0..MaxExits

(* A status that was cut to 16 bits is one.                                *)
LEMMA StatusCut == \A n \in Int : AsU16(n) \in U16
  <1> DEFINE size == 65536
             greatest == 65535
  <1>1. size \in Nat \ {0} /\ size - 1 = greatest
    OBVIOUS
  <1>2. (\A n : AsU16(n) = n % size) /\ U16 = 0..greatest
    BY DEF AsU16, U16
  <1> HIDE DEF size, greatest
  <1>3. \A n \in Int : n % size \in 0..greatest
    BY <1>1
  <1>4. QED
    BY <1>2, <1>3

(* What a host process holds, by what it is doing.                         *)
LEMMA HostShape ==
    ASSUME NEW s \in HostState
    PROVE  /\ s.at = "reading" => s.req \in Requests
           /\ s.at = "routing" => s.req \in Requests /\ s.path \in Paths
           /\ s.at = "invoking" =>
                s.req \in Requests \union {NoRequest} /\ s.entry \in Entries
           /\ s.at = "running" =>
                /\ s.req \in Requests \union {NoRequest}
                /\ s.entry \in Entries
                /\ s.used \in SUBSET Operations
           /\ s.at = "logging" =>
                s.req \in Requests /\ s.entry \in Entries /\ s.status \in U16
           /\ s.at = "responding" =>
                s.req \in Requests /\ s.by \in SUBSET Entries /\ s.status \in U16
  <1>1. \/ s \in {Down, Ready}
        \/ s \in [at : {"reading"}, req : Requests]
        \/ s \in [at : {"routing"}, req : Requests, path : Paths]
        \/ s \in [at : {"invoking"}, req : Requests \union {NoRequest}, entry : Entries]
        \/ s \in [at : {"running"}, req : Requests \union {NoRequest}, entry : Entries,
                  used : SUBSET Operations]
        \/ s \in [at : {"logging"}, req : Requests, entry : Entries, status : U16]
        \/ s \in [at : {"responding"}, req : Requests, by : SUBSET Entries, status : U16]
    BY Zenon DEF HostState
  <1>2. CASE s \in {Down, Ready}
    BY <1>2 DEF Down, Ready
  <1>3. CASE s \in [at : {"reading"}, req : Requests]
    BY <1>3
  <1>4. CASE s \in [at : {"routing"}, req : Requests, path : Paths]
    BY <1>4
  <1>5. CASE s \in [at : {"invoking"}, req : Requests \union {NoRequest}, entry : Entries]
    BY <1>5
  <1>6. CASE s \in [at : {"running"}, req : Requests \union {NoRequest}, entry : Entries,
                    used : SUBSET Operations]
    BY <1>6
  <1>7. CASE s \in [at : {"logging"}, req : Requests, entry : Entries, status : U16]
    BY <1>7
  <1>8. CASE s \in [at : {"responding"}, req : Requests, by : SUBSET Entries, status : U16]
    BY <1>8
  <1>9. QED
    BY <1>1, <1>2, <1>3, <1>4, <1>5, <1>6, <1>7, <1>8

(* What a host process may become.                                         *)
LEMMA HostForms ==
    /\ Down \in HostState /\ Ready \in HostState
    /\ \A r \in Requests : [at |-> "reading", req |-> r] \in HostState
    /\ \A r \in Requests, p \in Paths : [at |-> "routing", req |-> r, path |-> p] \in HostState
    /\ \A r \in Requests \union {NoRequest}, e \in Entries : Invoking(r, e) \in HostState
    /\ \A r \in Requests \union {NoRequest}, e \in Entries, u \in SUBSET Operations :
         [at |-> "running", req |-> r, entry |-> e, used |-> u] \in HostState
    /\ \A r \in Requests, e \in Entries, n \in U16 :
         [at |-> "logging", req |-> r, entry |-> e, status |-> n] \in HostState
    /\ \A r \in Requests, E \in SUBSET Entries, n \in U16 :
         Responding(r, E, n) \in HostState
  <1>1. Down \in HostState /\ Ready \in HostState
    BY DEF HostState
  <1>2. \A r \in Requests : [at |-> "reading", req |-> r] \in HostState
    BY DEF HostState
  <1>3. \A r \in Requests, p \in Paths : [at |-> "routing", req |-> r, path |-> p] \in HostState
    BY DEF HostState
  <1>4. \A r \in Requests \union {NoRequest}, e \in Entries : Invoking(r, e) \in HostState
    BY DEF HostState, Invoking
  <1>5. \A r \in Requests \union {NoRequest}, e \in Entries, u \in SUBSET Operations :
          [at |-> "running", req |-> r, entry |-> e, used |-> u] \in HostState
    BY DEF HostState
  <1>6. \A r \in Requests, e \in Entries, n \in U16 :
          [at |-> "logging", req |-> r, entry |-> e, status |-> n] \in HostState
    BY DEF HostState
  <1>7. \A r \in Requests, E \in SUBSET Entries, n \in U16 : Responding(r, E, n) \in HostState
    BY DEF HostState, Responding
  <1>8. QED
    BY <1>1, <1>2, <1>3, <1>4, <1>5, <1>6, <1>7

(* A request for a function that was sent has one of the paths.            *)
LEMMA ClientShape ==
    ASSUME NEW c \in ClientState
    PROVE  c.state = "sent" /\ c.kind \notin {"malformed", "dashboard"} => c.path \in Paths
  BY DEF ClientState

(* What a connection may become.                                           *)
LEMMA ClientForms ==
    /\ [state |-> "idle"] \in ClientState /\ [state |-> "open"] \in ClientState
    /\ [state |-> "dropped"] \in ClientState
    /\ \A k \in {"malformed", "dashboard"}, t \in BOOLEAN :
         [state |-> "sent", kind |-> k, takes |-> t] \in ClientState
    /\ \A p \in Paths, t \in BOOLEAN :
         [state |-> "sent", kind |-> "function", path |-> p, takes |-> t] \in ClientState
    /\ \A E \in SUBSET Entries, n \in U16 :
         [state |-> "answered", by |-> E, status |-> n] \in ClientState
  <1>1. /\ [state |-> "idle"] \in ClientState /\ [state |-> "open"] \in ClientState
        /\ [state |-> "dropped"] \in ClientState
    BY DEF ClientState
  <1>2. \A k \in {"malformed", "dashboard"}, t \in BOOLEAN :
         [state |-> "sent", kind |-> k, takes |-> t] \in ClientState
    BY DEF ClientState
  <1>3. \A p \in Paths, t \in BOOLEAN :
         [state |-> "sent", kind |-> "function", path |-> p, takes |-> t] \in ClientState
    BY DEF ClientState
  <1>4. \A E \in SUBSET Entries, n \in U16 :
          [state |-> "answered", by |-> E, status |-> n] \in ClientState
    BY DEF ClientState
  <1>5. QED
    BY <1>1, <1>2, <1>3, <1>4

(* A client that comes to take its answer has sent as before.              *)
LEMMA TakingTyped ==
    ASSUME HostTypeOK, NEW r \in Requests, client[r].state = "sent"
    PROVE  /\ [client[r] EXCEPT !.takes = TRUE] \in ClientState
           /\ [client[r] EXCEPT !.takes = TRUE].state = "sent"
  <1>1. client[r] \in ClientState
    BY DEF HostTypeOK
  <1>2. CASE client[r] \in [state : {"sent"}, kind : {"malformed", "dashboard"}, takes : BOOLEAN]
    BY <1>2 DEF ClientState
  <1>3. CASE client[r] \in [state : {"sent"}, kind : {"function"}, path : Paths, takes : BOOLEAN]
    BY <1>3 DEF ClientState
  <1>4. QED
    BY <1>1, <1>2, <1>3 DEF ClientState

(* What the server invokes a function for is always a request: it will     *)
(* have somebody to answer.                                                *)
ServerInvokesForRequests ==
    host[Server].at \in {"invoking", "running"} => host[Server].req \in Requests

(* The hosts are typed, and the server runs functions for requests only.   *)
HostInv == HostTypeOK /\ ServerInvokesForRequests

(* The hosts are typed at first.                                           *)
LEMMA HostStart == HostInit => HostInv
  <1> SUFFICES ASSUME HostInit
               PROVE  HostInv
    OBVIOUS
  <1>1. host \in [Hosts -> HostState]
    BY HostForms DEF HostInit
  <1>2. client \in [Requests -> ClientState]
    BY ClientForms DEF HostInit
  <1>3. policy \in [Hosts -> SUBSET Capability]
    BY DEF HostInit, Unrestricted
  <1>4. invokes \in 0..MaxInvokes /\ exits \in 0..MaxExits
    BY BoundsAssumption DEF HostInit
  <1>5. ServerInvokesForRequests
    BY DEF HostInit, ServerInvokesForRequests, Hosts, Down
  <1>6. QED
    BY <1>1, <1>2, <1>3, <1>4, <1>5 DEF HostInit, HostInv, HostTypeOK

(* A step of one host that changes no client, log or bound.                *)
LEMMA HostMoves ==
    ASSUME HostInv, NEW h \in Hosts, NEW s \in HostState,
           host' = [host EXCEPT ![h] = s],
           h = Server /\ s.at \in {"invoking", "running"} => s.req \in Requests,
           policy' \in [Hosts -> SUBSET Capability],
           UNCHANGED <<client, log, logLost, invokes, exits>>
    PROVE  HostInv'
  <1>1. host' \in [Hosts -> HostState]
    BY DEF HostInv, HostTypeOK
  <1>2. ServerInvokesForRequests'
    BY DEF HostInv, HostTypeOK, ServerInvokesForRequests, Hosts
  <1>3. QED
    BY <1>1, <1>2 DEF HostInv, HostTypeOK

(* A step of one client that changes no host, log or bound.                *)
LEMMA ClientMoves ==
    ASSUME HostInv, NEW r \in Requests, NEW c \in ClientState,
           client' = [client EXCEPT ![r] = c],
           UNCHANGED <<host, policy, log, logLost, invokes, exits>>
    PROVE  HostInv'
  <1>1. client' \in [Requests -> ClientState]
    BY DEF HostInv, HostTypeOK
  <1>2. QED
    BY <1>1 DEF HostInv, HostTypeOK, ServerInvokesForRequests

(* invoke_function returns a status: the server has a request to log it    *)
(* for.                                                                    *)
LEMMA ReturnedTyped ==
    ASSUME HostInv, NEW h \in Hosts, NEW n \in U16, Returned(h, n),
           host[h].at \in {"invoking", "running"},
           UNCHANGED <<policy, client, log, logLost, invokes, exits>>
    PROVE  HostInv'
  <1> DEFINE s == IF h = Server
                  THEN [at |-> "logging", req |-> host[h].req,
                        entry |-> host[h].entry, status |-> n]
                  ELSE Ready
  <1>1. host' = [host EXCEPT ![h] = s]
    BY DEF Returned
  <1>2. host[h] \in HostState
    BY DEF HostInv, HostTypeOK
  <1>3. host[h].entry \in Entries
    BY <1>2, HostShape
  <1>4. h = Server => host[h].req \in Requests
    BY DEF HostInv, ServerInvokesForRequests
  <1>5. s \in HostState /\ s.at \notin {"invoking", "running"}
    BY <1>3, <1>4, HostForms DEF Ready
  <1> HIDE DEF s
  <1>6. policy' \in [Hosts -> SUBSET Capability]
    BY DEF HostInv, HostTypeOK
  <1>7. QED
    BY <1>1, <1>5, <1>6, HostMoves

(* The policy installed on a host is a set of capabilities.                *)
LEMMA LevelTyped == \A level : capability_set(level) \in SUBSET Capability
  BY DEF capability_set, Unrestricted, Capability

(* Every step of an invocation keeps the hosts typed.                      *)
LEMMA InvocationTyped ==
    ASSUME HostInv, NEW h \in Hosts, Invocation(h)
    PROVE  HostInv'
  <1>0. policy \in [Hosts -> SUBSET Capability] /\ host[h] \in HostState
    BY DEF HostInv, HostTypeOK
  <1>1. AsU16(500) \in U16 /\ 500 \in U16
    BY DEF U16, AsU16
  <1>2. CASE SourceUnreadable(h)
    BY <1>1, <1>2, ReturnedTyped DEF SourceUnreadable
  <1>3. CASE ApplyPolicy(h)
    <2> DEFINE s == [at |-> "running", req |-> host[h].req, entry |-> host[h].entry, used |-> {}]
    <2>1. host' = [host EXCEPT ![h] = s]
      BY <1>3 DEF ApplyPolicy
    <2>2. host[h].req \in Requests \union {NoRequest} /\ host[h].entry \in Entries
      BY <1>0, <1>3, HostShape DEF ApplyPolicy
    <2>3. {} \in SUBSET Operations
      OBVIOUS
    <2>4. s \in HostState /\ s.req = host[h].req
      BY <2>2, <2>3, HostForms
    <2> HIDE DEF s
    <2>5. h = Server => host[h].req \in Requests
      BY <1>3 DEF ApplyPolicy, HostInv, ServerInvokesForRequests
    <2>6. policy' \in [Hosts -> SUBSET Capability]
      BY <1>0, <1>3, LevelTyped DEF ApplyPolicy
    <2>7. QED
      BY <1>3, <2>1, <2>4, <2>5, <2>6, HostMoves DEF ApplyPolicy
  <1>4. CASE FunctionFails(h)
    BY <1>1, <1>4, ReturnedTyped DEF FunctionFails
  <1>5. CASE FunctionReturns(h)
    <2>1. PICK n \in Statuses : Returned(h, AsU16(n))
      BY <1>5 DEF FunctionReturns
    <2>2. AsU16(n) \in U16
      BY StatusCut, StatusesAssumption
    <2>3. QED
      BY <1>5, <2>1, <2>2, ReturnedTyped DEF FunctionReturns
  <1>6. QED
    BY <1>2, <1>3, <1>4, <1>5 DEF Invocation

(* Looking the function of a request up yields a request's state: the      *)
(* first of the matching entries is an entry.                              *)
LEMMA RouteTyped ==
    ASSUME RegistryTypeOK, HostInv, Route
    PROVE  HostInv'
  <1>0. Server \in Hosts /\ host[Server] \in HostState /\ policy \in [Hosts -> SUBSET Capability]
    BY DEF Hosts, HostInv, HostTypeOK
  <1> DEFINE r == host[Server].req
             matching == Routed(load_registry, host[Server].path)
             s == IF matching = {} THEN Responding(r, {}, 404)
                  ELSE Invoking(r, load_registry[First(matching)])
  <1>1. host' = [host EXCEPT ![Server] = s]
    BY DEF Route
  <1>2. r \in Requests
    BY <1>0, HostShape DEF Route
  <1>3. load_registry \in Seq(Entries)
    BY RegistryShape
  <1>4. ASSUME matching # {}
        PROVE  load_registry[First(matching)] \in Entries
    <2>1. matching \in SUBSET (1..Len(load_registry)) /\ Len(load_registry) \in Nat
      BY <1>3, LenProperties DEF Routed
    <2>2. First(matching) \in 1..Len(load_registry)
      BY <1>4, <2>1, FirstIn
    <2>3. QED
      BY <1>3, <2>2, LenProperties
  <1>5. 404 \in U16 /\ {} \in SUBSET Entries
    BY DEF U16
  <1> HIDE DEF matching, r
  <1>6. s \in HostState
    BY <1>2, <1>4, <1>5, HostForms
  <1>7. s.req = r
    BY DEF Responding, Invoking
  <1> HIDE DEF s
  <1>8. QED
    BY <1>0, <1>1, <1>2, <1>6, <1>7, HostMoves DEF Route

(* A request that is read is answered with an error, answered at once, or  *)
(* routed.                                                                 *)
LEMMA ReadTyped ==
    ASSUME HostInv, ReadRequest
    PROVE  HostInv'
  <1>0. Server \in Hosts /\ host[Server] \in HostState /\ policy \in [Hosts -> SUBSET Capability]
    BY DEF Hosts, HostInv, HostTypeOK
  <1> DEFINE r == host[Server].req
             s == CASE client[r].kind = "malformed" -> Responding(r, {}, 400)
                    [] client[r].kind = "dashboard" -> Responding(r, {}, 200)
                    [] OTHER -> [at |-> "routing", req |-> r, path |-> client[r].path]
  <1>1. host' = [host EXCEPT ![Server] = s]
    BY DEF ReadRequest
  <1>2. r \in Requests
    BY <1>0, HostShape DEF ReadRequest
  <1>3. client[r] \in ClientState /\ client[r].state = "sent"
    BY <1>2 DEF ReadRequest, HostInv, HostTypeOK
  <1>4. client[r].kind \notin {"malformed", "dashboard"} => client[r].path \in Paths
    BY <1>3, ClientShape
  <1>5. 400 \in U16 /\ 200 \in U16 /\ {} \in SUBSET Entries
    BY DEF U16
  <1>6. s \in HostState /\ s.req = r
    <2>1. CASE client[r].kind = "malformed"
      <3>1. s = Responding(r, {}, 400)
        BY <2>1
      <3>2. QED
        BY <1>2, <1>5, <3>1, HostForms DEF Responding
    <2>2. CASE client[r].kind = "dashboard"
      <3>1. s = Responding(r, {}, 200)
        BY <2>2
      <3>2. QED
        BY <1>2, <1>5, <3>1, HostForms DEF Responding
    <2>3. CASE client[r].kind \notin {"malformed", "dashboard"}
      <3>1. s = [at |-> "routing", req |-> r, path |-> client[r].path]
        BY <2>3
      <3>2. QED
        BY <1>2, <1>4, <2>3, <3>1, HostForms
    <2>4. QED
      BY <2>1, <2>2, <2>3
  <1> HIDE DEF s, r
  <1>7. QED
    BY <1>0, <1>1, <1>2, <1>6, HostMoves DEF ReadRequest

(* Every step of the hosts and of their clients keeps them typed.          *)
LEMMA HostStep == RegistryTypeOK /\ HostInv /\ [HostNext]_hostVars => HostInv'
  <1> SUFFICES ASSUME RegistryTypeOK, HostInv, [HostNext]_hostVars
               PROVE  HostInv'
    OBVIOUS
  <1>0. /\ Server \in Hosts /\ host[Server] \in HostState
        /\ policy \in [Hosts -> SUBSET Capability]
    BY DEF Hosts, HostInv, HostTypeOK
  <1>1. CASE UNCHANGED hostVars
    BY <1>1 DEF hostVars, HostInv, HostTypeOK, ServerInvokesForRequests
  <1>2. ASSUME NEW r \in Requests, Accept(r)
        PROVE  HostInv'
    <2> DEFINE s == [at |-> "reading", req |-> r]
    <2>1. s \in HostState /\ s.req = r
      BY HostForms
    <2>2. host' = [host EXCEPT ![Server] = s]
      BY <1>2 DEF Accept
    <2> HIDE DEF s
    <2>3. QED
      BY <1>0, <1>2, <2>1, <2>2, HostMoves DEF Accept
  <1>3. CASE ReadRequest
    BY <1>3, ReadTyped
  <1>4. CASE Route
    BY <1>4, RouteTyped
  <1>5. CASE LogInvocation
    <2> DEFINE e == host[Server].entry
               r == host[Server].req
               n == host[Server].status
               s == Responding(r, {e}, n)
    <2>1. e \in Entries /\ r \in Requests /\ n \in U16
      BY <1>0, <1>5, HostShape DEF LogInvocation
    <2>2. s \in HostState /\ s.at = "responding"
      <3>1. {e} \in SUBSET Entries
        BY <2>1
      <3>2. QED
        BY <2>1, <3>1, HostForms DEF Responding
    <2>3. host' = [host EXCEPT ![Server] = s]
      BY <1>5 DEF LogInvocation
    <2>4. \/ log' = log \union {LogLine(r, e, n)} /\ logLost' = logLost
          \/ logLost' = logLost \union {r} /\ log' = log
      BY <1>5 DEF LogInvocation
    <2>5. UNCHANGED <<policy, client, invokes, exits>>
      BY <1>5 DEF LogInvocation
    <2>6. LogLine(r, e, n).req = r /\ LogLine(r, e, n).status = n
      BY DEF LogLine
    <2> HIDE DEF s, r, n, e
    <2>7. host' \in [Hosts -> HostState]
      BY <2>2, <2>3 DEF HostInv, HostTypeOK
    <2>8. ServerInvokesForRequests'
      BY <1>0, <2>2, <2>3 DEF HostInv, HostTypeOK, ServerInvokesForRequests
    <2>9. logLost' \subseteq Requests
      BY <2>1, <2>4 DEF HostInv, HostTypeOK
    <2>10. \A l \in log' : l.req \in Requests /\ l.status \in U16
      BY <2>1, <2>4, <2>6 DEF HostInv, HostTypeOK
    <2>11. QED
      BY <2>5, <2>7, <2>8, <2>9, <2>10 DEF HostInv, HostTypeOK
  <1>6. CASE Respond
    <2> DEFINE now == host[Server]
               c == [state |-> "answered", by |-> now.by, status |-> now.status]
    <2>1. now.req \in Requests /\ now.by \in SUBSET Entries /\ now.status \in U16
      BY <1>0, <1>6, HostShape DEF Respond
    <2>2. c \in ClientState
      BY <2>1, ClientForms
    <2>3. client' = [client EXCEPT ![now.req] = c]
      BY <1>6 DEF Respond
    <2>4. host' = [host EXCEPT ![Server] = Ready] /\ Ready \in HostState /\ Ready.at = "ready"
      BY <1>6, HostForms DEF Respond, Ready
    <2> HIDE DEF c
    <2>5. client' \in [Requests -> ClientState]
      BY <2>1, <2>2, <2>3 DEF HostInv, HostTypeOK
    <2>6. host' \in [Hosts -> HostState]
      BY <2>4 DEF HostInv, HostTypeOK
    <2>7. ServerInvokesForRequests'
      BY <1>0, <2>4 DEF HostInv, HostTypeOK, ServerInvokesForRequests
    <2>8. QED
      BY <1>6, <2>5, <2>6, <2>7 DEF Respond, HostInv, HostTypeOK
  <1>7. CASE ServerStarts
    <2>1. Ready \in HostState /\ Ready.at = "ready"
      BY HostForms DEF Ready
    <2>2. policy' \in [Hosts -> SUBSET Capability]
      BY <1>0, <1>7 DEF ServerStarts, Unrestricted
    <2>3. QED
      BY <1>0, <1>7, <2>1, <2>2, HostMoves DEF ServerStarts
  <1>8. CASE ServerExits
    <2>1. host' = [host EXCEPT ![Server] = Down] /\ Down \in HostState /\ Down.at = "down"
      BY <1>8, HostForms DEF ServerExits, Down
    <2>2. \A r \in Requests : client'[r] \in ClientState
      BY <1>8, ClientForms DEF ServerExits, HostInv, HostTypeOK
    <2>3. client' \in [Requests -> ClientState]
      BY <1>8, <2>2 DEF ServerExits
    <2>4. exits' \in 0..MaxExits
      BY <1>8, BoundsAssumption DEF ServerExits, HostInv, HostTypeOK
    <2>5. host' \in [Hosts -> HostState]
      BY <2>1 DEF HostInv, HostTypeOK
    <2>6. ServerInvokesForRequests'
      BY <1>0, <2>1 DEF HostInv, HostTypeOK, ServerInvokesForRequests
    <2>7. QED
      BY <1>8, <2>3, <2>4, <2>5, <2>6 DEF ServerExits, HostInv, HostTypeOK
  <1>9. ASSUME NEW r \in Requests, ClientConnects(r) \/ ClientSends(r) \/ ClientTakes(r) \/ ConnectionError(r)
        PROVE  HostInv'
    <2>1. PICK c \in ClientState : client' = [client EXCEPT ![r] = c]
      <3>1. CASE ClientTakes(r)
        BY <3>1, TakingTyped DEF ClientTakes, HostInv
      <3>2. CASE ClientSends(r)
        BY <3>2, ClientForms DEF ClientSends
      <3>3. QED
        BY <1>9, <3>1, <3>2, ClientForms DEF ClientConnects, ConnectionError
    <2>2. UNCHANGED <<host, policy, log, logLost, invokes, exits>>
      BY <1>9 DEF ClientConnects, ClientSends, ClientTakes, ConnectionError
    <2>3. QED
      BY <2>1, <2>2, ClientMoves
  <1>10. ASSUME NEW h \in Invokers, NEW e \in Entries, InvokeByName(h, e)
         PROVE  HostInv'
    <2>1. h \in Hosts /\ h # Server
      BY HostsAssumption DEF Hosts
    <2>2. Invoking(NoRequest, e) \in HostState
      BY HostForms
    <2>3. host' = [host EXCEPT ![h] = Invoking(NoRequest, e)]
      BY <1>10 DEF InvokeByName
    <2>4. host' \in [Hosts -> HostState] /\ host'[Server] = host[Server]
      BY <1>0, <2>1, <2>2, <2>3 DEF HostInv, HostTypeOK
    <2>5. policy' \in [Hosts -> SUBSET Capability]
      BY <1>0, <1>10 DEF InvokeByName, Unrestricted
    <2>6. invokes' \in 0..MaxInvokes
      BY <1>10, BoundsAssumption DEF InvokeByName, HostInv, HostTypeOK
    <2>7. QED
      BY <1>10, <2>4, <2>5, <2>6 DEF InvokeByName, HostInv, HostTypeOK, ServerInvokesForRequests
  <1>11. ASSUME NEW h \in Hosts, Invocation(h)
         PROVE  HostInv'
    BY <1>11, InvocationTyped
  <1>12. ASSUME NEW h \in Hosts, NEW op \in Operations, PerformEffect(h, op)
         PROVE  HostInv'
    <2>1. host[h] \in HostState /\ host[h].at = "running" /\ op \in Operations
      BY <1>12 DEF PerformEffect, HostInv, HostTypeOK
    <2> DEFINE s == [host[h] EXCEPT !.used = @ \union {op}]
    <2>2. host' = [host EXCEPT ![h] = s]
      BY <1>12 DEF PerformEffect
    <2>3. s \in HostState /\ s.req = host[h].req /\ s.at = "running"
      BY <2>1 DEF HostState, Down, Ready
    <2> HIDE DEF s
    <2>4. h = Server => s.req \in Requests
      BY <2>1, <2>3 DEF HostInv, ServerInvokesForRequests
    <2>5. QED
      BY <1>0, <1>12, <2>2, <2>3, <2>4, HostMoves DEF PerformEffect
  <1>13. QED
    BY <1>1, <1>2, <1>3, <1>4, <1>5, <1>6, <1>7, <1>8, <1>9, <1>10, <1>11, <1>12
       DEF HostNext, ServerStep, Hosts

(* Registry and host are typed from the start, and every step keeps them so. *)
LEMMA TypeStart == Init => RegistryTypeOK /\ HostInv
  BY RegistryStart, HostStart DEF Init

LEMMA TypeStep == RegistryTypeOK /\ HostInv /\ [Next]_vars => RegistryTypeOK' /\ HostInv'
  <1> SUFFICES ASSUME RegistryTypeOK, HostInv, [Next]_vars
               PROVE  RegistryTypeOK' /\ HostInv'
    OBVIOUS
  <1>1. [RegistryNext]_registryVars /\ [HostNext]_hostVars
    BY DEF Next, vars
  <1>2. QED
    BY <1>1, RegistryStep, HostStep

(***************************************************************************)
(* Whatever the deploys, the server, the invocations and the clients do,   *)
(* every state of the host is one the code can be in: the registry a       *)
(* reader sees never has two entries of a name, what a request is routed   *)
(* to is an entry of the registry, and the server only ever runs a         *)
(* function for somebody who waits for its answer, with a 16-bit status.   *)
(***************************************************************************)
THEOREM TypeCorrect == Spec => []TypeOK
  <1>1. RegistryTypeOK /\ HostInv => TypeOK
    BY DEF HostInv, HostTypeOK, TypeOK
  <1>2. QED
    BY <1>1, TypeStart, TypeStep, PTL DEF Spec

-----------------------------------------------------------------------------
(* The answer the server is about to write is already in the log.          *)
PendingIsLogged ==
    host[Server].at = "responding" =>
        \A e \in host[Server].by :
            \/ LogLine(host[Server].req, e, host[Server].status) \in log
            \/ host[Server].req \in logLost

(* What keeps answers logged: also the one that is about to be written.    *)
LogInv == Domains /\ PendingIsLogged /\ AnswersAreLogged

(* The initial states satisfy the log invariant: nobody is answered.       *)
LEMMA LogInit == Init => LogInv
  BY DEF Init, HostInit, LogInv, Domains, PendingIsLogged, AnswersAreLogged, Down, Ready, Hosts

(* Logs only grow: a step that answers nobody and prepares no function's   *)
(* answer keeps the log invariant.                                         *)
LEMMA LogKeep ==
    ASSUME LogInv, Domains', log \subseteq log', logLost \subseteq logLost',
           \A r \in Requests : client'[r].state = "answered" => client'[r] = client[r],
           \/ host'[Server] = host[Server]
           \/ host'[Server].at # "responding"
           \/ host'[Server].by = {}
    PROVE  LogInv'
  <1>1. PendingIsLogged'
    BY DEF LogInv, PendingIsLogged, LogLine
  <1>2. AnswersAreLogged'
    BY DEF LogInv, AnswersAreLogged, LogLine
  <1>3. QED
    BY <1>1, <1>2 DEF LogInv

(* A step of one host that touches neither clients nor logs.               *)
LEMMA LogHostStep ==
    ASSUME LogInv, Domains', NEW h \in Hosts, NEW s, host' = [host EXCEPT ![h] = s],
           \/ h # Server
           \/ s.at # "responding"
           \/ s.by = {},
           UNCHANGED <<client, log, logLost>>
    PROVE  LogInv'
  <1>1. \/ host'[Server] = host[Server]
        \/ host'[Server].at # "responding"
        \/ host'[Server].by = {}
    BY DEF LogInv, Domains, Hosts
  <1>2. QED
    BY <1>1, LogKeep

(* invoke_function returning prepares no answer yet: first comes the log.  *)
LEMMA LogReturned ==
    ASSUME LogInv, Domains', NEW h \in Hosts, NEW status, Returned(h, status),
           UNCHANGED <<client, log, logLost>>
    PROVE  LogInv'
  <1> DEFINE s == IF h = Server
                  THEN [at |-> "logging", req |-> host[h].req,
                        entry |-> host[h].entry, status |-> status]
                  ELSE Ready
  <1>1. host' = [host EXCEPT ![h] = s]
    BY DEF Returned
  <1>2. s.at # "responding"
    BY DEF Ready
  <1> HIDE DEF s
  <1>3. QED
    BY <1>1, <1>2, LogHostStep

(* The log invariant is preserved by every step of an invocation.          *)
LEMMA LogInvocationStep ==
    ASSUME LogInv, Domains', NEW h \in Hosts, Invocation(h)
    PROVE  LogInv'
  <1>1. CASE SourceUnreadable(h)
    BY <1>1, LogReturned DEF SourceUnreadable
  <1>2. CASE ApplyPolicy(h)
    BY <1>2, LogHostStep DEF ApplyPolicy
  <1>3. CASE FunctionFails(h)
    BY <1>3, LogReturned DEF FunctionFails
  <1>4. CASE FunctionReturns(h)
    <2>1. PICK n \in Statuses : Returned(h, AsU16(n))
      BY <1>4 DEF FunctionReturns
    <2>2. QED
      BY <1>4, <2>1, LogReturned DEF FunctionReturns
  <1>5. QED
    BY <1>1, <1>2, <1>3, <1>4 DEF Invocation

(* The log invariant is preserved by every step.                           *)
LEMMA LogStep == SandboxInv /\ SandboxInv' /\ HostInv /\ LogInv /\ [Next]_vars => LogInv'
  <1> SUFFICES ASSUME SandboxInv, SandboxInv', HostInv, LogInv, [Next]_vars
               PROVE  LogInv'
    OBVIOUS
  <1>0. Server \in Hosts /\ Domains /\ Domains'
    BY DEF Hosts, SandboxInv
  <1>1. CASE UNCHANGED hostVars
    BY <1>0, <1>1, LogKeep DEF hostVars
  <1>2. ASSUME NEW r \in Requests, Accept(r)
        PROVE  LogInv'
    BY <1>0, <1>2, LogHostStep DEF Accept
  <1>3. CASE ReadRequest
    <2> DEFINE r == host[Server].req
               s == CASE client[r].kind = "malformed" -> Responding(r, {}, 400)
                      [] client[r].kind = "dashboard" -> Responding(r, {}, 200)
                      [] OTHER -> [at |-> "routing", req |-> r, path |-> client[r].path]
    <2>1. host' = [host EXCEPT ![Server] = s]
      BY <1>3 DEF ReadRequest
    <2>2. s.at # "responding" \/ s.by = {}
      BY DEF Responding
    <2> HIDE DEF s
    <2>3. QED
      BY <1>0, <1>3, <2>1, <2>2, LogHostStep DEF ReadRequest
  <1>4. CASE Route
    <2> DEFINE matching == Routed(load_registry, host[Server].path)
               s == IF matching = {} THEN Responding(host[Server].req, {}, 404)
                    ELSE Invoking(host[Server].req, load_registry[First(matching)])
    <2>1. host' = [host EXCEPT ![Server] = s]
      BY <1>4 DEF Route
    <2>2. s.at # "responding" \/ s.by = {}
      BY DEF Responding, Invoking
    <2> HIDE DEF s
    <2>3. QED
      BY <1>0, <1>4, <2>1, <2>2, LogHostStep DEF Route
  <1>5. CASE LogInvocation
    <2> DEFINE e == host[Server].entry
               r == host[Server].req
               status == host[Server].status
    <2>1. /\ log \subseteq log' /\ logLost \subseteq logLost'
          /\ LogLine(r, e, status) \in log' \/ r \in logLost'
          /\ UNCHANGED client
      BY <1>5 DEF LogInvocation
    <2>2. host'[Server] = Responding(r, {e}, status)
      BY <1>0, <1>5 DEF LogInvocation, Domains
    <2>3. PendingIsLogged'
      BY <2>1, <2>2 DEF PendingIsLogged, Responding, LogLine
    <2>4. AnswersAreLogged'
      BY <2>1 DEF LogInv, AnswersAreLogged, LogLine
    <2>5. QED
      BY <1>0, <2>3, <2>4 DEF LogInv
  <1>6. CASE Respond
    <2>1. UNCHANGED <<log, logLost>> /\ host'[Server].at # "responding"
      BY <1>0, <1>6 DEF Respond, Ready, Domains
    <2>2. ASSUME NEW r \in Requests, client'[r].state = "answered",
                 NEW e \in client'[r].by
          PROVE  LogLine(r, e, client'[r].status) \in log \/ r \in logLost
      <3>1. CASE r = host[Server].req
        BY <1>0, <1>6, <2>2, <3>1 DEF Respond, LogInv, PendingIsLogged, Domains
      <3>2. CASE r # host[Server].req
        BY <1>0, <1>6, <2>2, <3>2 DEF Respond, LogInv, AnswersAreLogged, Domains
      <3>3. QED
        BY <3>1, <3>2
    <2>3. QED
      BY <1>0, <2>1, <2>2 DEF LogInv, PendingIsLogged, AnswersAreLogged, LogLine
  <1>7. CASE ServerStarts
    BY <1>0, <1>7, LogHostStep DEF ServerStarts, Ready
  <1>8. CASE ServerExits
    <2>1. \A r \in Requests : client'[r].state = "answered" => client'[r] = client[r]
      BY <1>8 DEF ServerExits
    <2>2. host'[Server].at # "responding"
      BY <1>0, <1>8 DEF ServerExits, Down, Domains
    <2>3. QED
      BY <1>0, <1>8, <2>1, <2>2, LogKeep DEF ServerExits
  <1>9. ASSUME NEW r \in Requests, ClientConnects(r) \/ ClientSends(r) \/ ClientTakes(r) \/ ConnectionError(r)
        PROVE  LogInv'
    <2>1. PICK s : client' = [client EXCEPT ![r] = s] /\ s.state # "answered"
      <3>1. CASE ClientTakes(r)
        BY <3>1, TakingTyped DEF ClientTakes, HostInv
      <3>2. CASE ClientSends(r)
        BY <3>2 DEF ClientSends
      <3>3. QED
        BY <1>9, <3>1, <3>2 DEF ClientConnects, ConnectionError
    <2>2. \A o \in Requests : client'[o].state = "answered" => client'[o] = client[o]
      BY <1>0, <2>1 DEF Domains
    <2>3. QED
      BY <1>0, <1>9, <2>2, LogKeep DEF ClientConnects, ClientSends, ClientTakes, ConnectionError
  <1>10. ASSUME NEW h \in Invokers, NEW e \in Entries, InvokeByName(h, e)
         PROVE  LogInv'
    BY <1>0, <1>10, LogHostStep DEF InvokeByName, Invoking, Hosts
  <1>11. ASSUME NEW h \in Hosts, Invocation(h)
         PROVE  LogInv'
    BY <1>0, <1>11, LogInvocationStep
  <1>12. ASSUME NEW h \in Hosts, NEW op \in Operations, PerformEffect(h, op)
         PROVE  LogInv'
    <2>1. host'[Server] = host[Server] \/ host'[Server].at # "responding"
      BY <1>0, <1>12 DEF PerformEffect, Domains, SandboxInv, PolicyInForce
    <2>2. QED
      BY <1>0, <1>12, <2>1, LogKeep DEF PerformEffect
  <1>13. CASE HostNext
    BY <1>0, <1>2, <1>3, <1>4, <1>5, <1>6, <1>7, <1>8, <1>9, <1>10, <1>11, <1>12, <1>13
       DEF HostNext, ServerStep, Hosts
  <1>14. QED
    BY <1>1, <1>13 DEF Next, vars, hostVars

(***************************************************************************)
(* No client ever holds a function's answer that its log does not have,    *)
(* wherever the server process dies.                                       *)
(***************************************************************************)
THEOREM AnswersLogged == Spec => []AnswersAreLogged
  <1>1. LogInv => AnswersAreLogged
    BY DEF LogInv
  <1>2. QED
    BY <1>1, SandboxInit, SandboxStep, TypeStart, TypeStep, LogInit, LogStep, PTL DEF Spec

-----------------------------------------------------------------------------
(* Deploys that nothing disturbs.                                          *)

(***************************************************************************)
(* One deploy at a time.  Until it opens the file, what it will write is   *)
(* the registry with its own entry replaced; from then on the file is      *)
(* empty, so what it writes is the whole file.  An acknowledged entry is   *)
(* in the registry, or is among what the deploy is about to write, or has  *)
(* the name of what that deploy puts in its place.                         *)
(***************************************************************************)
Calm ==
    ~disturbed =>
        /\ \A d, o \in Deployers : dep[d].at # "idle" /\ dep[o].at # "idle" => d = o
        /\ \A d \in Deployers :
             dep[d].at = "loaded" => dep[d].entries = Replaced(load_registry, dep[d].entry)
        /\ \A d \in Deployers : dep[d].at = "opened" => registry.state = "empty"
        /\ \A d \in Deployers : dep[d].at # "idle" => Holds(dep[d].entries, dep[d].entry)
        /\ \A e \in acked :
             \/ Holds(load_registry, e)
             \/ \E d \in Deployers :
                  /\ dep[d].at = "opened"
                  /\ dep[d].entry.name = e.name \/ Holds(dep[d].entries, e)

(* An idle deployer stays what it is while another one moves.              *)
LEMMA OnlyOneMoves ==
    ASSUME RegistryTypeOK, NEW d \in Deployers, NEW s, dep' = [dep EXCEPT ![d] = s]
    PROVE  dep'[d] = s /\ \A o \in Deployers : o # d => dep'[o] = dep[o]
  BY DEF RegistryTypeOK

(* An empty registry holds nothing.                                        *)
LEMMA EmptyHolds == \A e : ~Holds(<<>>, e)
  BY DEF Holds

(* A deploy that starts finds everybody idle, or is a disturbance.         *)
LEMMA CalmLoad ==
    ASSUME RegistryTypeOK, Calm, NEW d \in Deployers, NEW e \in Entries, LoadForDeploy(d, e)
    PROVE  Calm'
  <1> SUFFICES ASSUME ~disturbed'
               PROVE  Calm'
    BY DEF Calm
  <1>1. ~disturbed /\ \A o \in Deployers : dep[o].at = "idle"
    BY DEF LoadForDeploy
  <1> DEFINE s == [at |-> "loaded", entry |-> e, entries |-> Replaced(load_registry, e)]
  <1>2. dep' = [dep EXCEPT ![d] = s]
    BY DEF LoadForDeploy
  <1>3. load_registry' = load_registry /\ acked' = acked
    BY DEF LoadForDeploy, load_registry
  <1>4. Holds(Replaced(load_registry, e), e)
    BY RegistryShape, ReplacedKeeps
  <1>5. s.at = "loaded" /\ s.entry = e /\ s.entries = Replaced(load_registry, e)
    OBVIOUS
  <1> HIDE DEF s
  <1>6. dep'[d] = s /\ \A o \in Deployers : o # d => dep'[o].at = "idle"
    BY <1>1, <1>2, OnlyOneMoves
  <1>7. \A a \in acked : Holds(load_registry, a)
    BY <1>1 DEF Calm
  <1>8. Replaced(load_registry, e)' = Replaced(load_registry, e)
    BY <1>3
  <1>9. QED
    BY <1>3, <1>4, <1>5, <1>6, <1>7 DEF Calm

(* Opening the file empties it: what was there is in the deploy's copy.    *)
LEMMA CalmTruncate ==
    ASSUME RegistryTypeOK, Calm, NEW d \in Deployers, TruncateRegistry(d)
    PROVE  Calm'
  <1> SUFFICES ASSUME ~disturbed'
               PROVE  Calm'
    BY DEF Calm
  <1>1. ~disturbed /\ dep[d].at = "loaded"
    BY DEF TruncateRegistry
  <1>2. /\ dep[d] \in Deploys /\ dep[d].entry \in Entries
        /\ dep[d].entries = Replaced(load_registry, dep[d].entry)
        /\ Holds(dep[d].entries, dep[d].entry)
        /\ \A o \in Deployers : o # d => dep[o].at = "idle"
    BY <1>1, UnderWay DEF Calm
  <1> DEFINE s == [dep[d] EXCEPT !.at = "opened"]
  <1>3. dep' = [dep EXCEPT ![d] = s]
    BY DEF TruncateRegistry
  <1>4. s.at = "opened" /\ s.entry = dep[d].entry /\ s.entries = dep[d].entries
    BY <1>2 DEF Deploys
  <1> HIDE DEF s
  <1>5. dep'[d] = s /\ \A o \in Deployers : o # d => dep'[o].at = "idle"
    BY <1>2, <1>3, OnlyOneMoves
  <1>6. registry'.state = "empty" /\ acked' = acked
    BY DEF TruncateRegistry, Empty
  <1>7. ASSUME NEW a \in acked
        PROVE  s.entry.name = a.name \/ Holds(s.entries, a)
    <2>1. Holds(load_registry, a)
      BY <1>1, <1>2, <1>7 DEF Calm
    <2>2. a.name # dep[d].entry.name => Holds(Replaced(load_registry, dep[d].entry), a)
      BY <1>2, <2>1, RegistryShape, ReplacedKeeps
    <2>3. QED
      BY <1>2, <1>4, <2>2
  <1>8. QED
    BY <1>2, <1>4, <1>5, <1>6, <1>7 DEF Calm

(* Writing the text over the empty file makes it the registry.             *)
LEMMA CalmWrite ==
    ASSUME RegistryTypeOK, Calm, NEW d \in Deployers, WriteRegistry(d)
    PROVE  Calm'
  <1> SUFFICES ASSUME ~disturbed'
               PROVE  Calm'
    BY DEF Calm
  <1>1. ~disturbed /\ dep[d].at = "opened"
    BY DEF WriteRegistry
  <1>2. /\ registry.state = "empty"
        /\ Holds(dep[d].entries, dep[d].entry)
        /\ \A o \in Deployers : o # d => dep[o].at = "idle"
    BY <1>1 DEF Calm
  <1>3. dep' = [dep EXCEPT ![d] = Idle] /\ Idle.at = "idle"
    BY DEF WriteRegistry, Acknowledge, Idle
  <1>4. \A o \in Deployers : dep'[o].at = "idle"
    <2>1. dep'[d] = Idle /\ \A o \in Deployers : o # d => dep'[o] = dep[o]
      BY <1>3, OnlyOneMoves
    <2>2. QED
      BY <1>2, <1>3, <2>1
  <1>5. registry' = Json(dep[d].entries)
    BY <1>2 DEF WriteRegistry, Overwrites
  <1>6. load_registry' = dep[d].entries
    BY <1>5 DEF load_registry, Json
  <1>7. load_registry = <<>>
    BY <1>2 DEF load_registry
  <1>8. ASSUME NEW a \in acked'
        PROVE  Holds(load_registry', a)
    <2>1. CASE a = dep[d].entry
      BY <1>2, <1>6, <2>1
    <2>2. CASE a \in acked /\ a.name # dep[d].entry.name
      <3>1. ~Holds(load_registry, a)
        BY <1>7, EmptyHolds
      <3>2. \E o \in Deployers :
              /\ dep[o].at = "opened"
              /\ dep[o].entry.name = a.name \/ Holds(dep[o].entries, a)
        BY <1>1, <2>2, <3>1 DEF Calm
      <3>3. Holds(dep[d].entries, a)
        BY <1>2, <2>2, <3>2
      <3>4. QED
        BY <1>6, <3>3
    <2>3. QED
      BY <1>8, <2>1, <2>2 DEF WriteRegistry, Acknowledge
  <1>9. QED
    BY <1>4, <1>8 DEF Calm

(* A deploy that is killed before it opened the file changes nothing.      *)
LEMMA CalmKill ==
    ASSUME RegistryTypeOK, Calm, NEW d \in Deployers, KillDeploy(d)
    PROVE  Calm'
  <1> SUFFICES ASSUME ~disturbed'
               PROVE  Calm'
    BY DEF Calm
  <1>1. dep[d].at = "loaded" /\ UNCHANGED <<registry, disturbed, acked>>
    BY DEF KillDeploy
  <1>2. \A o \in Deployers : o # d => dep[o].at = "idle"
    BY <1>1 DEF Calm
  <1>3. dep' = [dep EXCEPT ![d] = Idle] /\ Idle.at = "idle"
    BY DEF KillDeploy, Idle
  <1>4. \A o \in Deployers : dep'[o].at = "idle"
    <2>1. dep'[d] = Idle /\ \A o \in Deployers : o # d => dep'[o] = dep[o]
      BY <1>3, OnlyOneMoves
    <2>2. QED
      BY <1>2, <1>3, <2>1
  <1>5. load_registry' = load_registry
    BY <1>1 DEF load_registry
  <1>6. \A a \in acked : Holds(load_registry, a)
    BY <1>1, <1>2 DEF Calm
  <1>7. QED
    BY <1>1, <1>4, <1>5, <1>6 DEF Calm

(* Every step of a deploy keeps the calm there is.                         *)
LEMMA CalmStep == RegistryTypeOK /\ Calm /\ [RegistryNext]_registryVars => Calm'
  <1> SUFFICES ASSUME RegistryTypeOK, Calm, [RegistryNext]_registryVars
               PROVE  Calm'
    OBVIOUS
  <1>1. ASSUME NEW d \in Deployers, SaveFails(d)
        PROVE  Calm'
    BY <1>1 DEF SaveFails, Calm
  <1>2. CASE UNCHANGED registryVars
    BY <1>2 DEF registryVars, Calm, load_registry
  <1>3. QED
    BY <1>1, <1>2, CalmLoad, CalmTruncate, CalmWrite, CalmKill DEF RegistryNext

(* Where names are distinct, calm is what a reader of the registry sees.   *)
LEMMA CalmFinds == RegistryTypeOK /\ Calm => UndisturbedDeploysSurvive
  <1> SUFFICES ASSUME RegistryTypeOK, Calm, ~disturbed, NEW e \in acked
               PROVE  \/ Finds(load_registry, e)
                      \/ \E d \in Deployers :
                           /\ dep[d].at = "opened"
                           /\ \/ Finds(dep[d].entries, e)
                              \/ dep[d].entry.name = e.name
    BY DEF UndisturbedDeploysSurvive
  <1>1. Holds(load_registry, e) => Finds(load_registry, e)
    BY RegistryShape, FindsHeld
  <1>2. ASSUME NEW d \in Deployers, dep[d].at = "opened", Holds(dep[d].entries, e)
        PROVE  Finds(dep[d].entries, e)
    <2>1. dep[d].entries \in Seq(Entries) /\ DistinctNames(dep[d].entries)
      BY <1>2, UnderWay DEF FunctionEntries
    <2>2. QED
      BY <1>2, <2>1, FindsHeld
  <1>3. QED
    BY <1>1, <1>2 DEF Calm

(***************************************************************************)
(* As long as deploys neither overlap nor fail nor are killed while they   *)
(* write, no acknowledged deploy is lost, through any number of later      *)
(* deploys: the read-edit-write of the whole file loses nothing by itself. *)
(***************************************************************************)
THEOREM DeploysSurvive == Spec => []UndisturbedDeploysSurvive
  <1>1. Init => RegistryTypeOK /\ Calm
    <2>1. RegistryInit => Calm
      BY DEF RegistryInit, Calm, Idle
    <2>2. QED
      BY <2>1, RegistryStart DEF Init
  <1>2. RegistryTypeOK /\ Calm /\ [Next]_vars => RegistryTypeOK' /\ Calm'
    <2> SUFFICES ASSUME RegistryTypeOK, Calm, [Next]_vars
                 PROVE  RegistryTypeOK' /\ Calm'
      OBVIOUS
    <2>1. [RegistryNext]_registryVars
      BY DEF Next, vars
    <2>2. QED
      BY <2>1, RegistryStep, CalmStep
  <1>3. QED
    BY <1>1, <1>2, CalmFinds, PTL DEF Spec
===============================================================================
