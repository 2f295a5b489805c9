----------------------------- MODULE FunctionsHost -----------------------------
(***************************************************************************)
(* The function host of crates/nexl-cli/src/functions.rs: the sequential   *)
(* HTTP server of `nexl functions serve' and the one-shot processes of     *)
(* `nexl functions invoke', running deployed functions under the sandbox   *)
(* policy of crates/nexl-runtime/src/sandbox.rs while deploys rewrite the  *)
(* registry they read (module FunctionRegistry).                           *)
(*                                                                         *)
(* Each host process has one thread, hence one thread-local policy, which  *)
(* nothing resets between two invocations.  What a function does is        *)
(* arbitrary: it calls operations, fails, returns or ends the process.     *)
(***************************************************************************)
EXTENDS Integers, FunctionRegistry

CONSTANTS
    Server,      \* the process of `nexl functions serve'
    Invokers,    \* processes of `nexl functions invoke'
    Requests,    \* connections clients open to the server
    NoRequest,   \* what an invocation from the command line answers to
    Paths,       \* request paths, each a sequence of segments
    Operations,  \* effectful operations functions call
    Statuses,    \* integers `handle' returns as the status
    MaxInvokes,  \* bound of the model: functions invoked from the command line
    MaxExits     \* bound of the model: server processes that die

Hosts == {Server} \union Invokers

ASSUME HostsAssumption == Server \notin Invokers
ASSUME NoRequestAssumption == NoRequest \notin Requests
ASSUME StatusesAssumption == Statuses \subseteq Int
ASSUME BoundsAssumption == MaxInvokes \in Nat /\ MaxExits \in Nat

VARIABLES
    host,      \* each host process: what it is doing
    policy,    \* each host process: the thread-local SANDBOX_POLICY
    client,    \* each connection, from the client's side
    log,       \* lines appended to .nexl-functions/logs/<name>.jsonl
    logLost,   \* history: requests whose log line could not be appended
    invokes,   \* command-line invocations so far
    exits      \* server processes that died so far

hostVars == <<host, policy, client, log, logLost, invokes, exits>>
vars == <<registryVars, hostVars>>

(* sandbox.rs.  A policy is the set of capabilities it allows; the         *)
(* unrestricted policy (allowed: None) allows them all.                    *)
Capability ==
    {"Console", "FileSystem", "Time", "Net", "Random", "Concurrent", "Unsafe"}

(* What an effectful operation does, and the capabilities it asks the      *)
(* policy for before it does it.  Beside the things a capability stands    *)
(* for, operations touch some that none does.                              *)
Touched == Capability \union {"Process", "Environment", "Database"}

ASSUME OperationsAssumption ==
    Operations \subseteq [does : SUBSET Touched, asks : SUBSET Capability]

(* The operation asks for everything it does: those of io.rs, net.rs,      *)
(* http.rs, async_mod.rs and time.rs.  Those of db.rs, `env/set',          *)
(* `env/load-dotenv', `load' and `uuid/v4' ask for nothing, and            *)
(* `process/run', `run-with' and `spawn' for the console.                  *)
Guarded(op) == op.does \subseteq op.asks

Unrestricted == Capability

capability_set(level) ==
    CASE level = "pure"      -> {}
      [] level = "read-only" -> {"Console", "FileSystem"}
      [] OTHER               -> Unrestricted

(* functions.rs, route_matches: segment by segment, a ":"-segment (here    *)
(* any member of Params) matches whatever stands there.                    *)
Params == {":param"}

route_matches(pattern, path) ==
    /\ Len(pattern) = Len(path)
    /\ \A i \in DOMAIN pattern : pattern[i] \in Params \/ pattern[i] = path[i]

Routed(s, path) == {i \in DOMAIN s : route_matches(s[i].route, path)}

WideStatus(n) == n

(* parse_response_value: the status is cut to 16 bits (`as u16').          *)
U16 == 0..65535

AsU16(n) == n % 65536

-----------------------------------------------------------------------------
Down  == [at |-> "down"]
Ready == [at |-> "ready"]

HostInit ==
    /\ host = [h \in Hosts |-> IF h = Server THEN Down ELSE Ready]
    /\ policy = [h \in Hosts |-> Unrestricted]
    /\ client = [r \in Requests |-> [state |-> "idle"]]
    /\ log = {}
    /\ logLost = {}
    /\ invokes = 0
    /\ exits = 0

(* Clients connect and send a request, or send nothing for as long as they *)
(* like; one that hangs up has sent a malformed request.  A client that    *)
(* sent `takes' the answer when it reads it, is gone, or its socket's      *)
(* buffers hold what the server writes; it may never come to it.           *)
ClientConnects(r) ==
    /\ client[r].state = "idle"
    /\ host[Server].at # "down"
    /\ client' = [client EXCEPT ![r] = [state |-> "open"]]
    /\ UNCHANGED <<host, policy, log, logLost, invokes, exits>>

ClientSends(r) ==
    /\ client[r].state = "open"
    /\ \E takes \in BOOLEAN :
          \/ \E kind \in {"malformed", "dashboard"} :
               client' = [client EXCEPT ![r] = [state |-> "sent", kind |-> kind, takes |-> takes]]
          \/ \E path \in Paths :
               client' = [client EXCEPT ![r] =
                   [state |-> "sent", kind |-> "function", path |-> path, takes |-> takes]]
    /\ UNCHANGED <<host, policy, log, logLost, invokes, exits>>

ClientTakes(r) ==
    /\ client[r].state = "sent"
    /\ ~client[r].takes
    /\ client' = [client EXCEPT ![r].takes = TRUE]
    /\ UNCHANGED <<host, policy, log, logLost, invokes, exits>>

-----------------------------------------------------------------------------
(* cmd_serve: one connection at a time, on one thread.                     *)
ServerStarts ==
    /\ host[Server].at = "down"
    /\ host' = [host EXCEPT ![Server] = Ready]
    /\ policy' = [policy EXCEPT ![Server] = Unrestricted]
    /\ UNCHANGED <<client, log, logLost, invokes, exits>>

Accept(r) ==
    /\ host[Server].at = "ready"
    /\ client[r].state \in {"open", "sent"}
    /\ host' = [host EXCEPT ![Server] = [at |-> "reading", req |-> r]]
    /\ UNCHANGED <<policy, client, log, logLost, invokes, exits>>

(* The socket cannot be cloned: handle_connection returns at once.         *)
ConnectionError(r) ==
    /\ host[Server].at = "ready"
    /\ client[r].state \in {"open", "sent"}
    /\ client' = [client EXCEPT ![r] = [state |-> "dropped"]]
    /\ UNCHANGED <<host, policy, log, logLost, invokes, exits>>

Responding(r, by, status) ==
    [at |-> "responding", req |-> r, by |-> by, status |-> status]

(* parse_request blocks until the client has sent its request.             *)
WaitingReadRequest ==
    /\ host[Server].at = "reading"
    /\ LET r == host[Server].req IN
       /\ client[r].state = "sent"
       /\ client[r].kind # "malformed"
       /\ host' = [host EXCEPT ![Server] =
            IF client[r].kind = "dashboard"
            THEN Responding(r, {}, 200)
            ELSE [at |-> "routing", req |-> r, path |-> client[r].path]]
    /\ UNCHANGED <<policy, client, log, logLost, invokes, exits>>

ReadRequest ==
    /\ host[Server].at = "reading"
    /\ LET r == host[Server].req IN
       /\ client[r].state = "sent"
       /\ host' = [host EXCEPT ![Server] =
            CASE client[r].kind = "malformed" -> Responding(r, {}, 400)
              [] client[r].kind = "dashboard" -> Responding(r, {}, 200)
              [] OTHER -> [at |-> "routing", req |-> r, path |-> client[r].path]]
    /\ UNCHANGED <<policy, client, log, logLost, invokes, exits>>

Invoking(r, e) == [at |-> "invoking", req |-> r, entry |-> e]

(* The registry is read once per request; the first matching entry wins.   *)
Route ==
    /\ host[Server].at = "routing"
    /\ LET r == host[Server].req
           s == load_registry
           matching == Routed(s, host[Server].path)
       IN  host' = [host EXCEPT ![Server] =
             IF matching = {} THEN Responding(r, {}, 404)
             ELSE Invoking(r, s[First(matching)])]
    /\ UNCHANGED <<policy, client, log, logLost, invokes, exits>>

(* cmd_invoke: a process of its own, so a policy of its own.               *)
InvokeByName(h, e) ==
    /\ h \in Invokers
    /\ host[h].at = "ready"
    /\ invokes < MaxInvokes
    /\ invokes' = invokes + 1
    /\ Finds(load_registry, e)
    /\ host' = [host EXCEPT ![h] = Invoking(NoRequest, e)]
    /\ policy' = [policy EXCEPT ![h] = Unrestricted]
    /\ UNCHANGED <<client, log, logLost, exits>>

-----------------------------------------------------------------------------
(* invoke_function returned: the server logs and answers, cmd_invoke just  *)
(* prints.                                                                 *)
Returned(h, status) ==
    host' = [host EXCEPT ![h] =
        IF h = Server
        THEN [at |-> "logging", req |-> host[h].req, entry |-> host[h].entry, status |-> status]
        ELSE Ready]

(* The function's file is read before the policy is installed.             *)
SourceUnreadable(h) ==
    /\ host[h].at = "invoking"
    /\ Returned(h, 500)
    /\ UNCHANGED <<policy, client, log, logLost, invokes, exits>>

StickyApplyPolicy(h) ==
    /\ host[h].at = "invoking"
    /\ policy' = [policy EXCEPT ![h] =
         IF @ = Unrestricted THEN capability_set(host[h].entry.capability) ELSE @]
    /\ host' = [host EXCEPT ![h] =
         [at |-> "running", req |-> @.req, entry |-> @.entry, used |-> {}]]
    /\ UNCHANGED <<client, log, logLost, invokes, exits>>

ApplyPolicy(h) ==
    /\ host[h].at = "invoking"
    /\ policy' = [policy EXCEPT ![h] = capability_set(host[h].entry.capability)]
    /\ host' = [host EXCEPT ![h] =
         [at |-> "running", req |-> @.req, entry |-> @.entry, used |-> {}]]
    /\ UNCHANGED <<client, log, logLost, invokes, exits>>

(* An effectful operation first checks what it asks for, if anything.  A   *)
(* refusal is an error, which ends the invocation (FunctionFails) unless   *)
(* the function catches it, and then nothing has happened.                 *)
PerformEffect(h, op) ==
    /\ host[h].at = "running"
    /\ op.asks \subseteq policy[h]
    /\ host' = [host EXCEPT ![h].used = @ \union {op}]
    /\ UNCHANGED <<policy, client, log, logLost, invokes, exits>>

(* Parsing, expansion, evaluation, the lookup of `handle', the call or the *)
(* reading of its result failed.                                           *)
UnloggedFunctionFails(h) ==
    /\ host[h].at = "running"
    /\ host' = [host EXCEPT ![h] =
         IF h = Server THEN Responding(@.req, {@.entry}, 500) ELSE Ready]
    /\ UNCHANGED <<policy, client, log, logLost, invokes, exits>>

FunctionFails(h) ==
    /\ host[h].at = "running"
    /\ Returned(h, 500)
    /\ UNCHANGED <<policy, client, log, logLost, invokes, exits>>

FunctionReturns(h) ==
    /\ host[h].at = "running"
    /\ \E n \in Statuses : Returned(h, AsU16(n))
    /\ UNCHANGED <<policy, client, log, logLost, invokes, exits>>

LogLine(r, e, status) == [req |-> r, name |-> e.name, status |-> status]

(* log_invocation appends one line; its errors are dropped.                *)
LogInvocation ==
    /\ host[Server].at = "logging"
    /\ LET e == host[Server].entry
           r == host[Server].req
           status == host[Server].status
       IN  /\ \/ /\ log' = log \union {LogLine(r, e, status)}
                 /\ UNCHANGED logLost
              \/ /\ logLost' = logLost \union {r}
                 /\ UNCHANGED log
           /\ host' = [host EXCEPT ![Server] = Responding(r, {e}, status)]
    /\ UNCHANGED <<policy, client, invokes, exits>>

(* write_response, and back to the accept loop.  The write blocks, with no *)
(* timeout, until the client takes the answer.                             *)
Respond ==
    /\ host[Server].at = "responding"
    /\ client[host[Server].req].takes
    /\ LET now == host[Server] IN
       client' = [client EXCEPT ![now.req] =
                    [state |-> "answered", by |-> now.by, status |-> now.status]]
    /\ host' = [host EXCEPT ![Server] = Ready]
    /\ UNCHANGED <<policy, log, logLost, invokes, exits>>

(* The server process dies: killed, or ended by the function it is running *)
(* (`sys/exit').  Its connections are closed, also those not yet accepted. *)
ServerExits ==
    /\ host[Server].at # "down"
    /\ exits < MaxExits
    /\ exits' = exits + 1
    /\ host' = [host EXCEPT ![Server] = Down]
    /\ client' = [r \in Requests |->
         IF client[r].state \in {"open", "sent"} THEN [state |-> "dropped"] ELSE client[r]]
    /\ UNCHANGED <<policy, log, logLost, invokes>>

-----------------------------------------------------------------------------
Init == RegistryInit /\ HostInit

Invocation(h) ==
    \/ SourceUnreadable(h)
    \/ ApplyPolicy(h)
    \/ FunctionFails(h)
    \/ FunctionReturns(h)

(* What the server does by itself, given that its functions return and     *)
(* its clients send and take.                                              *)
ServerStep ==
    \/ \E r \in Requests : Accept(r)
    \/ ReadRequest
    \/ Route
    \/ Invocation(Server)
    \/ LogInvocation
    \/ Respond

HostNext ==
    \/ ServerStep
    \/ ServerStarts
    \/ ServerExits
    \/ \E r \in Requests :
          ClientConnects(r) \/ ClientSends(r) \/ ClientTakes(r) \/ ConnectionError(r)
    \/ \E h \in Invokers : (\E e \in Entries : InvokeByName(h, e)) \/ Invocation(h)
    \/ \E h \in Hosts, op \in Operations : PerformEffect(h, op)

Next ==
    \/ RegistryNext /\ UNCHANGED hostVars
    \/ HostNext /\ UNCHANGED registryVars

Spec == Init /\ [][Next]_vars

(* The server's thread is scheduled, and functions terminate.              *)
FairSpec == Spec /\ WF_vars(ServerStep /\ UNCHANGED registryVars)

-----------------------------------------------------------------------------
HostState ==
         {Down, Ready}
  \union [at : {"reading"}, req : Requests]
  \union [at : {"routing"}, req : Requests, path : Paths]
  \union [at : {"invoking"}, req : Requests \union {NoRequest}, entry : Entries]
  \union [at : {"running"}, req : Requests \union {NoRequest}, entry : Entries,
          used : SUBSET Operations]
  \union [at : {"logging"}, req : Requests, entry : Entries, status : U16]
  \union [at : {"responding"}, req : Requests, by : SUBSET Entries, status : U16]

ClientState ==
         [state : {"idle", "open", "dropped"}]
  \union [state : {"sent"}, kind : {"malformed", "dashboard"}, takes : BOOLEAN]
  \union [state : {"sent"}, kind : {"function"}, path : Paths, takes : BOOLEAN]
  \union [state : {"answered"}, by : SUBSET Entries, status : U16]

TypeOK ==
    /\ RegistryTypeOK
    /\ host \in [Hosts -> HostState]
    /\ policy \in [Hosts -> SUBSET Capability]
    /\ client \in [Requests -> ClientState]
    /\ \A l \in log : l.req \in Requests /\ l.status \in U16
    /\ logLost \subseteq Requests
    /\ invokes \in 0..MaxInvokes
    /\ exits \in 0..MaxExits

(***************************************************************************)
(* Every operation a function has performed was asked of the function's    *)
(* own deployed capability level, whatever ran before it on the same       *)
(* thread, whichever invocation failed before installing its policy, and   *)
(* whatever was redeployed since it was looked up: what it asked for is    *)
(* granted by the level, so one that asks for all it does stays within it. *)
(* An operation that is not Guarded does the rest at any level.            *)
(***************************************************************************)
EffectsWithinCapability ==
    \A h \in Hosts :
        host[h].at = "running" =>
            \A op \in host[h].used :
                /\ op.asks \subseteq capability_set(host[h].entry.capability)
                /\ Guarded(op) => op.does \subseteq capability_set(host[h].entry.capability)

(***************************************************************************)
(* Whenever a client holds the answer of a function, its log line, with    *)
(* the status the client saw, is in that function's log (or was lost to an *)
(* I/O error): the process cannot die between answering and logging.       *)
(***************************************************************************)
AnswersAreLogged ==
    \A r \in Requests :
        client[r].state = "answered" =>
            \A e \in client[r].by :
                LogLine(r, e, client[r].status) \in log \/ r \in logLost

(* The server waits for a client: one that has connected and not sent, or  *)
(* one that has sent and does not take its answer.                         *)
Stalled ==
    \/ /\ host[Server].at = "reading"
       /\ client[host[Server].req].state = "open"
    \/ /\ host[Server].at = "responding"
       /\ ~client[host[Server].req].takes

(***************************************************************************)
(* A request that was sent is answered, unless its connection is closed by *)
(* an error or by the end of the server process; the accept loop is        *)
(* sequential, so this needs that no client, on another connection either, *)
(* keeps the server waiting for ever, for a request or with an answer.     *)
(***************************************************************************)
RequestsAnswered ==
    <>[]~Stalled =>
        \A r \in Requests : client[r].state = "sent" ~> client[r].state \in {"answered", "dropped"}
===============================================================================
