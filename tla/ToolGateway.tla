---------------------------- MODULE ToolGateway ----------------------------
(***************************************************************************)
(* The Eggsearch tool gateway: MCP sessions with tools/list and tools/call *)
(* on one hand, finite hosted runs (model turn, tool calls, model turn) on *)
(* the other.  Both authorize every tool against the policy tables, share  *)
(* one pool of backend permits and open a fresh backend session for each   *)
(* operation.                                                              *)
(*                                                                         *)
(* An operation is a record whose stage is the await it is suspended at.   *)
(* The size, depth and schema checks on a payload are one choice: the      *)
(* operation goes on or ends.  A catalog is its fingerprint; every catalog *)
(* the client accepts has all the known tools.  The backend, its answers   *)
(* and the model are external.                                             *)
(***************************************************************************)
EXTENDS Naturals, FiniteSets, Sequences

CONSTANTS
    ToolUsers, KnownTools,
    Catalogs,               \* fingerprints the backend may show
    ToolSessions,           \* session ids; their number stands for MAX_SESSIONS
    Operations,             \* requests, each made once
    NoSession, NoCatalog,
    BackendPermits,         \* permits of the gateway
    HostedPermits,          \* hosted runs at a time
    MAX_HOSTED_PER_USER, MAX_HOSTED_USERS,
    MAX_ITERATIONS, MAX_TOOL_CALLS,
    MaxPolicyChanges        \* bounds the administrator's changes

ASSUME ToolAssumption == MAX_TOOL_CALLS \in Nat \ {0}

VARIABLES
    token,          \* user -> "live", or "revoked" once revoked or its epoch moved
    profileRule,    \* tool -> "none" | "allow" | "deny", of the one profile
    userRule,       \* user -> tool -> the same, user_tool_overrides
    deniedTools,    \* instance_tool_denials
    backendCatalog, \* what the backend shows now
    toolSessions,   \* id -> NoSession or [user, fingerprint]
    backendHolders, \* operations holding a backend permit
    hostedUsers,    \* user -> hosted runs counted, users without one absent
    hostedHolders,  \* runs holding one of the hosted permits
    operations,     \* operation -> record
    policyChanges

toolVars == <<token, profileRule, userRule, deniedTools, backendCatalog, toolSessions,
              backendHolders, hostedUsers, hostedHolders, operations, policyChanges>>
policyTables == <<token, profileRule, userRule, deniedTools, policyChanges>>

ToolEffects == {"none", "allow", "deny"}
NoOperation == [stage |-> "new"]
ToolInit ==
    /\ token = [u \in ToolUsers |-> "live"]
    /\ profileRule \in [KnownTools -> {"none", "allow"}]
    /\ userRule = [u \in ToolUsers |-> [t \in KnownTools |-> "none"]]
    /\ deniedTools = {}
    /\ backendCatalog \in Catalogs
    /\ toolSessions = [s \in ToolSessions |-> NoSession]
    /\ backendHolders = {}
    /\ hostedUsers = [u \in {} |-> 0]
    /\ hostedHolders = {}
    /\ operations = [o \in Operations |-> NoOperation]
    /\ policyChanges = 0

--------------------------------------------------------------------------
\* The policy.

\* Default deny: a live credential, no instance denial, then the user's own
\* rule before the profile's.
authorize_tool(u, t) ==
    /\ token[u] = "live"
    /\ t \notin deniedTools
    /\ IF userRule[u][t] # "none" THEN userRule[u][t] = "allow" ELSE profileRule[t] = "allow"

Changes == policyChanges < MaxPolicyChanges /\ policyChanges' = policyChanges + 1

set_profile_rule(t, effect) ==
    /\ Changes
    /\ profileRule' = [profileRule EXCEPT ![t] = effect]
    /\ UNCHANGED <<token, userRule, deniedTools>>

set_user_tool_rule(u, t, effect) ==
    /\ Changes
    /\ userRule' = [userRule EXCEPT ![u][t] = effect]
    /\ UNCHANGED <<token, profileRule, deniedTools>>

set_instance_denial(t, denied) ==
    /\ Changes
    /\ deniedTools' = IF denied THEN deniedTools \cup {t} ELSE deniedTools \ {t}
    /\ UNCHANGED <<token, profileRule, userRule>>

\* Revocation, expiry, a disabled user and a new auth epoch all end a token.
\* The history notes how many calls an operation may still complete: those
\* already past their check.
RevokeToken(u) ==
    /\ Changes
    /\ token[u] = "live"
    /\ token' = [token EXCEPT ![u] = "revoked"]
    /\ operations' = [o \in Operations |->
                        IF operations[o].stage = "new" \/ operations[o].user # u
                        THEN operations[o]
                        ELSE [operations[o] EXCEPT
                                !.allowance = operations[o].calls +
                                    IF operations[o].stage \in {"queue", "open", "sent"}
                                    THEN 1 ELSE 0]]
    /\ UNCHANGED <<profileRule, userRule, deniedTools>>

PolicyChange ==
    /\ \/ \E t \in KnownTools, effect \in ToolEffects :
            /\ set_profile_rule(t, effect) \/ \E u \in ToolUsers : set_user_tool_rule(u, t, effect)
            /\ UNCHANGED operations
       \/ \E t \in KnownTools, denied \in BOOLEAN :
            set_instance_denial(t, denied) /\ UNCHANGED operations
       \/ \E u \in ToolUsers : RevokeToken(u)
    /\ UNCHANGED <<backendCatalog, toolSessions, backendHolders, hostedUsers, hostedHolders>>

BackendChanges(c) ==
    /\ c # backendCatalog
    /\ backendCatalog' = c
    /\ UNCHANGED <<policyTables, toolSessions, backendHolders, hostedUsers, hostedHolders,
                   operations>>

--------------------------------------------------------------------------
\* MCP sessions.

\* The middleware has verified the token when a handler starts; the handlers
\* check the form of the request and the kind and scopes of the principal.
AdmitsMcp(u) == token[u] = "live"
AdmitsHosted(u) == token[u] = "live"

initialize(u, s) ==
    /\ AdmitsMcp(u)
    /\ toolSessions[s] = NoSession
    /\ toolSessions' = [toolSessions EXCEPT ![s] = [user |-> u, fingerprint |-> NoCatalog]]
    /\ UNCHANGED <<policyTables, backendCatalog, backendHolders, hostedUsers, hostedHolders,
                   operations>>

ExpireToolSession(s) ==
    /\ toolSessions[s] # NoSession
    /\ toolSessions' = [toolSessions EXCEPT ![s] = NoSession]
    /\ UNCHANGED <<policyTables, backendCatalog, backendHolders, hostedUsers, hostedHolders,
                   operations>>

session_for(u, s) == toolSessions[s] # NoSession /\ toolSessions[s].user = u

remember_catalog(s, fingerprint) ==
    IF toolSessions[s] = NoSession THEN toolSessions
    ELSE [toolSessions EXCEPT ![s].fingerprint = fingerprint]

catalog_changed(s, fingerprint) ==
    /\ toolSessions[s] # NoSession
    /\ toolSessions[s].fingerprint \notin {NoCatalog, fingerprint}

--------------------------------------------------------------------------
\* Steps of an operation.

InStage(o, stage) == operations[o].stage = stage
Moves(o, new) == operations' = [operations EXCEPT ![o] = new]

\* A hosted permit given back: the user's count goes down and a user without
\* runs is forgotten.
WithoutRun(counts, u) ==
    IF counts[u] = 1
    THEN [v \in DOMAIN counts \ {u} |-> counts[v]]
    ELSE [counts EXCEPT ![u] = @ - 1]

\* The end of an operation, at any stage: an answer, an error, the deadline of
\* a hosted run or the client going away.  Every permit it holds is dropped.
EndOperation(o) ==
    /\ Moves(o, [operations[o] EXCEPT !.stage = "ended"])
    /\ backendHolders' = backendHolders \ {o}
    /\ hostedHolders' = hostedHolders \ {o}
    /\ hostedUsers' = IF o \in hostedHolders THEN WithoutRun(hostedUsers, operations[o].user)
                      ELSE hostedUsers

EndsEarly(o) ==
    /\ operations[o].stage \notin {"new", "ended"}
    /\ EndOperation(o)
    /\ UNCHANGED <<policyTables, backendCatalog, toolSessions>>

StartList(o, u, s) ==
    /\ InStage(o, "new")
    /\ AdmitsMcp(u) /\ session_for(u, s)
    /\ Moves(o, [stage |-> "permit", kind |-> "list", user |-> u, session |-> s,
                 todo |-> <<>>, fingerprint |-> NoCatalog, iterations |-> 0, calls |-> 0,
                 allowance |-> MAX_TOOL_CALLS])
    /\ UNCHANGED <<policyTables, backendCatalog, toolSessions, backendHolders, hostedUsers,
                   hostedHolders>>

StartCall(o, u, s, t) ==
    /\ InStage(o, "new")
    /\ AdmitsMcp(u) /\ session_for(u, s)
    /\ Moves(o, [stage |-> "authorize", kind |-> "call", user |-> u, session |-> s,
                 todo |-> <<t>>, fingerprint |-> NoCatalog, iterations |-> 0, calls |-> 0,
                 allowance |-> MAX_TOOL_CALLS])
    /\ UNCHANGED <<policyTables, backendCatalog, toolSessions, backendHolders, hostedUsers,
                   hostedHolders>>

HostedCount(u) == IF u \in DOMAIN hostedUsers THEN hostedUsers[u] ELSE 0
Counted(u) == [v \in DOMAIN hostedUsers \cup {u} |-> HostedCount(v) + IF v = u THEN 1 ELSE 0]

\* The user's count goes up first, and down again when no global permit is
\* left.
try_acquire_hosted(o, u) ==
    /\ HostedCount(u) < MAX_HOSTED_PER_USER
    /\ HostedCount(u) = 0 => Cardinality(DOMAIN hostedUsers) < MAX_HOSTED_USERS
    /\ IF Cardinality(hostedHolders) < HostedPermits
       THEN hostedHolders' = hostedHolders \cup {o} /\ hostedUsers' = Counted(u)
       ELSE UNCHANGED hostedHolders /\ hostedUsers' = WithoutRun(Counted(u), u)

\* A hosted run for a set of tools; without one it needs no backend.
StartHosted(o, u, tools) ==
    /\ InStage(o, "new")
    /\ AdmitsHosted(u)
    /\ try_acquire_hosted(o, u)
    /\ Moves(o, [stage |-> IF o \notin hostedHolders' THEN "ended"
                           ELSE IF tools = {} THEN "turn" ELSE "discover",
                 kind |-> "hosted", user |-> u, session |-> NoSession, tools |-> tools,
                 pending |-> tools \X {"discover", "invoke"},
                 todo |-> <<>>, fingerprint |-> NoCatalog, iterations |-> 0, calls |-> 0,
                 allowance |-> MAX_TOOL_CALLS])
    /\ UNCHANGED <<policyTables, backendCatalog, toolSessions, backendHolders>>

\* orchestration_tools: every requested tool must be granted twice over.
AuthorizeRequested(o) ==
    /\ InStage(o, "discover")
    /\ \E p \in operations[o].pending :
        /\ authorize_tool(operations[o].user, p[1])
        /\ Moves(o, [operations[o] EXCEPT
                        !.pending = @ \ {p},
                        !.stage = IF @ = "discover" /\ operations[o].pending = {p}
                                  THEN "permit" ELSE @])
    /\ UNCHANGED <<policyTables, backendCatalog, toolSessions, backendHolders, hostedUsers,
                   hostedHolders>>

AcquireBackend(o) ==
    /\ operations[o].stage \in {"permit", "queue"}
    /\ Cardinality(backendHolders) < BackendPermits
    /\ backendHolders' = backendHolders \cup {o}
    /\ Moves(o, [operations[o] EXCEPT !.stage = IF @ = "permit" THEN "fetch" ELSE "open"])
    /\ UNCHANGED <<policyTables, backendCatalog, toolSessions, hostedUsers, hostedHolders>>

\* fetch_catalog for a list goes on to authorize the tools; for a hosted run
\* it drops the permit and starts the first turn.
fetch_catalog(o) ==
    /\ InStage(o, "fetch")
    /\ IF operations[o].kind = "list"
       THEN /\ Moves(o, [operations[o] EXCEPT !.stage = "filter", !.fingerprint = backendCatalog])
            /\ UNCHANGED backendHolders
       ELSE /\ Moves(o, [operations[o] EXCEPT !.stage = "turn", !.fingerprint = backendCatalog])
            /\ backendHolders' = backendHolders \ {o}
    /\ UNCHANGED <<policyTables, backendCatalog, toolSessions, hostedUsers, hostedHolders>>

\* The list answers with the granted tools once the session remembers the
\* catalog.
FinishList(o) ==
    /\ InStage(o, "filter")
    /\ toolSessions' = remember_catalog(operations[o].session, operations[o].fingerprint)
    /\ EndOperation(o)
    /\ UNCHANGED <<policyTables, backendCatalog>>

\* The last turn may not call a tool.
WithinRunLimits(op, batch) ==
    /\ op.iterations + 1 < MAX_ITERATIONS
    /\ op.calls + Len(batch) <= MAX_TOOL_CALLS

parse_completed_tool_calls(op, batch) == \A i \in DOMAIN batch : batch[i] \in op.tools

\* The model answers with tool calls of the requested tools, or ends the run.
execute_turn(o, batch) ==
    LET op == operations[o]
    IN  /\ InStage(o, "turn")
        /\ WithinRunLimits(op, batch)
        /\ parse_completed_tool_calls(op, batch)
        /\ Moves(o, [op EXCEPT !.stage = "authorize", !.todo = batch,
                               !.iterations = @ + 1])
        /\ UNCHANGED <<policyTables, backendCatalog, toolSessions, backendHolders, hostedUsers,
                       hostedHolders>>

\* Defect: a call of an MCP session relies on the check of the middleware.
AuthorizeInvokeOnce(o) ==
    /\ InStage(o, "authorize")
    /\ operations[o].kind = "call" \/ authorize_tool(operations[o].user, Head(operations[o].todo))
    /\ Moves(o, [operations[o] EXCEPT !.stage = "queue"])
    /\ UNCHANGED <<policyTables, backendCatalog, toolSessions, backendHolders, hostedUsers,
                   hostedHolders>>

\* invoke authorizes first and waits for a backend permit afterwards.
AuthorizeInvoke(o) ==
    /\ InStage(o, "authorize")
    /\ authorize_tool(operations[o].user, Head(operations[o].todo))
    /\ Moves(o, [operations[o] EXCEPT !.stage = "queue"])
    /\ UNCHANGED <<policyTables, backendCatalog, toolSessions, backendHolders, hostedUsers,
                   hostedHolders>>

\* The catalog of this backend session must be the discovered one.
CheckCatalog(o) ==
    LET op == operations[o]
    IN  /\ InStage(o, "open")
        /\ IF op.kind = "call" THEN ~catalog_changed(op.session, backendCatalog)
           ELSE op.fingerprint = backendCatalog
        /\ Moves(o, [op EXCEPT !.stage = "sent"])
        /\ UNCHANGED <<policyTables, backendCatalog, toolSessions, backendHolders, hostedUsers,
                       hostedHolders>>

\* A hosted run goes on with its next call, or with the next turn.
NextCall(op) ==
    [op EXCEPT !.todo = Tail(@), !.calls = @ + 1,
               !.stage = IF Len(op.todo) = 1 THEN "turn" ELSE "authorize"]

\* The result: the permit is dropped.
ToolAnswers(o) ==
    LET op == operations[o]
    IN  /\ InStage(o, "sent")
        /\ Moves(o, IF op.kind = "call" THEN [op EXCEPT !.stage = "ended", !.calls = @ + 1]
                    ELSE NextCall(op))
        /\ backendHolders' = backendHolders \ {o}
        /\ UNCHANGED <<policyTables, backendCatalog, toolSessions, hostedUsers, hostedHolders>>

ToolBatches == UNION {[1 .. n -> KnownTools] : n \in 1 .. MAX_TOOL_CALLS}

ToolNext ==
    \/ PolicyChange
    \/ \E c \in Catalogs : BackendChanges(c)
    \/ \E u \in ToolUsers, s \in ToolSessions : initialize(u, s)
    \/ \E s \in ToolSessions : ExpireToolSession(s)
    \/ \E o \in Operations :
        \/ \E u \in ToolUsers, s \in ToolSessions :
            StartList(o, u, s) \/ \E t \in KnownTools : StartCall(o, u, s, t)
        \/ \E u \in ToolUsers, tools \in SUBSET KnownTools : StartHosted(o, u, tools)
        \/ \E batch \in ToolBatches : execute_turn(o, batch)
        \/ AuthorizeRequested(o) \/ AcquireBackend(o) \/ fetch_catalog(o) \/ FinishList(o)
        \/ AuthorizeInvoke(o) \/ CheckCatalog(o) \/ ToolAnswers(o) \/ EndsEarly(o)

ToolSpec == ToolInit /\ [][ToolNext]_toolVars

--------------------------------------------------------------------------
\* Once a user's token is revoked, no operation under way completes a tool
\* call except one that was past its own check: invoke authorizes every call
\* of an MCP session and of a hosted run afresh, so neither outlives the
\* credential.
RevocationStopsCalls ==
    \A o \in Operations : ~InStage(o, "new") => operations[o].calls <= operations[o].allowance

\* However hosted runs end, and whichever of the two limits refuses one, the
\* count of each user is the number of that user's runs and every run holds
\* one global permit.
HostedSlotsAreExact ==
    /\ hostedHolders = {o \in Operations : /\ operations[o].stage \notin {"new", "ended"}
                                           /\ operations[o].kind = "hosted"}
    /\ DOMAIN hostedUsers = {operations[o].user : o \in hostedHolders}
    /\ \A u \in DOMAIN hostedUsers :
        hostedUsers[u] = Cardinality({o \in hostedHolders : operations[o].user = u})
====
