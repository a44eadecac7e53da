---------------------------- MODULE RequestProofs ---------------------------
(***************************************************************************)
(* What holds on the way of a request, for any number of accounts, users,  *)
(* tools, sessions and callers: the tokens a principal has, the route an   *)
(* alias becomes, the credential an attempt carries, the tool calls a      *)
(* revoked credential can still make.                                      *)
(***************************************************************************)
EXTENDS UpstreamAttempt, ToolGateway, RequestEntry, FiniteSetTheorems, TLAPS

-----------------------------------------------------------------------------
(* The attempt at a provider (UpstreamAttempt).                            *)

\* The headers of an attempt carry what its generation's provider asks for.
HeadersFit(headers, auth, keyed) ==
    /\ auth.mode # "none" => headers[auth.header] = "account"
    /\ keyed => \A h \in auth.additional : headers[h] = "account"
    /\ headers["x-request-id"] # "client"

AttemptInv ==
    /\ configured \in [Generations -> Providers]
    /\ upstream # NoConnection /\ upstream.at # "refused" =>
          /\ DOMAIN upstream = {"at", "gen", "account", "keyed", "stream", "headers", "route",
                                "chunks", "error"}
          /\ HeadersFit(upstream.headers, configured[upstream.gen].auth, upstream.keyed)

\* Writing a value over some names of a header set.
LEMMA PutHeadersIs ==
  ASSUME NEW headers, NEW names, NEW value, NEW h \in HeaderNames
  PROVE  PutHeaders(headers, names, value)[h] = IF h \in names THEN value ELSE headers[h]
BY Zenon DEF PutHeaders

\* The order of prepare_parts: the credential last, over whatever the client,
\* the provider's static headers and the surface's put under its names.
LEMMA AssembleFits ==
  ASSUME NEW p \in Providers, NEW incoming \in IncomingHeaders, NEW keyed \in BOOLEAN,
         ~CredentialMissing(p.auth, keyed)
  PROVE  HeadersFit(Assemble(p, incoming, keyed), p.auth, keyed)
<1> DEFINE id == "x-request-id"
           forwarded == add_forwarded_headers(PutHeaders(NoHeaders, {"content-type"}, "default"), incoming)
           identified == add_request_identity_headers(forwarded)
           inner == add_static_headers(identified, p.headers, "static")
           fixed == add_static_headers(inner, p.surface, "surface")
           names == p.auth.additional \cup (IF p.auth.mode = "none" THEN {} ELSE {p.auth.header})
<1>1. p.auth.header \in HeaderNames /\ p.auth.additional \subseteq HeaderNames /\ id \in HeaderNames
  BY UpstreamAssumption, Zenon DEF ProviderShape, HeaderNames
<1>2. Assemble(p, incoming, keyed) = add_auth_header(fixed, p.auth, keyed)
  BY Zenon DEF Assemble
<1>3. identified[id] = "request"
  BY <1>1, PutHeadersIs DEF add_request_identity_headers
<1>4. inner[id] \in {"request", "static"}
  BY <1>1, <1>3, PutHeadersIs DEF add_static_headers
<1>5. fixed[id] \in {"request", "static", "surface"}
  BY <1>1, <1>4, PutHeadersIs DEF add_static_headers
<1> HIDE DEF fixed, inner, identified, forwarded
<1>6. CASE keyed
  <2>1. add_auth_header(fixed, p.auth, keyed) = PutHeaders(fixed, names, "account")
    BY <1>6, Zenon DEF add_auth_header
  <2>2. \A h \in HeaderNames :
           add_auth_header(fixed, p.auth, keyed)[h] = IF h \in names THEN "account" ELSE fixed[h]
    BY <2>1, PutHeadersIs
  <2>3. QED
    BY <1>1, <1>2, <1>5, <2>2, Zenon DEF HeadersFit
<1>7. CASE ~keyed
  BY <1>2, <1>5, <1>7, Zenon DEF HeadersFit, CredentialMissing, add_auth_header
<1>8. QED
  BY <1>6, <1>7, Zenon

\* A step that leaves the request as it was prepared.
LEMMA SameRequest ==
  ASSUME AttemptInv, UNCHANGED configured, upstream # NoConnection,
         \/ upstream.at = "refused" /\ upstream'.at = "refused"
         \/ /\ upstream.at # "refused"
            /\ DOMAIN upstream' = DOMAIN upstream
            /\ upstream'.gen = upstream.gen /\ upstream'.keyed = upstream.keyed
            /\ upstream'.headers = upstream.headers
  PROVE  AttemptInv'
BY Zenon DEF AttemptInv, HeadersFit

LEMMA AttemptStep ==
  ASSUME AttemptInv, [UpstreamNext]_upstreamVars
  PROVE  AttemptInv'
<1>1. CASE UNCHANGED <<configured, upstream>>
  BY <1>1, Zenon DEF AttemptInv, HeadersFit
<1>2. ASSUME NEW g \in Generations, NEW a \in PoolAccounts, NEW r \in Shapes,
             NEW i \in IncomingHeaders, Prepare(g, a, r, i)
      PROVE  AttemptInv'
  <2>1. configured[g] \in Providers /\ r.keyed \in BOOLEAN
    BY Zenon DEF AttemptInv, Shapes
  <2>2. CASE upstream' = PreparedUpstreamAttempt("refused", g, a, r, NoHeaders)
    BY <1>2, <2>2, Zenon DEF Prepare, PreparedUpstreamAttempt, AttemptInv
  <2>3. CASE /\ Prepares(configured[g], r)
             /\ upstream' = PreparedUpstreamAttempt("prepared", g, a, r,
                                                    Assemble(configured[g], i, r.keyed))
    <3>1. HeadersFit(Assemble(configured[g], i, r.keyed), configured[g].auth, r.keyed)
      BY <2>1, <2>3, AssembleFits, Zenon DEF Prepares
    <3>2. /\ DOMAIN upstream' = {"at", "gen", "account", "keyed", "stream", "headers", "route",
                                 "chunks", "error"}
          /\ upstream'.gen = g /\ upstream'.keyed = r.keyed
          /\ upstream'.headers = Assemble(configured[g], i, r.keyed)
      BY <2>3, Zenon DEF PreparedUpstreamAttempt
    <3>3. UNCHANGED configured
      BY <1>2, Zenon DEF Prepare
    <3>4. QED
      BY <3>1, <3>2, <3>3, Zenon DEF AttemptInv
  <2>4. QED
    BY <1>2, <2>2, <2>3, Zenon DEF Prepare
<1>3. ASSUME NEW error, EndsWith(error), UNCHANGED configured, upstream # NoConnection,
             upstream.at # "refused"
      PROVE  AttemptInv'
  BY <1>3, SameRequest, Zenon DEF EndsWith, AttemptInv
<1>4. CASE GetClient
  <2>1. CASE upstream' = [upstream EXCEPT !.at = "sending",
                                          !.route = get_client(upstream.gen, upstream.account)]
    BY <1>4, <2>1, SameRequest, Zenon DEF GetClient, AttemptInv
  <2>2. QED
    BY <1>3, <1>4, <2>1, Zenon DEF GetClient
<1>5. CASE HeadersArrive
  BY <1>5, SameRequest, Zenon DEF HeadersArrive, AttemptInv
<1>6. CASE NextChunk
  <2>1. CASE upstream' = [upstream EXCEPT !.chunks = @ + 1]
    BY <1>6, <2>1, SameRequest, Zenon DEF NextChunk, AttemptInv
  <2>2. QED
    BY <1>3, <1>6, <2>1, Zenon DEF NextChunk
<1>7. CASE TakeResult
  BY <1>7, Zenon DEF TakeResult, AttemptInv
<1>8. CASE SendRefused \/ SendFails \/ BodyFails \/ BodyEnds
  BY <1>3, <1>8, Zenon DEF SendRefused, SendFails, BodyFails, BodyEnds
<1>9. QED
  BY <1>1, <1>2, <1>4, <1>5, <1>6, <1>7, <1>8, Zenon
     DEF UpstreamNext, upstreamVars, BuildPool, ClosePool

\* Whatever providers, static headers and client headers there are, an attempt
\* that is submitted carries its own account's credential under every name the
\* provider asks for, and this request's own identifier or one the operator
\* configured (upstream.rs: prepare_parts, add_auth_header).
THEOREM OwnCredentialIsSentHolds == UpstreamSpec => []OwnCredentialIsSent
<1>1. UpstreamInit => AttemptInv
  BY Zenon DEF UpstreamInit, AttemptInv
<1>2. AttemptInv /\ [UpstreamNext]_upstreamVars => AttemptInv'
  BY AttemptStep, Zenon
<1>3. AttemptInv => OwnCredentialIsSent
  BY Zenon DEF AttemptInv, HeadersFit, OwnCredentialIsSent
<1>4. QED
  BY <1>1, <1>2, <1>3, PTL DEF UpstreamSpec

-----------------------------------------------------------------------------
(* Tools (ToolGateway).                                                    *)

\* The stages of a call that has passed its own check.
PastCheck == {"queue", "open", "sent"}

OperationFields == {"stage", "kind", "user", "session", "todo", "fingerprint", "iterations", "calls", "allowance"}

\* What an operation may still do, while its user's token is live and after:
\* a live one keeps within the limit of the run, a revoked one within the
\* calls that were past their check when the token went.
CallsBounded(op, live) ==
    op.stage # "new" =>
       /\ OperationFields \subseteq DOMAIN op /\ op.user \in ToolUsers
       /\ op.calls \in Nat /\ op.allowance \in Nat /\ op.todo \in Seq(KnownTools)
       /\ op.stage \in PastCheck \cup {"authorize"} => Len(op.todo) >= 1
       /\ op.calls <= op.allowance
       /\ op.stage # "ended" =>
             IF live THEN op.allowance = MAX_TOOL_CALLS /\ op.calls + Len(op.todo) <= MAX_TOOL_CALLS
             ELSE op.stage \in PastCheck => op.calls + 1 <= op.allowance

ToolInv ==
    /\ DOMAIN operations = Operations /\ DOMAIN token = ToolUsers
    /\ \A o \in Operations : CallsBounded(operations[o], token[operations[o].user] = "live")

\* A step of one operation leaves the others and every token.
LEMMA OneMoves ==
  ASSUME ToolInv, NEW o \in Operations, NEW new, Moves(o, new), UNCHANGED token,
         CallsBounded(new, token[new.user] = "live")
  PROVE  ToolInv'
<1>1. /\ DOMAIN operations' = Operations
      /\ \A i \in Operations : operations'[i] = IF i = o THEN new ELSE operations[i]
  BY Zenon DEF ToolInv, Moves
<1>2. \A i \in Operations : CallsBounded(operations'[i], token'[operations'[i].user] = "live")
  BY <1>1, Zenon DEF ToolInv
<1>3. QED
  BY <1>1, <1>2, Zenon DEF ToolInv

\* The steps of an operation, one by one: what they keep of it.
LEMMA StaysBounded ==
  ASSUME NEW op, NEW live \in BOOLEAN, CallsBounded(op, live), op.stage \notin {"new"},
         NEW new, OperationFields \subseteq DOMAIN new, new.user = op.user,
         new.calls = op.calls, new.allowance = op.allowance, new.todo = op.todo,
         \/ new.stage = "ended"
         \/ op.stage \in PastCheck /\ new.stage \in PastCheck
         \/ op.stage = "authorize" /\ live /\ new.stage = "queue"
         \/ /\ op.stage \notin PastCheck \cup {"authorize", "ended"}
            /\ new.stage \notin PastCheck \cup {"authorize", "ended", "new"}
  PROVE  CallsBounded(new, live)
BY Zenon DEF CallsBounded, PastCheck

LEMMA AnswerBounded ==
  ASSUME NEW op, NEW live \in BOOLEAN, CallsBounded(op, live), op.stage = "sent"
  PROVE  /\ CallsBounded([op EXCEPT !.stage = "ended", !.calls = @ + 1], live)
         /\ CallsBounded(NextCall(op), live)
<1>1. /\ OperationFields \subseteq DOMAIN op /\ op.user \in ToolUsers
      /\ op.calls \in Nat /\ op.allowance \in Nat /\ op.todo \in Seq(KnownTools)
      /\ Len(op.todo) \in Nat /\ Len(op.todo) >= 1 /\ op.calls + 1 <= op.allowance
      /\ live => op.allowance = MAX_TOOL_CALLS /\ op.calls + Len(op.todo) <= MAX_TOOL_CALLS
  BY ToolAssumption DEF CallsBounded, PastCheck
<1>2. Tail(op.todo) \in Seq(KnownTools) /\ Len(Tail(op.todo)) = Len(op.todo) - 1
  BY <1>1
<1>3. ASSUME NEW new, new = [op EXCEPT !.stage = "ended", !.calls = @ + 1]
      PROVE  CallsBounded(new, live)
  BY <1>1, <1>3 DEF CallsBounded, PastCheck, OperationFields
<1>4. ASSUME NEW new, new = NextCall(op)
      PROVE  CallsBounded(new, live)
  <2>1. /\ DOMAIN new = DOMAIN op /\ new.user = op.user /\ new.allowance = op.allowance
        /\ new.calls = op.calls + 1 /\ new.todo = Tail(op.todo)
        /\ new.stage = IF Len(op.todo) = 1 THEN "turn" ELSE "authorize"
    BY <1>1, <1>4, Zenon DEF NextCall, OperationFields
  <2>2. new.todo \in Seq(KnownTools) /\ Len(new.todo) = Len(op.todo) - 1
    BY <1>2, <2>1, Zenon
  <2>3. OperationFields \subseteq DOMAIN new /\ new.user \in ToolUsers
    BY <1>1, <2>1, Zenon
  <2>4. /\ new.calls \in Nat /\ new.allowance \in Nat /\ new.calls <= new.allowance
        /\ live => new.allowance = MAX_TOOL_CALLS /\ new.calls + Len(new.todo) <= MAX_TOOL_CALLS
    BY <1>1, <2>1, <2>2, ToolAssumption
  <2>5. /\ new.stage \in {"turn", "authorize"}
        /\ new.stage = "authorize" => Len(new.todo) >= 1
    <3>0. \A n \in Nat : n >= 1 /\ n # 1 => n - 1 >= 1
      OBVIOUS
    <3>1. Len(op.todo) # 1 => Len(new.todo) >= 1
      BY <1>1, <2>2, <3>0, Zenon
    <3>2. QED
      BY <2>1, <3>1, Zenon
  <2>6. QED
    BY <2>2, <2>3, <2>4, <2>5, Zenon DEF CallsBounded, PastCheck
<1>5. QED
  BY <1>3, <1>4, Zenon

\* An operation starts under a live token, with nothing called yet.
LEMMA StartBounded ==
  ASSUME NEW new, OperationFields \subseteq DOMAIN new, new.user \in ToolUsers,
         new.calls = 0, new.allowance = MAX_TOOL_CALLS,
         new.stage \in {"permit", "discover", "turn", "ended", "authorize"},
         new.todo \in Seq(KnownTools), Len(new.todo) <= 1,
         new.stage = "authorize" => Len(new.todo) = 1
  PROVE  CallsBounded(new, TRUE)
<1>0. Len(new.todo) \in Nat
  OBVIOUS
<1>1. /\ new.calls \in Nat /\ new.allowance \in Nat /\ new.calls <= new.allowance
      /\ new.calls + Len(new.todo) <= MAX_TOOL_CALLS
      /\ new.stage = "authorize" => Len(new.todo) >= 1
  <2>1. \A n \in Nat : (n <= 1 => 0 + n <= MAX_TOOL_CALLS) /\ (n = 1 => n >= 1)
    BY ToolAssumption
  <2>2. 0 \in Nat /\ MAX_TOOL_CALLS \in Nat /\ 0 <= MAX_TOOL_CALLS
    BY ToolAssumption
  <2>3. QED
    BY <1>0, <2>1, <2>2, Zenon
<1>2. new.stage \notin PastCheck
  BY Zenon DEF PastCheck
<1>3. QED
  BY <1>1, <1>2, Zenon DEF CallsBounded

\* RevokeToken: the operations of the user keep the calls past their check.
LEMMA RevokeKeeps ==
  ASSUME ToolInv, NEW u \in ToolUsers, RevokeToken(u)
  PROVE  ToolInv'
<1> DEFINE Bump(op) == IF op.stage \in PastCheck THEN 1 ELSE 0
           Revoked(op) == [op EXCEPT !.allowance = op.calls + Bump(op)]
<1>1. /\ DOMAIN operations' = Operations
      /\ \A o \in Operations :
            operations'[o] = IF operations[o].stage = "new" \/ operations[o].user # u
                             THEN operations[o] ELSE Revoked(operations[o])
  BY Zenon DEF RevokeToken, PastCheck
<1>2. \A v : v # u => (token'[v] = "live" <=> token[v] = "live")
  BY DEF RevokeToken
<1>3. ASSUME NEW o \in Operations
      PROVE  CallsBounded(operations'[o], token'[operations'[o].user] = "live")
  <2> DEFINE op == operations[o]
  <2>1. CallsBounded(op, token[op.user] = "live")
    BY Zenon DEF ToolInv
  <2>2. CASE op.stage = "new" \/ op.user # u
    BY <1>1, <1>2, <2>1, <2>2, Zenon DEF CallsBounded
  <2>3. CASE op.stage # "new" /\ op.user = u
    <3>1. operations'[o] = Revoked(op)
      BY <1>1, <2>3, Zenon
    <3>2. /\ OperationFields \subseteq DOMAIN op /\ op.user \in ToolUsers
          /\ op.calls \in Nat /\ op.todo \in Seq(KnownTools)
          /\ op.stage \in PastCheck \cup {"authorize"} => Len(op.todo) >= 1
      BY <2>1, <2>3, Zenon DEF CallsBounded
    <3>3. /\ DOMAIN operations'[o] = DOMAIN op /\ operations'[o].user = op.user
          /\ operations'[o].calls = op.calls /\ operations'[o].todo = op.todo
          /\ operations'[o].stage = op.stage /\ operations'[o].allowance = op.calls + Bump(op)
      BY <3>1, <3>2, Zenon DEF OperationFields
    <3>4. token'[u] # "live"
      BY <3>2, <2>3, Zenon DEF RevokeToken, ToolInv
    <3>5. /\ operations'[o].allowance \in Nat /\ operations'[o].calls <= operations'[o].allowance
          /\ op.stage \in PastCheck => operations'[o].calls + 1 <= operations'[o].allowance
      BY <3>2, <3>3
    <3>6. QED
      BY <2>3, <3>2, <3>3, <3>4, <3>5, Zenon DEF CallsBounded
  <2>4. QED
    BY <2>2, <2>3, Zenon
<1>4. DOMAIN token' = ToolUsers
  BY Zenon DEF RevokeToken, ToolInv
<1>5. QED
  BY <1>1, <1>3, <1>4, Zenon DEF ToolInv

\* A step of an operation that calls nothing and keeps its batch.
LEMMA StageStep ==
  ASSUME ToolInv, NEW o \in Operations, NEW new, Moves(o, new), UNCHANGED token,
         operations[o].stage # "new",
         OperationFields \subseteq DOMAIN operations[o] =>
            /\ OperationFields \subseteq DOMAIN new /\ new.user = operations[o].user
            /\ new.calls = operations[o].calls /\ new.allowance = operations[o].allowance
            /\ new.todo = operations[o].todo,
         \/ new.stage = "ended"
         \/ operations[o].stage \in PastCheck /\ new.stage \in PastCheck
         \/ /\ operations[o].stage = "authorize" /\ new.stage = "queue"
            /\ token[operations[o].user] = "live"
         \/ /\ operations[o].stage \notin PastCheck \cup {"authorize", "ended"}
            /\ new.stage \notin PastCheck \cup {"authorize", "ended", "new"}
  PROVE  ToolInv'
<1> DEFINE op == operations[o]
           live == token[op.user] = "live"
<1>1. CallsBounded(op, live) /\ live \in BOOLEAN
  BY Zenon DEF ToolInv
<1>2. OperationFields \subseteq DOMAIN op
  BY <1>1, Zenon DEF CallsBounded
<1>3. CallsBounded(new, live)
  BY <1>1, <1>2, StaysBounded, Zenon
<1>4. QED
  BY <1>2, <1>3, OneMoves, Zenon

\* All but the stage and the catalog of an operation stays.
KeepsRest(new, op) ==
    /\ OperationFields \subseteq DOMAIN new /\ new.user = op.user
    /\ new.calls = op.calls /\ new.allowance = op.allowance /\ new.todo = op.todo

\* An operation with only its stage, or its stage and its catalog, changed.
Restaged(op, stage, seen) ==
    {[op EXCEPT !.stage = stage], [op EXCEPT !.stage = stage, !.fingerprint = seen]}

LEMMA StageAlone ==
  ASSUME NEW op, OperationFields \subseteq DOMAIN op, NEW stage, NEW seen,
         NEW new, new \in Restaged(op, stage, seen)
  PROVE  KeepsRest(new, op) /\ new.stage = stage
<1>1. CASE new = [op EXCEPT !.stage = stage]
  BY <1>1, Zenon DEF OperationFields, KeepsRest
<1>2. CASE new = [op EXCEPT !.stage = stage, !.fingerprint = seen]
  BY <1>2, Zenon DEF OperationFields, KeepsRest
<1>3. QED
  BY <1>1, <1>2, Zenon DEF Restaged

LEMMA ToolStep ==
  ASSUME ToolInv, [ToolNext]_toolVars
  PROVE  ToolInv'
<1>1. CASE UNCHANGED <<token, operations>>
  BY <1>1, Zenon DEF ToolInv
<1>2. CASE PolicyChange
  BY <1>1, <1>2, RevokeKeeps, Zenon
     DEF PolicyChange, set_profile_rule, set_user_tool_rule, set_instance_denial
<1>3. ASSUME NEW o \in Operations, NEW new, Moves(o, new), UNCHANGED policyTables,
             token[new.user] = "live", CallsBounded(new, TRUE)
      PROVE  ToolInv'
  BY <1>3, OneMoves, Zenon DEF policyTables
<1>4. ASSUME NEW o \in Operations, NEW u \in ToolUsers, NEW s \in ToolSessions, StartList(o, u, s)
      PROVE  ToolInv'
  <2> DEFINE new == [stage |-> "permit", kind |-> "list", user |-> u, session |-> s,
                     todo |-> <<>>, fingerprint |-> NoCatalog, iterations |-> 0, calls |-> 0,
                     allowance |-> MAX_TOOL_CALLS]
  <2>0. /\ OperationFields \subseteq DOMAIN new /\ new.user = u /\ new.calls = 0
        /\ new.allowance = MAX_TOOL_CALLS /\ new.todo = <<>>
        /\ new.stage \in {"permit"}
    BY Zenon DEF OperationFields
  <2>1. CallsBounded(new, TRUE)
    <3>1. <<>> \in Seq(KnownTools) /\ Len(<<>>) = 0 /\ 0 <= 1
      OBVIOUS
    <3> HIDE DEF new
    <3>2. /\ new.user \in ToolUsers /\ new.todo \in Seq(KnownTools) /\ Len(new.todo) <= 1
          /\ new.stage = "authorize" => Len(new.todo) = 1
          /\ new.stage \in {"permit", "discover", "turn", "ended", "authorize"}
      BY <2>0, <3>1, Zenon
    <3>3. QED
      BY <2>0, <3>2, StartBounded, Zenon
  <2>2. QED
    BY <1>3, <1>4, <2>0, <2>1, Zenon DEF StartList, AdmitsMcp
<1>5. ASSUME NEW o \in Operations, NEW u \in ToolUsers, NEW s \in ToolSessions,
             NEW t \in KnownTools, StartCall(o, u, s, t)
      PROVE  ToolInv'
  <2> DEFINE new == [stage |-> "authorize", kind |-> "call", user |-> u, session |-> s,
                     todo |-> <<t>>, fingerprint |-> NoCatalog, iterations |-> 0, calls |-> 0,
                     allowance |-> MAX_TOOL_CALLS]
  <2>0. /\ OperationFields \subseteq DOMAIN new /\ new.user = u /\ new.calls = 0
        /\ new.allowance = MAX_TOOL_CALLS /\ new.todo = <<t>>
        /\ new.stage \in {"authorize"}
    BY Zenon DEF OperationFields
  <2>1. CallsBounded(new, TRUE)
    <3>1. <<t>> \in Seq(KnownTools) /\ Len(<<t>>) = 1 /\ 1 <= 1
      OBVIOUS
    <3> HIDE DEF new
    <3>2. /\ new.user \in ToolUsers /\ new.todo \in Seq(KnownTools) /\ Len(new.todo) <= 1
          /\ new.stage = "authorize" => Len(new.todo) = 1
          /\ new.stage \in {"permit", "discover", "turn", "ended", "authorize"}
      BY <2>0, <3>1, Zenon
    <3>3. QED
      BY <2>0, <3>2, StartBounded, Zenon
  <2>2. QED
    BY <1>3, <1>5, <2>0, <2>1, Zenon DEF StartCall, AdmitsMcp
<1>6. ASSUME NEW o \in Operations, NEW u \in ToolUsers, NEW tools, StartHosted(o, u, tools)
      PROVE  ToolInv'
  <2> DEFINE new == [stage |-> IF o \notin hostedHolders' THEN "ended"
                               ELSE IF tools = {} THEN "turn" ELSE "discover",
                     kind |-> "hosted", user |-> u, session |-> NoSession, tools |-> tools,
                     pending |-> tools \X {"discover", "invoke"},
                     todo |-> <<>>, fingerprint |-> NoCatalog, iterations |-> 0, calls |-> 0,
                     allowance |-> MAX_TOOL_CALLS]
  <2>0. /\ OperationFields \subseteq DOMAIN new /\ new.user = u /\ new.calls = 0
        /\ new.allowance = MAX_TOOL_CALLS /\ new.todo = <<>>
        /\ new.stage \in {"ended", "turn", "discover"}
    BY Zenon DEF OperationFields
  <2>1. CallsBounded(new, TRUE)
    <3>1. <<>> \in Seq(KnownTools) /\ Len(<<>>) = 0 /\ 0 <= 1
      OBVIOUS
    <3> HIDE DEF new
    <3>2. /\ new.user \in ToolUsers /\ new.todo \in Seq(KnownTools) /\ Len(new.todo) <= 1
          /\ new.stage = "authorize" => Len(new.todo) = 1
          /\ new.stage \in {"permit", "discover", "turn", "ended", "authorize"}
      BY <2>0, <3>1, Zenon
    <3>3. QED
      BY <2>0, <3>2, StartBounded, Zenon
  <2>2. Moves(o, new) /\ UNCHANGED policyTables /\ token[new.user] = "live"
    BY <1>6, <2>0, Zenon DEF StartHosted, AdmitsHosted
  <2>3. QED
    BY <1>3, <2>1, <2>2, Zenon
<1>0. ASSUME NEW o \in Operations, NEW stage, NEW seen, NEW new,
             new \in Restaged(operations[o], stage, seen), Moves(o, new), UNCHANGED policyTables, operations[o].stage # "new",
             \/ stage = "ended"
             \/ operations[o].stage \in PastCheck /\ stage \in PastCheck
             \/ /\ operations[o].stage = "authorize" /\ stage = "queue"
                /\ token[operations[o].user] = "live"
             \/ /\ operations[o].stage \notin PastCheck \cup {"authorize", "ended"}
                /\ stage \notin PastCheck \cup {"authorize", "ended", "new"}
      PROVE  ToolInv'
  <2>0. new \in Restaged(operations[o], stage, seen)
    BY <1>0, Zenon
  <2>1. OperationFields \subseteq DOMAIN operations[o]
    BY <1>0, Zenon DEF ToolInv, CallsBounded
  <2>2. KeepsRest(new, operations[o]) /\ new.stage = stage
    BY <2>0, <2>1, StageAlone, Zenon
  <2>3. UNCHANGED token
    BY <1>0, Zenon DEF policyTables
  <2>4. QED
    BY <1>0, <2>2, <2>3, StageStep, Zenon DEF KeepsRest
<1>7. ASSUME NEW o \in Operations, EndOperation(o), UNCHANGED policyTables, ~InStage(o, "new")
      PROVE  ToolInv'
  BY <1>0, <1>7, Zenon DEF EndOperation, InStage, Restaged
<1>8. ASSUME NEW o \in Operations, AuthorizeRequested(o)
      PROVE  ToolInv'
  <2>1. PICK p \in operations[o].pending :
           Moves(o, [operations[o] EXCEPT
                        !.pending = @ \ {p},
                        !.stage = IF @ = "discover" /\ operations[o].pending = {p}
                                  THEN "permit" ELSE @])
    BY <1>8, Zenon DEF AuthorizeRequested
  <2> DEFINE op == operations[o]
             new == [op EXCEPT !.pending = @ \ {p},
                               !.stage = IF @ = "discover" /\ op.pending = {p} THEN "permit" ELSE @]
  <2>2. UNCHANGED token /\ op.stage = "discover"
    BY <1>8, Zenon DEF AuthorizeRequested, InStage, policyTables
  <2>3. OperationFields \subseteq DOMAIN op
    BY <2>2, Zenon DEF ToolInv, CallsBounded
  <2>4. /\ OperationFields \subseteq DOMAIN new /\ new.user = op.user
        /\ new.calls = op.calls /\ new.allowance = op.allowance /\ new.todo = op.todo
        /\ new.stage \in {"discover", "permit"}
    BY <2>2, <2>3, Zenon DEF OperationFields
  <2>5. Moves(o, new)
    BY <2>1, Zenon
  <2> HIDE DEF new
  <2>6. op.stage \notin PastCheck \cup {"authorize", "ended", "new"}
        /\ new.stage \notin PastCheck \cup {"authorize", "ended", "new"}
    BY <2>2, <2>4, Zenon DEF PastCheck
  <2>7. QED
    BY <2>2, <2>4, <2>5, <2>6, StageStep, Zenon
<1>9. ASSUME NEW o \in Operations, AcquireBackend(o)
      PROVE  ToolInv'
  <2> DEFINE stage == IF operations[o].stage = "permit" THEN "fetch" ELSE "open"
  <2>1. /\ Moves(o, [operations[o] EXCEPT !.stage = stage]) /\ UNCHANGED policyTables
        /\ operations[o].stage \in {"permit", "queue"}
    BY <1>9, Zenon DEF AcquireBackend
  <2>2. \/ operations[o].stage \in PastCheck /\ stage \in PastCheck
        \/ /\ operations[o].stage \notin PastCheck \cup {"authorize", "ended"}
           /\ stage \notin PastCheck \cup {"authorize", "ended", "new"}
    BY <2>1, Zenon DEF PastCheck
  <2>3. operations[o].stage # "new"
    BY <2>1, Zenon
  <2> HIDE DEF stage
  <2>4. QED
    BY <1>0, <2>1, <2>2, <2>3, Zenon DEF Restaged
<1>10. ASSUME NEW o \in Operations, fetch_catalog(o)
       PROVE  ToolInv'
  <2>1. /\ operations[o].stage # "new"
        /\ operations[o].stage \notin PastCheck \cup {"authorize", "ended"}
        /\ {"filter", "turn"} \cap (PastCheck \cup {"authorize", "ended", "new"}) = {}
    BY <1>10, Zenon DEF fetch_catalog, InStage, PastCheck
  <2>2. PICK stage \in {"filter", "turn"} :
           Moves(o, [operations[o] EXCEPT !.stage = stage, !.fingerprint = backendCatalog])
    BY <1>10, Zenon DEF fetch_catalog
  <2>3. UNCHANGED policyTables
    BY <1>10, Zenon DEF fetch_catalog
  <2>4. QED
    BY <1>0, <2>1, <2>2, <2>3, Zenon DEF Restaged
<1>11. ASSUME NEW o \in Operations, NEW batch \in ToolBatches, execute_turn(o, batch)
       PROVE  ToolInv'
  <2> DEFINE op == operations[o]
             new == [op EXCEPT !.stage = "authorize", !.todo = batch, !.iterations = @ + 1]
             live == token[op.user] = "live"
  <2>1. PICK n \in 1 .. MAX_TOOL_CALLS : batch \in [1 .. n -> KnownTools]
    BY Zenon DEF ToolBatches
  <2>2. n \in Nat /\ n >= 1
    BY ToolAssumption
  <2>3. batch \in Seq(KnownTools) /\ Len(batch) = n
    BY <2>1, <2>2
  <2>4. CallsBounded(op, live)
    BY Zenon DEF ToolInv
  <2>5. op.stage = "turn" /\ op.calls + Len(batch) <= MAX_TOOL_CALLS /\ Moves(o, new) /\ UNCHANGED token
    BY <1>11, Zenon DEF execute_turn, InStage, WithinRunLimits, policyTables
  <2>6. /\ OperationFields \subseteq DOMAIN op /\ op.user \in ToolUsers
        /\ op.calls \in Nat /\ op.allowance \in Nat /\ op.calls <= op.allowance
        /\ live => op.allowance = MAX_TOOL_CALLS
    BY <2>4, <2>5, Zenon DEF CallsBounded
  <2>7. /\ DOMAIN new = DOMAIN op /\ new.user = op.user /\ new.calls = op.calls
        /\ new.allowance = op.allowance /\ new.todo = batch /\ new.stage = "authorize"
    BY <2>6, Zenon DEF OperationFields
  <2>8. CallsBounded(new, live)
    BY <2>2, <2>3, <2>5, <2>6, <2>7, Zenon DEF CallsBounded, PastCheck
  <2>9. QED
    BY <2>5, <2>7, <2>8, OneMoves, Zenon
<1>12. ASSUME NEW o \in Operations, AuthorizeInvoke(o)
       PROVE  ToolInv'
  <2>1. /\ operations[o].stage = "authorize" /\ token[operations[o].user] = "live"
        /\ Moves(o, [operations[o] EXCEPT !.stage = "queue"]) /\ UNCHANGED policyTables
    BY <1>12, Zenon DEF AuthorizeInvoke, authorize_tool, InStage
  <2>2. QED
    BY <1>0, <2>1, Zenon DEF Restaged
<1>13. ASSUME NEW o \in Operations, CheckCatalog(o)
       PROVE  ToolInv'
  <2>1. /\ operations[o].stage = "open" /\ "open" \in PastCheck /\ "sent" \in PastCheck
        /\ Moves(o, [operations[o] EXCEPT !.stage = "sent"]) /\ UNCHANGED policyTables
    BY <1>13, Zenon DEF CheckCatalog, InStage, PastCheck
  <2>2. QED
    BY <1>0, <2>1, Zenon DEF Restaged
<1>14. ASSUME NEW o \in Operations, ToolAnswers(o)
       PROVE  ToolInv'
  <2> DEFINE op == operations[o]
             live == token[op.user] = "live"
             done == [op EXCEPT !.stage = "ended", !.calls = @ + 1]
  <2>1. CallsBounded(op, live) /\ live \in BOOLEAN /\ op.stage = "sent" /\ UNCHANGED token
    BY <1>14, Zenon DEF ToolInv, ToolAnswers, InStage, policyTables
  <2>2. CallsBounded(done, live) /\ CallsBounded(NextCall(op), live)
    BY <2>1, AnswerBounded, Zenon
  <2>3. done.user = op.user /\ NextCall(op).user = op.user
    BY <2>1, Zenon DEF CallsBounded, OperationFields, NextCall
  <2>4. Moves(o, done) \/ Moves(o, NextCall(op))
    BY <1>14, Zenon DEF ToolAnswers
  <2>5. QED
    BY <2>1, <2>2, <2>3, <2>4, OneMoves, Zenon
<1>15. QED
  BY <1>1, <1>2, <1>4, <1>5, <1>6, <1>7, <1>8, <1>9, <1>10, <1>11, <1>12, <1>13, <1>14, Zenon
     DEF ToolNext, toolVars, policyTables, BackendChanges, initialize, ExpireToolSession,
         FinishList, EndsEarly, InStage

\* For any users, tools and limits: once a token is revoked, the operations of
\* its user complete no call but the one that was past its own check
\* (tools.rs: invoke authorizes every call afresh).
THEOREM RevocationStopsCallsHolds == ToolSpec => []RevocationStopsCalls
<1>1. ToolInit => ToolInv
  BY DEF ToolInit, ToolInv, NoOperation, CallsBounded
<1>2. ToolInv /\ [ToolNext]_toolVars => ToolInv'
  BY ToolStep, Zenon
<1>3. ToolInv => RevocationStopsCalls
  BY Zenon DEF ToolInv, CallsBounded, RevocationStopsCalls, InStage
<1>4. QED
  BY <1>1, <1>2, <1>3, PTL DEF ToolSpec

-----------------------------------------------------------------------------
(* The resolution of a model alias (RequestEntry).                         *)

CallFields ==
    {"at", "kind", "asked", "router", "session", "policy", "joined", "tries", "target", "outcome"}

\* Before these places a call has decided nothing for a flight of its own.
Unheard == {"arrives", "policy", "waits", "selector"}

\* What holds of a call by itself.
CallOk(call) ==
    /\ DOMAIN call = CallFields
    /\ call.router \in Routers \cup {NoRouter}
    /\ call.session \in RouteSessions \cup {NoIdentity}
    /\ call.at \in {"selector", "waits"} => call.router \in Routers
    /\ call.at = "waits" => Sticky(call) /\ call.joined \in DispatchCalls
    /\ call.outcome # "RouteMismatch"
    /\ call.at \in {"admits", "executes"} /\ call.asked = AliasRef /\ call.router # NoRouter
           => \E i \in DOMAIN call.router.routes : call.router.routes[i] = call.target

\* The leader of a flight is a call that is selecting, for the flight's key.
FlightOk(k) ==
    LET c == flying[k]
    IN  c # NoFlying => /\ c \in DispatchCalls
                        /\ dispatch[c].at = "selector"
                        /\ Sticky(dispatch[c]) /\ AffinityKey(dispatch[c]) = k

\* A call publishes when it leaves the selector, and then only once.
NewsOk(c) ==
    /\ DOMAIN published[c] = {"news", "decision"}
    /\ published[c].news \in {"pending", "Succeeded", "Aborted"}
    /\ dispatch[c].at \in Unheard => published[c].news = "pending"

\* A follower waits for the leader of its own key, or has been told a route of
\* its own router.
JoinOk(c) ==
    LET j == dispatch[c].joined
    IN  dispatch[c].at = "waits" =>
            /\ published[j].news = "pending" => flying[AffinityKey(dispatch[c])] = j
            /\ published[j].news = "Succeeded" => ValidTarget(dispatch[c], published[j].decision)

AliasInv ==
    /\ registry \in Routers \cup {NoRouter}
    /\ DOMAIN dispatch = DispatchCalls /\ DOMAIN published = DispatchCalls
    /\ DOMAIN flying = Routers \X RouteSessions
    /\ \A c \in DispatchCalls : CallOk(dispatch[c])
    /\ \A c \in DispatchCalls : NewsOk(c)
    /\ \A k \in DOMAIN flying : FlightOk(k)
    /\ \A c \in DispatchCalls : JoinOk(c)

\* Every error but the one of finish_virtual_resolution has another status.
LEMMA EndsOk ==
  ASSUME NEW call, NEW error, error # "RouteMismatch"
  PROVE  CallOk(Ends(call, error)) /\ Ends(call, error).at = "ended"
<1>1. Status(error) # "RouteMismatch"
  BY Zenon DEF Status
<1>2. (IF error = "dropped" THEN error ELSE Status(error)) # "RouteMismatch"
  BY <1>1, Zenon
<1> DEFINE e == Ends(call, error)
<1>3. /\ DOMAIN e = CallFields /\ e.at = "ended" /\ e.router = NoRouter /\ e.session = NoIdentity
      /\ e.outcome = IF error = "dropped" THEN error ELSE Status(error)
  BY Zenon DEF Ends, Arriving, CallFields
<1>4. QED
  BY <1>2, <1>3, Zenon DEF CallOk

\* A decision for a route of the call's router ends the call or submits it.
LEMMA FinishOk ==
  ASSUME NEW call, CallOk(call), NEW d, ValidTarget(call, d)
  PROVE  CallOk(FinishVirtual(call, d)) /\ FinishVirtual(call, d).at \in {"ended", "admits"}
<1>1. CASE ~ModelAllowed(call, Unqualified(d.model))
  BY <1>1, EndsOk, Zenon DEF FinishVirtual
<1>2. CASE ModelAllowed(call, Unqualified(d.model))
  <2> DEFINE e == Submits(call, d.model)
  <2>1. FinishVirtual(call, d) = e
    BY <1>2, Zenon DEF FinishVirtual
  <2>2. /\ DOMAIN e = CallFields /\ e.at = "admits" /\ e.router = call.router
        /\ e.session = call.session /\ e.outcome = call.outcome /\ e.target = d.model
    BY Zenon DEF Submits, CallOk, CallFields
  <2>3. d.id \in DOMAIN e.router.routes /\ e.router.routes[d.id] = e.target
    BY <2>2, Zenon DEF ValidTarget
  <2> HIDE DEF e
  <2>4. QED
    BY <2>1, <2>2, <2>3, Zenon DEF CallOk
<1>3. QED
  BY <1>1, <1>2, Zenon

\* One call moves, to another record.
LEMMA OtherCalls ==
  ASSUME AliasInv, NEW c \in DispatchCalls, NEW call, Becomes(c, call)
  PROVE  /\ DOMAIN dispatch' = DispatchCalls /\ dispatch'[c] = call
         /\ \A f \in DispatchCalls \ {c} : dispatch'[f] = dispatch[f]
BY Zenon DEF Becomes, AliasInv

\* A call that led no flight moves, and joins none.
LEMMA LoneMove ==
  ASSUME AliasInv, NEW c \in DispatchCalls, NEW call, Becomes(c, call), CallOk(call),
         dispatch[c].at # "selector", call.at # "waits",
         call.at \in Unheard => dispatch[c].at \in Unheard,
         UNCHANGED <<registry, flying, published>>
  PROVE  AliasInv'
<1>1. /\ DOMAIN dispatch' = DispatchCalls /\ dispatch'[c] = call
      /\ \A f \in DispatchCalls \ {c} : dispatch'[f] = dispatch[f]
  BY OtherCalls, Zenon
<1>2. ASSUME NEW f \in DispatchCalls PROVE CallOk(dispatch[f])' /\ NewsOk(f)' /\ JoinOk(f)'
  <2>1. CallOk(dispatch[f]) /\ NewsOk(f) /\ JoinOk(f)
    BY Zenon DEF AliasInv
  <2>2. CASE f = c
    BY <1>1, <2>1, <2>2, Zenon DEF CallOk, NewsOk, JoinOk
  <2>3. CASE f # c
    BY <1>1, <2>1, <2>3, Zenon DEF CallOk, NewsOk, JoinOk, AffinityKey, ValidTarget
  <2>4. QED
    BY <2>2, <2>3, Zenon
<1>3. ASSUME NEW k \in DOMAIN flying PROVE FlightOk(k)'
  <2>1. FlightOk(k)
    BY Zenon DEF AliasInv
  <2>2. flying[k] # c \/ flying[k] = NoFlying
    BY <2>1, Zenon DEF FlightOk
  <2>3. QED
    BY <1>1, <2>1, <2>2, Zenon DEF FlightOk, Sticky, AffinityKey
<1>4. QED
  BY <1>1, <1>2, <1>3, Zenon DEF AliasInv

\* A call joins the flight of its key.
LEMMA JoinMove ==
  ASSUME AliasInv, NEW c \in DispatchCalls, NEW call, CallOk(call), call.router \in Routers, Sticky(call),
         AffinityKey(call) \in DOMAIN flying, flying[AffinityKey(call)] # NoFlying,
         Becomes(c, [call EXCEPT !.at = "waits", !.joined = flying[AffinityKey(call)]]),
         dispatch[c].at \in {"policy", "waits"}, UNCHANGED <<registry, flying, published>>
  PROVE  AliasInv'
<1> DEFINE k == AffinityKey(call)
           j == flying[k]
           new == [call EXCEPT !.at = "waits", !.joined = j]
<1>1. /\ DOMAIN dispatch' = DispatchCalls /\ dispatch'[c] = new
      /\ \A f \in DispatchCalls \ {c} : dispatch'[f] = dispatch[f]
  BY OtherCalls, Zenon
<1>2. /\ DOMAIN new = CallFields /\ new.at = "waits" /\ new.joined = j /\ new.router = call.router
      /\ new.session = call.session /\ new.outcome = call.outcome
  BY Zenon DEF CallOk, CallFields
<1>3. j \in DispatchCalls /\ dispatch[j].at = "selector"
  BY Zenon DEF AliasInv, FlightOk
<1>4. published[j].news = "pending"
  BY <1>3, Zenon DEF AliasInv, NewsOk, Unheard
<1>5. AffinityKey(new) = k /\ Sticky(new)
  BY <1>2, Zenon DEF AffinityKey, Sticky
<1> HIDE DEF new
<1>6. CallOk(new)
  BY <1>2, <1>3, <1>5, Zenon DEF CallOk
<1>7. ASSUME NEW f \in DispatchCalls PROVE CallOk(dispatch[f])' /\ NewsOk(f)' /\ JoinOk(f)'
  <2>1. CallOk(dispatch[f]) /\ NewsOk(f) /\ JoinOk(f)
    BY Zenon DEF AliasInv
  <2>2. CASE f = c
    <3>1. dispatch'[f] = new /\ dispatch[f].at \in Unheard
      BY <1>1, <2>2, Zenon DEF Unheard
    <3>2. NewsOk(f)' /\ CallOk(dispatch[f])'
      BY <1>6, <3>1, <2>1, Zenon DEF NewsOk, CallOk
    <3>3. JoinOk(f)'
      BY <1>2, <1>4, <1>5, <3>1, Zenon DEF JoinOk
    <3>4. QED
      BY <3>2, <3>3, Zenon
  <2>3. CASE f # c
    BY <1>1, <2>1, <2>3, Zenon DEF CallOk, NewsOk, JoinOk, AffinityKey, ValidTarget
  <2>4. QED
    BY <2>2, <2>3, Zenon
<1>8. ASSUME NEW i \in DOMAIN flying PROVE FlightOk(i)'
  <2>1. FlightOk(i)
    BY Zenon DEF AliasInv
  <2>2. flying[i] # c \/ flying[i] = NoFlying
    BY <2>1, Zenon DEF FlightOk
  <2>3. QED
    BY <1>1, <2>1, <2>2, Zenon DEF FlightOk, Sticky, AffinityKey
<1>9. QED
  BY <1>1, <1>7, <1>8, Zenon DEF AliasInv

\* A call leads the flight of its key.
LEMMA LeadMove ==
  ASSUME AliasInv, NEW c \in DispatchCalls, NEW call, CallOk(call), call.router \in Routers, Sticky(call),
         AffinityKey(call) \in DOMAIN flying, flying[AffinityKey(call)] = NoFlying,
         flying' = [flying EXCEPT ![AffinityKey(call)] = c], Becomes(c, Selecting(call)),
         dispatch[c].at \in {"policy", "waits"}, UNCHANGED <<registry, published>>
  PROVE  AliasInv'
<1> DEFINE k == AffinityKey(call)
           new == Selecting(call)
<1>1. /\ DOMAIN dispatch' = DispatchCalls /\ dispatch'[c] = new
      /\ \A f \in DispatchCalls \ {c} : dispatch'[f] = dispatch[f]
  BY OtherCalls, Zenon
<1>2. /\ DOMAIN new = CallFields /\ new.at = "selector" /\ new.router = call.router
      /\ new.session = call.session /\ new.outcome = call.outcome
  BY Zenon DEF CallOk, CallFields, Selecting
<1>3. AffinityKey(new) = k /\ Sticky(new)
  BY <1>2, Zenon DEF AffinityKey, Sticky
<1>4. /\ DOMAIN flying' = DOMAIN flying /\ flying'[k] = c
      /\ \A i \in DOMAIN flying \ {k} : flying'[i] = flying[i]
  BY Zenon
<1> HIDE DEF new, k
<1>5. CallOk(new)
  BY <1>2, Zenon DEF CallOk
<1>6. ASSUME NEW f \in DispatchCalls PROVE CallOk(dispatch[f])' /\ NewsOk(f)' /\ JoinOk(f)'
  <2>1. CallOk(dispatch[f]) /\ NewsOk(f) /\ JoinOk(f)
    BY Zenon DEF AliasInv
  <2>2. CASE f = c
    <3>1. dispatch'[f] = new /\ dispatch[f].at \in Unheard
      BY <1>1, <2>2, Zenon DEF Unheard
    <3>2. QED
      BY <1>2, <1>5, <2>1, <3>1, Zenon DEF NewsOk, CallOk, JoinOk
  <2>3. CASE f # c
    <3>1. dispatch'[f] = dispatch[f]
      BY <1>1, <2>3, Zenon
    <3>2. CASE dispatch[f].at = "waits" /\ published[dispatch[f].joined].news = "pending"
      <4> DEFINE kf == AffinityKey(dispatch[f])
      <4>1. flying[kf] = dispatch[f].joined /\ dispatch[f].joined \in DispatchCalls
        BY <2>1, <3>2, Zenon DEF JoinOk, CallOk
      <4>2. kf # k
        BY <4>1, DispatchAssumption, Zenon DEF k
      <4>3. dispatch[f].session \in RouteSessions /\ dispatch[f].router \in Routers
        BY <2>1, <3>2, Zenon DEF CallOk, Sticky
      <4>4. kf \in DOMAIN flying
        BY <4>3, Zenon DEF AliasInv, AffinityKey
      <4>5. flying'[kf] = flying[kf]
        BY <1>4, <4>2, <4>4, Zenon
      <4>6. QED
        BY <2>1, <3>1, <3>2, <4>5, Zenon DEF CallOk, NewsOk, JoinOk, AffinityKey
    <3>3. CASE ~(dispatch[f].at = "waits" /\ published[dispatch[f].joined].news = "pending")
      BY <2>1, <3>1, <3>3, Zenon DEF CallOk, NewsOk, JoinOk, ValidTarget
    <3>4. QED
      BY <3>2, <3>3, Zenon
  <2>4. QED
    BY <2>2, <2>3, Zenon
<1>7. ASSUME NEW i \in DOMAIN flying PROVE FlightOk(i)'
  <2>1. FlightOk(i)
    BY Zenon DEF AliasInv
  <2>2. CASE i = k
    BY <1>1, <1>2, <1>3, <1>4, <2>2, Zenon DEF FlightOk, Sticky, AffinityKey
  <2>3. CASE i # k
    <3>1. flying'[i] = flying[i] /\ (flying[i] # c \/ flying[i] = NoFlying)
      BY <1>4, <2>1, <2>3, Zenon DEF FlightOk
    <3>2. QED
      BY <1>1, <2>1, <3>1, Zenon DEF FlightOk, Sticky, AffinityKey
  <2>4. QED
    BY <2>2, <2>3, Zenon
<1>8. QED
  BY <1>1, <1>4, <1>6, <1>7, Zenon DEF AliasInv

\* A call leaves the selector; if it leads its flight, the flight ends and its
\* followers hear of it.
LEMMA SelectorLeft ==
  ASSUME AliasInv, NEW c \in DispatchCalls, NEW call, Becomes(c, call), CallOk(call),
         dispatch[c].at = "selector", call.at \notin Unheard, registry' = registry,
         NEW told, DOMAIN told = {"news", "decision"}, told.news \in {"Succeeded", "Aborted"},
         told.news = "Succeeded" => ValidTarget(dispatch[c], told.decision),
         IF Leads(c)
         THEN /\ flying' = [flying EXCEPT ![AffinityKey(dispatch[c])] = NoFlying]
              /\ published' = [published EXCEPT ![c] = told]
         ELSE UNCHANGED <<flying, published>>
  PROVE  AliasInv'
<1> DEFINE k == AffinityKey(dispatch[c])
<1>1. /\ DOMAIN dispatch' = DispatchCalls /\ dispatch'[c] = call
      /\ \A f \in DispatchCalls \ {c} : dispatch'[f] = dispatch[f]
  BY OtherCalls, Zenon
<1>2. ASSUME NEW f \in DispatchCalls PROVE CallOk(dispatch[f]) /\ NewsOk(f) /\ JoinOk(f)
  BY Zenon DEF AliasInv
<1>3. published[c].news = "pending"
  BY <1>2, Zenon DEF NewsOk, Unheard
<1>4. ASSUME NEW f \in DispatchCalls PROVE CallOk(dispatch[f])'
  <2>1. CASE f = c
    BY <1>1, <2>1, Zenon DEF CallOk
  <2>2. CASE f # c
    BY <1>1, <1>2, <2>2, Zenon DEF CallOk
  <2>3. QED
    BY <2>1, <2>2, Zenon
<1>5. CASE ~Leads(c)
  <2>1. UNCHANGED <<flying, published>>
    BY <1>5, Zenon
  <2>2. ASSUME NEW f \in DispatchCalls PROVE NewsOk(f)' /\ JoinOk(f)'
    <3>1. CASE f = c
      <4>1. dispatch'[f].at \notin Unheard
        BY <1>1, <3>1, Zenon
      <4>2. dispatch'[f].at # "waits"
        BY <4>1, Zenon DEF Unheard
      <4>3. QED
        BY <1>2, <2>1, <4>1, <4>2, Zenon DEF NewsOk, JoinOk
    <3>2. CASE f # c
      <4>1. dispatch'[f] = dispatch[f] /\ NewsOk(f) /\ JoinOk(f)
        BY <1>1, <1>2, <3>2, Zenon
      <4>2. QED
        BY <2>1, <4>1, Zenon DEF NewsOk, JoinOk, AffinityKey, ValidTarget
    <3>3. QED
      BY <3>1, <3>2, Zenon
  <2>3. ASSUME NEW i \in DOMAIN flying PROVE FlightOk(i)'
    <3>1. FlightOk(i)
      BY Zenon DEF AliasInv
    <3>2. flying[i] # c \/ flying[i] = NoFlying
      <4> SUFFICES ASSUME flying[i] = c, c # NoFlying PROVE FALSE
        BY Zenon
      <4>1. Sticky(dispatch[c]) /\ AffinityKey(dispatch[c]) = i
        BY <3>1, Zenon DEF FlightOk
      <4>2. Leads(c)
        BY <4>1, Zenon DEF Leads
      <4>3. QED
        BY <1>5, <4>2, Zenon
    <3>3. QED
      BY <1>1, <2>1, <3>1, <3>2, Zenon DEF FlightOk, Sticky, AffinityKey
  <2>4. QED
    BY <1>1, <1>4, <2>1, <2>2, <2>3, Zenon DEF AliasInv
<1>6. CASE Leads(c)
  <2>1. /\ flying' = [flying EXCEPT ![k] = NoFlying] /\ published' = [published EXCEPT ![c] = told]
        /\ flying[k] = c /\ Sticky(dispatch[c])
    BY <1>6, Zenon DEF Leads
  <2>2. /\ DOMAIN published' = DispatchCalls /\ published'[c] = told
        /\ \A f \in DispatchCalls \ {c} : published'[f] = published[f]
    BY <2>1, Zenon DEF AliasInv
  <2>3. dispatch[c].session \in RouteSessions /\ dispatch[c].router \in Routers
    BY <1>2, <2>1, Zenon DEF CallOk, Sticky
  <2>4. k \in DOMAIN flying
    BY <2>3, Zenon DEF AliasInv, AffinityKey
  <2>5. /\ DOMAIN flying' = DOMAIN flying /\ flying'[k] = NoFlying
        /\ \A i \in DOMAIN flying \ {k} : flying'[i] = flying[i]
    BY <2>1, <2>4, Zenon
  <2> HIDE DEF k
  <2>6. ASSUME NEW f \in DispatchCalls PROVE NewsOk(f)'
    <3>1. CASE f = c
      BY <1>1, <2>2, <3>1, Zenon DEF NewsOk
    <3>2. CASE f # c
      BY <1>1, <1>2, <2>2, <3>2, Zenon DEF NewsOk
    <3>3. QED
      BY <3>1, <3>2, Zenon
  <2>7. ASSUME NEW f \in DispatchCalls, dispatch'[f].at = "waits" PROVE JoinOk(f)'
    <3> DEFINE j == dispatch[f].joined
               kf == AffinityKey(dispatch[f])
    <3>1. f # c
      BY <1>1, <2>7, Zenon DEF Unheard
    <3>2. dispatch'[f] = dispatch[f] /\ dispatch[f].at = "waits"
      BY <1>1, <2>7, <3>1, Zenon
    <3>3. /\ j \in DispatchCalls
          /\ published[j].news = "pending" => flying[kf] = j
          /\ published[j].news = "Succeeded" => ValidTarget(dispatch[f], published[j].decision)
      BY <1>2, <3>2, Zenon DEF CallOk, JoinOk
    <3>4. dispatch[f].session \in RouteSessions /\ dispatch[f].router \in Routers
      BY <1>2, <3>2, Zenon DEF CallOk, Sticky
    <3>5. kf \in DOMAIN flying
      BY <3>4, Zenon DEF AliasInv, AffinityKey
    <3>6. CASE j = c
      <4>1. flying[kf] = c
        BY <1>3, <3>3, <3>6, Zenon
      <4>2. AffinityKey(dispatch[c]) = kf
        BY <4>1, <3>5, DispatchAssumption, Zenon DEF AliasInv, FlightOk
      <4>3. dispatch[f].router = dispatch[c].router
        BY <4>2, Zenon DEF AffinityKey
      <4>4. told.news = "Succeeded" => ValidTarget(dispatch[f], told.decision)
        BY <4>3, Zenon DEF ValidTarget
      <4>5. published'[dispatch'[f].joined] = told
        BY <2>2, <3>2, <3>6, Zenon
      <4>6. QED
        BY <3>2, <4>4, <4>5, Zenon DEF JoinOk, ValidTarget
    <3>7. CASE j # c
      <4>1. published'[dispatch'[f].joined] = published[j]
        BY <2>2, <3>2, <3>3, <3>7, Zenon
      <4>2. published[j].news = "pending" => flying'[kf] = j
        BY <2>1, <2>5, <3>3, <3>5, <3>7, Zenon
      <4>3. QED
        BY <3>2, <3>3, <4>1, <4>2, Zenon DEF JoinOk, ValidTarget, AffinityKey
    <3>8. QED
      BY <3>6, <3>7, Zenon
  <2>8. ASSUME NEW f \in DispatchCalls, dispatch'[f].at # "waits" PROVE JoinOk(f)'
    BY <2>8, Zenon DEF JoinOk
  <2>9. ASSUME NEW i \in DOMAIN flying PROVE FlightOk(i)'
    <3>1. FlightOk(i)
      BY Zenon DEF AliasInv
    <3>2. CASE i = k
      BY <2>5, <3>2, Zenon DEF FlightOk
    <3>3. CASE i # k
      <4>1. flying'[i] = flying[i] /\ (flying[i] # c \/ flying[i] = NoFlying)
        BY <2>5, <3>1, <3>3, Zenon DEF FlightOk, k
      <4>2. QED
        BY <1>1, <3>1, <4>1, Zenon DEF FlightOk, Sticky, AffinityKey
    <3>4. QED
      BY <3>2, <3>3, Zenon
  <2>10. \A f \in DispatchCalls : JoinOk(f)'
    BY <2>7, <2>8, Zenon
  <2>11. QED
    BY <1>1, <1>4, <2>2, <2>5, <2>6, <2>9, <2>10, Zenon DEF AliasInv
<1>7. QED
  BY <1>5, <1>6, Zenon

\* ModelRouterAffinity::resolve: a hit, a flight to join, or one to lead.
LEMMA StickyStep ==
  ASSUME AliasInv, NEW c \in DispatchCalls, NEW call, CallOk(call), call.router \in Routers, Sticky(call),
         ResolveSticky(c, call), dispatch[c].at \in {"policy", "waits"}, UNCHANGED <<registry, published>>
  PROVE  AliasInv'
<1> DEFINE key == AffinityKey(call)
           hits == {d \in Cached(call) : ValidTarget(call, d)}
<1>1. dispatch[c].at # "selector"
  BY Zenon
<1>2. CASE hits # {}
  <2>1. PICK d \in hits : Becomes(c, FinishVirtual(call, [id |-> d.id, model |-> d.model])) /\ UNCHANGED flying
    BY <1>2, Zenon DEF ResolveSticky
  <2> DEFINE e == [id |-> d.id, model |-> d.model]
  <2>2. ValidTarget(call, e)
    BY Zenon DEF ValidTarget
  <2> HIDE DEF e
  <2>3. CallOk(FinishVirtual(call, e)) /\ FinishVirtual(call, e).at \in {"ended", "admits"}
    BY <2>2, FinishOk, Zenon
  <2>4. FinishVirtual(call, e).at # "waits" /\ FinishVirtual(call, e).at \notin Unheard
    BY <2>3, Zenon DEF Unheard
  <2>5. Becomes(c, FinishVirtual(call, e)) /\ UNCHANGED flying
    BY <2>1, Zenon DEF e
  <2>6. QED
    BY <1>1, <2>3, <2>4, <2>5, LoneMove, Zenon
<1>3. CASE hits = {}
  <2>1. call.session \in RouteSessions
    BY Zenon DEF CallOk, Sticky
  <2>2. key \in DOMAIN flying
    BY <2>1, Zenon DEF AliasInv, AffinityKey
  <2>3. CASE flying[key] # NoFlying
    <3>1. Becomes(c, [call EXCEPT !.at = "waits", !.joined = flying[key]]) /\ UNCHANGED flying
      BY <1>3, <2>3, Zenon DEF ResolveSticky
    <3>2. QED
      BY <2>2, <2>3, <3>1, JoinMove, Zenon
  <2>4. CASE flying[key] = NoFlying
    <3>1. flying' = [flying EXCEPT ![key] = c] /\ Becomes(c, Selecting(call))
      BY <1>3, <2>4, Zenon DEF ResolveSticky
    <3>2. QED
      BY <2>2, <2>4, <3>1, LeadMove, Zenon
  <2>5. QED
    BY <2>3, <2>4, Zenon
<1>4. QED
  BY <1>2, <1>3, Zenon

\* resolve_concrete and resolve_virtual, for a call that has read its policy.
LEMMA ResolveStep ==
  ASSUME AliasInv, NEW c \in DispatchCalls, NEW call, CallOk(call), call.at = "policy",
         dispatch[c].at = "policy", Resolve(c, call), UNCHANGED <<registry, published>>
  PROVE  AliasInv'
<1>0. dispatch[c].at # "selector" /\ dispatch[c].at \in Unheard
  BY Zenon DEF Unheard
<1>1. ASSUME Becomes(c, Ends(call, "ModelForbidden")), UNCHANGED flying
      PROVE  AliasInv'
  <2>1. CallOk(Ends(call, "ModelForbidden")) /\ Ends(call, "ModelForbidden").at # "waits"
    BY EndsOk, Zenon
  <2>2. QED
    BY <1>0, <1>1, <2>1, LoneMove, Zenon
<1>2. CASE call.asked # AliasRef \/ call.router = NoRouter
  <2> DEFINE e == Submits(call, call.asked)
  <2>1. /\ DOMAIN e = CallFields /\ e.at = "admits" /\ e.router = call.router /\ e.asked = call.asked
        /\ e.session = call.session /\ e.outcome = call.outcome
    BY Zenon DEF Submits, CallOk, CallFields
  <2>2. Becomes(c, Ends(call, "ModelForbidden")) \/ Becomes(c, e)
    BY <1>2, Zenon DEF Resolve
  <2>3. UNCHANGED flying
    BY <1>2, Zenon DEF Resolve
  <2> HIDE DEF e
  <2>4. CallOk(e) /\ e.at # "waits"
    BY <1>2, <2>1, Zenon DEF CallOk
  <2>5. ASSUME Becomes(c, e) PROVE AliasInv'
    BY <1>0, <2>3, <2>4, <2>5, LoneMove, Zenon
  <2>6. QED
    BY <1>1, <2>2, <2>3, <2>5, Zenon
<1>3. CASE call.asked = AliasRef /\ call.router # NoRouter
  <2>0. call.router \in Routers
    BY <1>3, Zenon DEF CallOk
  <2>1. \/ Becomes(c, Ends(call, "ModelForbidden")) /\ UNCHANGED flying
        \/ Sticky(call) /\ ResolveSticky(c, call)
        \/ Becomes(c, Selecting(call)) /\ UNCHANGED flying
    BY <1>3, Zenon DEF Resolve
  <2>2. ASSUME Sticky(call), ResolveSticky(c, call) PROVE AliasInv'
    BY <2>0, <2>2, StickyStep, Zenon
  <2>3. ASSUME Becomes(c, Selecting(call)), UNCHANGED flying PROVE AliasInv'
    <3> DEFINE e == Selecting(call)
    <3>1. /\ DOMAIN e = CallFields /\ e.at = "selector" /\ e.router = call.router
          /\ e.session = call.session /\ e.outcome = call.outcome
      BY Zenon DEF Selecting, CallOk, CallFields
    <3> HIDE DEF e
    <3>2. CallOk(e) /\ e.at # "waits"
      BY <2>0, <3>1, Zenon DEF CallOk
    <3>3. Becomes(c, e) /\ UNCHANGED flying
      BY <2>3, Zenon DEF e
    <3>4. QED
      BY <1>0, <3>2, <3>3, LoneMove, Zenon
  <2>4. QED
    BY <1>1, <2>1, <2>2, <2>3, Zenon
<1>4. QED
  BY <1>2, <1>3, Zenon

\* A call in the selector decides for a route of its router.
LEMMA DecidedStep ==
  ASSUME AliasInv, NEW c \in DispatchCalls, dispatch[c].at = "selector",
         NEW d, ValidTarget(dispatch[c], d), Decided(c, d)
  PROVE  AliasInv'
<1> DEFINE call == FinishVirtual(dispatch[c], d)
           told == [news |-> "Succeeded", decision |-> d]
<1>1. CallOk(dispatch[c])
  BY Zenon DEF AliasInv
<1>2. CallOk(call) /\ call.at \in {"ended", "admits"}
  BY <1>1, FinishOk, Zenon
<1>3. call.at \notin Unheard
  BY <1>2, Zenon DEF Unheard
<1>4. /\ DOMAIN told = {"news", "decision"} /\ told.news \in {"Succeeded", "Aborted"}
      /\ told.news = "Succeeded" => ValidTarget(dispatch[c], told.decision)
  BY Zenon
<1>5. Becomes(c, call) /\ registry' = registry
  BY Zenon DEF Decided
<1>6. IF Leads(c)
      THEN /\ flying' = [flying EXCEPT ![AffinityKey(dispatch[c])] = NoFlying]
           /\ published' = [published EXCEPT ![c] = told]
      ELSE UNCHANGED <<flying, published>>
  BY Zenon DEF Decided
<1> HIDE DEF call, told
<1>7. QED
  BY <1>2, <1>3, <1>4, <1>5, <1>6, SelectorLeft, Zenon

\* default_route finds a route: the first with the router's default model.
LEMMA DefaultRouteIsThere ==
  ASSUME NEW call, call.router \in Routers
  PROVE  ValidTarget(call, DefaultRoute(call))
<1> DEFINE r == call.router
           ids == {i \in DOMAIN r.routes : r.routes[i] = r.default}
<1>1. DOMAIN r.routes = 1..Len(r.routes) /\ Len(r.routes) \in Nat /\ ids # {}
  BY DispatchAssumption, Zenon
<1>2. ids \subseteq Nat
  BY <1>1
<1>3. PICK i \in ids : \A j \in ids : <<j, i>> \notin OpToRel(<, Nat)
  BY <1>1, <1>2, NatLessThanWellFounded, WFMin, Zenon
<1>4. ASSUME NEW j \in 1..(i - 1) PROVE r.routes[j] # r.default
  <2>1. i \in 1..Len(r.routes)
    BY <1>1, Zenon
  <2>2. j \in DOMAIN r.routes /\ j \in Nat /\ i \in Nat /\ j < i
    BY <1>1, <1>4, <2>1
  <2>3. j \notin ids
    BY <1>3, <2>2, Zenon DEF OpToRel
  <2>4. QED
    BY <2>2, <2>3, Zenon
<1> DEFINE First(n) == r.routes[n] = r.default /\ \A j \in 1..(n - 1) : r.routes[j] # r.default
           id == CHOOSE n \in DOMAIN r.routes : First(n)
<1>5. i \in DOMAIN r.routes /\ First(i)
  BY <1>4, Zenon
<1> HIDE DEF First
<1>6. id \in DOMAIN r.routes
  BY <1>5, Zenon
<1>7. DefaultRoute(call) = [id |-> id, model |-> r.routes[id]]
  BY Zenon DEF DefaultRoute, RouteOf, First
<1> HIDE DEF id
<1>8. DefaultRoute(call).id = id /\ DefaultRoute(call).model = call.router.routes[id]
  BY <1>7, SMT
<1>9. QED
  BY <1>6, <1>8, Zenon DEF ValidTarget

LEMMA AliasStep ==
  ASSUME AliasInv, [DispatchNext]_dispatchVars
  PROVE  AliasInv'
<1>1. CASE UNCHANGED dispatchVars
  BY <1>1, Zenon DEF AliasInv, dispatchVars, CallOk, NewsOk, FlightOk, JoinOk, Sticky, AffinityKey, ValidTarget
<1>2. CASE PublishGeneration
  <2>1. registry' \in Routers \cup {NoRouter} /\ UNCHANGED <<flying, published, dispatch>>
    BY <1>2, Zenon DEF PublishGeneration
  <2>2. QED
    BY <2>1, Zenon DEF AliasInv, CallOk, NewsOk, FlightOk, JoinOk, Sticky, AffinityKey, ValidTarget
<1>3. ASSUME NEW c \in DispatchCalls,
             \/ ParseFails(c) \/ ReceiveEmbedding(c)
             \/ \E kind \in Kinds : ReceiveGenerate(c, kind)
             \/ PolicyRead(c) \/ PolicyFails(c)
             \/ SelectorChooses(c) \/ SelectorInvalid(c)
             \/ SelectorUnavailable(c) \/ SelectorTimesOut(c)
             \/ FollowerHears(c) \/ DropCall(c)
             \/ AdmitRefuses(c) \/ Execute(c) \/ ExecutionReturns(c)
      PROVE  AliasInv'
  <2>0. CallOk(dispatch[c]) /\ NewsOk(c) /\ JoinOk(c) /\ registry \in Routers \cup {NoRouter}
    BY Zenon DEF AliasInv
  <2>1. ASSUME NEW call, NEW error, Becomes(c, Ends(call, error)), error # "RouteMismatch",
               dispatch[c].at # "selector", UNCHANGED <<registry, flying, published>>
        PROVE  AliasInv'
    <3>1. CallOk(Ends(call, error)) /\ Ends(call, error).at = "ended"
      BY <2>1, EndsOk, Zenon
    <3>2. Ends(call, error).at # "waits" /\ Ends(call, error).at \notin Unheard
      BY <3>1, Zenon DEF Unheard
    <3>3. QED
      BY <2>1, <3>1, <3>2, LoneMove, Zenon
  <2>2. ASSUME ParseFails(c) \/ PolicyFails(c) \/ AdmitRefuses(c) \/ ExecutionReturns(c)
        PROVE  AliasInv'
    <3>1. dispatch[c].at # "selector" /\ UNCHANGED <<registry, flying, published>>
      BY <2>2, Zenon DEF ParseFails, PolicyFails, AdmitRefuses, ExecutionReturns
    <3>2. PICK error : Becomes(c, Ends(dispatch[c], error)) /\ error # "RouteMismatch"
      <4>1. CASE ParseFails(c)
        <5>0. PICK kind \in Kinds : \E error \in EarlyErrors(kind) : Becomes(c, Ends(dispatch[c], error))
          BY <4>1, Zenon DEF ParseFails, Becomes, Ends
        <5>1. PICK error \in EarlyErrors(kind) : Becomes(c, Ends(dispatch[c], error))
          BY <5>0, Zenon
        <5>2. error # "RouteMismatch"
          BY DEF EarlyErrors
        <5>3. QED
          BY <5>1, <5>2, Zenon
      <4>2. CASE PolicyFails(c) \/ AdmitRefuses(c)
        BY <4>2, Zenon DEF PolicyFails, AdmitRefuses
      <4>3. CASE ExecutionReturns(c)
        <5>1. PICK error \in CoordinatorErrors(dispatch[c].kind) \cup {"executed"} : Becomes(c, Ends(dispatch[c], error))
          BY <4>3, Zenon DEF ExecutionReturns
        <5>2. error # "RouteMismatch"
          BY Zenon DEF CoordinatorErrors
        <5>3. QED
          BY <5>1, <5>2, Zenon
      <4>4. QED
        BY <2>2, <4>1, <4>2, <4>3, Zenon
    <3>3. QED
      BY <2>1, <3>1, <3>2, Zenon
  <2>3. ASSUME NEW call, Becomes(c, call), dispatch[c].at = "arrives", call.at = "policy",
               DOMAIN call = CallFields, call.router = registry,
               call.session \in RouteSessions \cup {NoIdentity}, call.outcome = dispatch[c].outcome,
               UNCHANGED <<registry, flying, published>>
        PROVE  AliasInv'
    <3>1. CallOk(call) /\ call.at # "waits"
      BY <2>0, <2>3, Zenon DEF CallOk
    <3>2. dispatch[c].at # "selector" /\ dispatch[c].at \in Unheard
      BY <2>3, Zenon DEF Unheard
    <3>3. QED
      BY <2>3, <3>1, <3>2, LoneMove, Zenon
  <2>4. ASSUME NEW kind \in Kinds, ReceiveGenerate(c, kind) PROVE AliasInv'
    <3>1. PICK ref \in Asked \cup {AliasRef}, s \in RouteSessions \cup {NoIdentity} :
              Becomes(c, [Leased(c, kind) EXCEPT !.at = "policy", !.asked = ref, !.session = s])
      BY <2>4, Zenon DEF ReceiveGenerate, Becomes
    <3> DEFINE call == [Leased(c, kind) EXCEPT !.at = "policy", !.asked = ref, !.session = s]
    <3>2. /\ DOMAIN call = CallFields /\ call.at = "policy" /\ call.router = registry /\ call.session = s
          /\ call.outcome = dispatch[c].outcome
      BY <2>0, Zenon DEF Leased, CallOk, CallFields
    <3>3. dispatch[c].at = "arrives" /\ UNCHANGED <<registry, flying, published>>
      BY <2>4, Zenon DEF ReceiveGenerate
    <3> HIDE DEF call
    <3>4. Becomes(c, call) /\ call.session \in RouteSessions \cup {NoIdentity}
      BY <3>1, <3>2, Zenon DEF call
    <3>5. QED
      BY <2>3, <3>2, <3>3, <3>4, Zenon
  <2>5. ASSUME ReceiveEmbedding(c) PROVE AliasInv'
    <3>1. PICK ref \in Asked \cup {AliasRef} :
              \/ Becomes(c, Ends(Leased(c, "embedding"), "EmbeddingAliasUnsupported"))
              \/ Becomes(c, [Leased(c, "embedding") EXCEPT !.at = "policy", !.asked = ref])
      BY <2>5, Zenon DEF ReceiveEmbedding, Becomes
    <3> DEFINE call == [Leased(c, "embedding") EXCEPT !.at = "policy", !.asked = ref]
    <3>2. /\ DOMAIN call = CallFields /\ call.at = "policy" /\ call.router = registry
          /\ call.session = dispatch[c].session /\ call.outcome = dispatch[c].outcome
      BY <2>0, Zenon DEF Leased, CallOk, CallFields
    <3>3. dispatch[c].at = "arrives" /\ UNCHANGED <<registry, flying, published>>
      BY <2>5, Zenon DEF ReceiveEmbedding
    <3>4. dispatch[c].at # "selector" /\ dispatch[c].session \in RouteSessions \cup {NoIdentity}
      BY <2>0, <3>3, Zenon DEF CallOk
    <3>5. CASE Becomes(c, Ends(Leased(c, "embedding"), "EmbeddingAliasUnsupported"))
      BY <2>1, <3>3, <3>4, <3>5, Zenon
    <3> HIDE DEF call
    <3>6. CASE Becomes(c, call)
      BY <2>3, <3>2, <3>3, <3>4, <3>6, Zenon
    <3>7. QED
      BY <3>1, <3>5, <3>6, Zenon DEF call
  <2>6. ASSUME PolicyRead(c) PROVE AliasInv'
    <3>1. PICK p \in Qualified : Resolve(c, [dispatch[c] EXCEPT !.policy = p])
      BY <2>6, Zenon DEF PolicyRead
    <3>2. dispatch[c].at = "policy" /\ UNCHANGED <<registry, published>>
      BY <2>6, Zenon DEF PolicyRead
    <3> DEFINE call == [dispatch[c] EXCEPT !.policy = p]
    <3>3. /\ DOMAIN call = CallFields /\ call.at = "policy" /\ call.router = dispatch[c].router
          /\ call.session = dispatch[c].session /\ call.outcome = dispatch[c].outcome
      BY <2>0, <3>2, Zenon DEF CallOk, CallFields
    <3> HIDE DEF call
    <3>4. CallOk(call)
      BY <2>0, <3>3, Zenon DEF CallOk
    <3>5. Resolve(c, call)
      BY <3>1, Zenon DEF call
    <3>6. QED
      BY <3>2, <3>3, <3>4, <3>5, ResolveStep, Zenon
  <2>7. ASSUME SelectorChooses(c) PROVE AliasInv'
    <3>1. PICK id \in RouteIds(dispatch[c]) : Decided(c, RouteOf(dispatch[c], id))
      BY <2>7, Zenon DEF SelectorChooses
    <3>2. ValidTarget(dispatch[c], RouteOf(dispatch[c], id)) /\ dispatch[c].at = "selector"
      BY <2>7, Zenon DEF ValidTarget, RouteOf, RouteIds, SelectorChooses
    <3>3. QED
      BY <3>1, <3>2, DecidedStep, Zenon
  <2>8. ASSUME dispatch[c].at = "selector", Decided(c, DefaultRoute(dispatch[c])) PROVE AliasInv'
    <3>1. dispatch[c].router \in Routers
      BY <2>0, <2>8, Zenon DEF CallOk
    <3>2. QED
      BY <2>8, <3>1, DefaultRouteIsThere, DecidedStep, Zenon
  <2>9. ASSUME dispatch[c].at = "selector", Becomes(c, [dispatch[c] EXCEPT !.tries = 2]),
               UNCHANGED <<registry, flying, published>>
        PROVE  AliasInv'
    <3>1. /\ DOMAIN dispatch' = DispatchCalls /\ dispatch'[c] = [dispatch[c] EXCEPT !.tries = 2]
          /\ \A f \in DispatchCalls \ {c} : dispatch'[f] = dispatch[f]
      BY <2>9, OtherCalls, Zenon
    <3> DEFINE Same(f) == /\ DOMAIN dispatch'[f] = DOMAIN dispatch[f] /\ dispatch'[f].at = dispatch[f].at
                          /\ dispatch'[f].router = dispatch[f].router /\ dispatch'[f].session = dispatch[f].session
                          /\ dispatch'[f].joined = dispatch[f].joined /\ dispatch'[f].outcome = dispatch[f].outcome
                          /\ dispatch'[f].asked = dispatch[f].asked /\ dispatch'[f].target = dispatch[f].target
    <3>2. Same(c)
      BY <2>0, <3>1, Zenon DEF CallOk, CallFields
    <3>3. \A f \in DispatchCalls : Same(f)
      BY <3>1, <3>2, Zenon
    <3>4. ASSUME NEW f \in DispatchCalls PROVE CallOk(dispatch[f])' /\ NewsOk(f)' /\ JoinOk(f)'
      <4>1. CallOk(dispatch[f]) /\ NewsOk(f) /\ JoinOk(f) /\ Same(f)
        BY <3>3, Zenon DEF AliasInv
      <4>2. CallOk(dispatch[f])'
        BY <4>1, Zenon DEF CallOk, Sticky
      <4>3. NewsOk(f)' /\ JoinOk(f)'
        BY <2>9, <4>1, Zenon DEF NewsOk, JoinOk, AffinityKey, ValidTarget
      <4>4. QED
        BY <4>2, <4>3, Zenon
    <3>5. ASSUME NEW k \in DOMAIN flying PROVE FlightOk(k)'
      <4>1. FlightOk(k)
        BY Zenon DEF AliasInv
      <4>2. QED
        BY <2>9, <3>3, <4>1, Zenon DEF FlightOk, Sticky, AffinityKey
    <3>6. QED
      BY <2>9, <3>1, <3>4, <3>5, Zenon DEF AliasInv
  <2>10. ASSUME SelectorInvalid(c) \/ SelectorUnavailable(c) \/ SelectorTimesOut(c) PROVE AliasInv'
    <3>1. /\ dispatch[c].at = "selector"
          /\ \/ Decided(c, DefaultRoute(dispatch[c]))
             \/ /\ Becomes(c, [dispatch[c] EXCEPT !.tries = 2])
                /\ UNCHANGED <<registry, flying, published>>
      BY <2>10, Zenon DEF SelectorInvalid, SelectorUnavailable, SelectorTimesOut
    <3>2. QED
      BY <2>8, <2>9, <3>1, Zenon
  <2>11. ASSUME FollowerHears(c) PROVE AliasInv'
    <3> DEFINE j == dispatch[c].joined
    <3>1. /\ dispatch[c].at = "waits" /\ published[j].news # "pending" /\ UNCHANGED <<registry, published>>
          /\ \/ published[j].news = "Aborted" /\ ResolveSticky(c, dispatch[c])
             \/ /\ published[j].news # "Aborted" /\ UNCHANGED flying
                /\ Becomes(c, FinishVirtual(dispatch[c], published[j].decision))
      BY <2>11, Zenon DEF FollowerHears
    <3>2. Sticky(dispatch[c]) /\ dispatch[c].router \in Routers /\ j \in DispatchCalls
      BY <2>0, <3>1, Zenon DEF CallOk
    <3>3. CASE ResolveSticky(c, dispatch[c])
      BY <2>0, <3>1, <3>2, <3>3, StickyStep, Zenon
    <3>4. CASE published[j].news # "Aborted" /\ UNCHANGED flying
               /\ Becomes(c, FinishVirtual(dispatch[c], published[j].decision))
      <4> DEFINE call == FinishVirtual(dispatch[c], published[j].decision)
      <4>1. NewsOk(j)
        BY <3>2, Zenon DEF AliasInv
      <4>2. published[j].news = "Succeeded"
        BY <3>1, <3>4, <4>1, Zenon DEF NewsOk
      <4>3. ValidTarget(dispatch[c], published[j].decision)
        BY <2>0, <3>1, <4>2, Zenon DEF JoinOk
      <4>4. CallOk(call) /\ call.at \in {"ended", "admits"}
        BY <2>0, <4>3, FinishOk, Zenon
      <4> HIDE DEF call
      <4>5. call.at # "waits" /\ call.at \notin Unheard /\ dispatch[c].at # "selector"
        BY <3>1, <4>4, Zenon DEF Unheard
      <4>6. Becomes(c, call)
        BY <3>4, Zenon DEF call
      <4>7. QED
        BY <3>1, <3>4, <4>4, <4>5, <4>6, LoneMove, Zenon
    <3>5. QED
      BY <3>1, <3>3, <3>4, Zenon
  <2>12. ASSUME DropCall(c) PROVE AliasInv'
    <3>1. Becomes(c, Ends(dispatch[c], "dropped")) /\ registry' = registry
      BY <2>12, Zenon DEF DropCall
    <3>2. CASE dispatch[c].at # "selector"
      <4>1. UNCHANGED <<flying, published>>
        BY <2>12, <3>2, Zenon DEF DropCall
      <4>2. QED
        BY <2>1, <3>1, <3>2, <4>1, Zenon
    <3>3. CASE dispatch[c].at = "selector"
      <4> DEFINE told == [published[c] EXCEPT !.news = "Aborted"]
                 call == Ends(dispatch[c], "dropped")
      <4>1. DOMAIN told = {"news", "decision"} /\ told.news = "Aborted"
        BY <2>0, Zenon DEF NewsOk
      <4>2. IF Leads(c)
            THEN /\ flying' = [flying EXCEPT ![AffinityKey(dispatch[c])] = NoFlying]
                 /\ published' = [published EXCEPT ![c] = told]
            ELSE UNCHANGED <<flying, published>>
        BY <2>12, <3>3, Zenon DEF DropCall
      <4>3. CallOk(call) /\ call.at = "ended"
        BY EndsOk, Zenon
      <4> HIDE DEF told, call
      <4>4. Becomes(c, call) /\ call.at \notin Unheard
        BY <3>1, <4>3, Zenon DEF call, Unheard
      <4>5. told.news \in {"Succeeded", "Aborted"} /\ told.news # "Succeeded"
        BY <4>1, Zenon
      <4>6. QED
        BY <3>1, <3>3, <4>1, <4>2, <4>3, <4>4, <4>5, SelectorLeft, Zenon
    <3>4. QED
      BY <3>2, <3>3, Zenon
  <2>13. ASSUME Execute(c) PROVE AliasInv'
    <3> DEFINE call == [dispatch[c] EXCEPT !.at = "executes"]
    <3>1. /\ DOMAIN call = CallFields /\ call.at = "executes" /\ call.router = dispatch[c].router
          /\ call.session = dispatch[c].session /\ call.outcome = dispatch[c].outcome
          /\ call.asked = dispatch[c].asked /\ call.target = dispatch[c].target
      BY <2>0, Zenon DEF CallOk, CallFields
    <3>2. Becomes(c, call) /\ dispatch[c].at = "admits" /\ UNCHANGED <<registry, flying, published>>
      BY <2>13, Zenon DEF Execute
    <3> HIDE DEF call
    <3>3. CallOk(call)
      BY <2>0, <3>1, <3>2, Zenon DEF CallOk
    <3>4. call.at # "waits" /\ call.at \notin Unheard /\ dispatch[c].at # "selector"
      BY <3>1, <3>2, Zenon DEF Unheard
    <3>5. QED
      BY <3>2, <3>3, <3>4, LoneMove, Zenon
  <2>14. QED
    BY <1>3, <2>2, <2>4, <2>5, <2>6, <2>7, <2>10, <2>11, <2>12, <2>13, Zenon
<1>4. QED
  BY <1>1, <1>2, <1>3, Zenon DEF DispatchNext

\* Whatever the selector answers, whenever the caller leaves, and however often
\* a reload replaces the router, an alias becomes a route of the router its own
\* call leased, also when another generation's call decided it (semantic.rs:
\* resolve_virtual, finish_virtual_resolution; affinity.rs: resolve).
THEOREM AliasKeepsItsRouterHolds == DispatchSpec => []AliasKeepsItsRouter
<1>1. DispatchInit => AliasInv
  <2> SUFFICES ASSUME DispatchInit PROVE AliasInv
    OBVIOUS
  <2>1. /\ registry \in Routers \cup {NoRouter}
        /\ DOMAIN dispatch = DispatchCalls /\ DOMAIN published = DispatchCalls
        /\ DOMAIN flying = Routers \X RouteSessions
        /\ \A k \in DOMAIN flying : flying[k] = NoFlying
    BY Zenon DEF DispatchInit
  <2>2. ASSUME NEW c \in DispatchCalls PROVE CallOk(dispatch[c]) /\ NewsOk(c) /\ JoinOk(c)
    <3>1. /\ DOMAIN dispatch[c] = CallFields /\ dispatch[c].at = "arrives"
          /\ dispatch[c].router = NoRouter /\ dispatch[c].session = NoIdentity /\ dispatch[c].outcome = "none"
      BY Zenon DEF DispatchInit, Arriving, CallFields
    <3>2. DOMAIN published[c] = {"news", "decision"} /\ published[c].news = "pending"
      BY Zenon DEF DispatchInit
    <3>3. QED
      BY <3>1, <3>2, Zenon DEF CallOk, NewsOk, JoinOk
  <2>3. \A k \in DOMAIN flying : FlightOk(k)
    BY <2>1, Zenon DEF FlightOk
  <2>4. QED
    BY <2>1, <2>2, <2>3, Zenon DEF AliasInv
<1>2. AliasInv /\ [DispatchNext]_dispatchVars => AliasInv'
  BY AliasStep, Zenon
<1>3. AliasInv => AliasKeepsItsRouter
  BY Zenon DEF AliasInv, CallOk, AliasKeepsItsRouter
<1>4. QED
  BY <1>1, <1>2, <1>3, PTL DEF DispatchSpec

-----------------------------------------------------------------------------
(* The token buckets of admission (RequestEntry).                          *)

Full == capacity * WINDOW

BucketOk(b) == DOMAIN b = {"tokens", "age"} /\ b.tokens \in Nat /\ b.age \in 0..STALE_AFTER

BucketInv ==
    /\ IsFiniteSet(DOMAIN buckets) /\ Cardinality(DOMAIN buckets) <= max_tracked_principals
    /\ \A p \in DOMAIN buckets : BucketOk(buckets[p])
    /\ DOMAIN ideal = Principals
    /\ \A p \in Principals : TokensOf(p) = ideal[p]

LEMMA LimitsAreNaturals ==
  /\ WINDOW \in Nat /\ STALE_AFTER \in Nat /\ max_tracked_principals \in Nat /\ capacity \in Nat
  /\ STALE_AFTER >= WINDOW /\ Full \in Nat
BY AdmissionAssumption DEF Full

LEMMA AtMostIs ==
  ASSUME NEW n \in Nat, NEW limit \in Nat
  PROVE  AtMost(n, limit) = IF n <= limit THEN n ELSE limit
<1> DEFINE m == IF n <= limit THEN n ELSE limit
<1>1. m \in {n, limit} /\ \A y \in {n, limit} : m <= y
  OBVIOUS
<1>2. \A x \in {n, limit} : (\A y \in {n, limit} : x <= y) => x = m
  OBVIOUS
<1> HIDE DEF m
<1>3. AtMost(n, limit) = m
  BY <1>1, <1>2, Zenon DEF AtMost, Min
<1>4. QED
  BY <1>3 DEF m

LEMMA LongerIsMore ==
  ASSUME NEW a \in Nat, NEW b \in Nat, NEW c \in Nat, a >= b
  PROVE  a * c \in Nat /\ a * c >= c * b
<1>1. PICK d \in Nat : a = b + d
  <2>1. a - b \in Nat /\ a = b + (a - b)
    OBVIOUS
  <2>2. QED
    BY <2>1
<1>2. (b + d) * c = c * b + d * c
  OBVIOUS
<1>3. d * c \in Nat /\ c * b \in Nat
  OBVIOUS
<1>4. QED
  BY <1>1, <1>2, <1>3

\* What a bucket holds once it is refilled; it is full after a whole window.
LEMMA RefilledIs ==
  ASSUME NEW b, BucketOk(b)
  PROVE  /\ b.age * capacity \in Nat
         /\ Refilled(b, capacity) = IF b.tokens + b.age * capacity <= Full
                                    THEN b.tokens + b.age * capacity ELSE Full
         /\ Refilled(b, capacity) \in 0..Full
         /\ b.age >= WINDOW => Refilled(b, capacity) = Full
<1>1. b.tokens \in Nat /\ b.age \in Nat
  BY LimitsAreNaturals DEF BucketOk
<1>2. b.age * capacity \in Nat
  BY <1>1, LimitsAreNaturals
<1> DEFINE gain == b.age * capacity
<1>3. Refilled(b, capacity) = AtMost(b.tokens + gain, Full)
  BY Zenon DEF Refilled, Full
<1> HIDE DEF gain
<1>4. gain \in Nat
  BY <1>2 DEF gain
<1>5. b.tokens + gain \in Nat
  BY <1>1, <1>4
<1>6. Refilled(b, capacity) = IF b.tokens + gain <= Full THEN b.tokens + gain ELSE Full
  BY <1>3, <1>5, AtMostIs, LimitsAreNaturals, Zenon
<1>7. ASSUME b.age >= WINDOW PROVE gain >= Full
  BY <1>1, <1>7, LimitsAreNaturals, LongerIsMore DEF gain, Full
<1>8. Refilled(b, capacity) \in 0..Full
  BY <1>1, <1>4, <1>6, LimitsAreNaturals
<1>9. b.age >= WINDOW => Refilled(b, capacity) = Full
  BY <1>1, <1>4, <1>6, <1>7, LimitsAreNaturals
<1>10. QED
  BY <1>2, <1>6, <1>8, <1>9, Zenon DEF gain

\* The bucket that is dropped from a full table holds all it can.
LEMMA RoomIsFree ==
  ASSUME BucketInv, NEW p \in Principals, TableFull(p) => StaleBuckets # {}
  PROVE  /\ DOMAIN Room(p) \subseteq DOMAIN buckets /\ IsFiniteSet(DOMAIN Room(p))
         /\ Cardinality(DOMAIN Room(p)) <= max_tracked_principals
         /\ p \notin DOMAIN buckets => Cardinality(DOMAIN Room(p)) + 1 <= max_tracked_principals
         /\ p \in DOMAIN buckets => Room(p) = buckets
         /\ \A q \in DOMAIN Room(p) : Room(p)[q] = buckets[q]
         /\ \A q \in DOMAIN buckets \ DOMAIN Room(p) : TokensOf(q) = Full
<1>0. /\ IsFiniteSet(DOMAIN buckets) /\ Cardinality(DOMAIN buckets) <= max_tracked_principals
      /\ Cardinality(DOMAIN buckets) \in Nat
  BY FS_CardinalityType, Zenon DEF BucketInv
<1>1. CASE ~TableFull(p)
  <2>1. Room(p) = buckets
    BY <1>1, Zenon DEF Room
  <2>2. p \notin DOMAIN buckets => Cardinality(DOMAIN buckets) + 1 <= max_tracked_principals
    BY <1>0, <1>1, LimitsAreNaturals DEF TableFull
  <2>3. QED
    BY <1>0, <2>1, <2>2, Zenon
<1>2. CASE TableFull(p)
  <2> DEFINE o == OldestStale
  <2>1. \A q \in StaleBuckets : q \in DOMAIN buckets /\ buckets[q].age = STALE_AFTER
    <3> TAKE q \in StaleBuckets
    <3>1. q \in DOMAIN buckets /\ buckets[q].age >= STALE_AFTER
      BY Zenon DEF StaleBuckets, IsStale
    <3>2. buckets[q].age \in 0..STALE_AFTER
      BY <3>1, Zenon DEF BucketInv, BucketOk
    <3>3. QED
      BY <3>1, <3>2, LimitsAreNaturals
  <2>2. STALE_AFTER >= STALE_AFTER
    BY LimitsAreNaturals
  <2>3. \E x \in StaleBuckets : \A q \in StaleBuckets : buckets[x].age >= buckets[q].age
    BY <1>2, <2>1, <2>2, Zenon
  <2>4. o \in StaleBuckets
    BY <2>3, Zenon DEF OldestStale
  <2> HIDE DEF o
  <2>5. o \in DOMAIN buckets /\ buckets[o].age >= WINDOW
    BY <2>1, <2>4, LimitsAreNaturals
  <2>6. TokensOf(o) = Full
    BY <2>5, RefilledIs, Zenon DEF BucketInv, TokensOf
  <2>7. Room(p) = [x \in DOMAIN buckets \ {o} |-> buckets[x]]
    BY <1>2, Zenon DEF Room, Restrict, o
  <2>8. DOMAIN Room(p) = DOMAIN buckets \ {o} /\ \A q \in DOMAIN Room(p) : Room(p)[q] = buckets[q]
    BY <2>7, Zenon
  <2>9. /\ IsFiniteSet(DOMAIN buckets \ {o})
        /\ Cardinality(DOMAIN buckets \ {o}) = Cardinality(DOMAIN buckets) - 1
    BY <1>0, <2>5, FS_RemoveElement, Zenon
  <2>10. /\ Cardinality(DOMAIN buckets) - 1 <= max_tracked_principals
         /\ (Cardinality(DOMAIN buckets) - 1) + 1 <= max_tracked_principals
    BY <1>0, LimitsAreNaturals
  <2>11. p \notin DOMAIN buckets
    BY <1>2, Zenon DEF TableFull
  <2>12. QED
    BY <2>6, <2>8, <2>9, <2>10, <2>11, Zenon
<1>3. QED
  BY <1>1, <1>2, Zenon

\* A principal's tokens, from the bucket it has after a step.
LEMMA TokensNext ==
  ASSUME NEW p
  PROVE  TokensOf(p)' = IF p \in DOMAIN buckets' THEN Refilled(buckets'[p], capacity) ELSE Full
BY Zenon DEF TokensOf, Refilled, Full

LEMMA BucketStep ==
  ASSUME BucketInv, [AdmissionNext]_admissionVars
  PROVE  BucketInv'
<1>0. ASSUME NEW q \in DOMAIN buckets
      PROVE  BucketOk(buckets[q]) /\ TokensOf(q) = Refilled(buckets[q], capacity)
  BY Zenon DEF BucketInv, TokensOf
<1>1. CASE UNCHANGED <<buckets, ideal>>
  BY <1>1, Zenon DEF BucketInv, TokensOf, Refilled
<1>2. ASSUME NEW p \in Principals, Limited(p), buckets' # buckets
      PROVE  BucketInv'
  <2>1. buckets' = Room(p) /\ (TableFull(p) => StaleBuckets # {}) /\ ideal' = ideal
    BY <1>2, Zenon DEF Limited
  <2>2. /\ DOMAIN buckets' \subseteq DOMAIN buckets /\ IsFiniteSet(DOMAIN buckets')
        /\ Cardinality(DOMAIN buckets') <= max_tracked_principals
        /\ \A q \in DOMAIN buckets' : buckets'[q] = buckets[q]
        /\ \A q \in DOMAIN buckets \ DOMAIN buckets' : TokensOf(q) = Full
    BY <2>1, RoomIsFree, Zenon
  <2>3. ASSUME NEW q \in Principals PROVE TokensOf(q)' = ideal'[q]
    <3>1. TokensOf(q) = ideal'[q]
      BY <2>1, Zenon DEF BucketInv
    <3>2. CASE q \in DOMAIN buckets'
      BY <1>0, <2>2, <3>1, <3>2, TokensNext, Zenon
    <3>3. CASE q \notin DOMAIN buckets'
      <4>1. TokensOf(q) = Full
        BY <2>2, <3>3, Zenon DEF TokensOf, Full
      <4>2. QED
        BY <3>1, <3>3, <4>1, TokensNext, Zenon
    <3>4. QED
      BY <3>2, <3>3, Zenon
  <2>4. QED
    BY <1>0, <2>1, <2>2, <2>3, Zenon DEF BucketInv, BucketOk
<1>3. ASSUME NEW p \in Principals, Admit(p)
      PROVE  BucketInv'
  <2> DEFINE t == TokensOf(p)
             room == DOMAIN Room(p)
  <2>1. /\ TableFull(p) => StaleBuckets # {}
        /\ t >= WINDOW
        /\ buckets' = [q \in room \union {p} |-> IF q = p THEN Bucket(t - WINDOW, 0) ELSE buckets[q]]
        /\ ideal' = [ideal EXCEPT ![p] = IF @ >= WINDOW THEN @ - WINDOW ELSE 0]
    BY <1>3, Zenon DEF Admit
  <2>2. /\ room \subseteq DOMAIN buckets /\ IsFiniteSet(room)
        /\ Cardinality(room) <= max_tracked_principals
        /\ p \notin DOMAIN buckets => Cardinality(room) + 1 <= max_tracked_principals
        /\ p \in DOMAIN buckets => room = DOMAIN buckets
        /\ \A q \in DOMAIN buckets \ room : TokensOf(q) = Full
    BY <2>1, RoomIsFree, Zenon
  <2>3. t \in 0..Full /\ ideal[p] = t
    <3>1. CASE p \in DOMAIN buckets
      BY <1>0, <3>1, RefilledIs, Zenon DEF BucketInv
    <3>2. CASE p \notin DOMAIN buckets
      <4>1. t = Full /\ ideal[p] = t
        BY <3>2, Zenon DEF BucketInv, TokensOf, Full
      <4>2. QED
        BY <4>1, LimitsAreNaturals
    <3>3. QED
      BY <3>1, <3>2, Zenon
  <2> HIDE DEF t, room
  <2>4. /\ DOMAIN buckets' = room \cup {p} /\ buckets'[p] = Bucket(t - WINDOW, 0)
        /\ \A q \in room \ {p} : buckets'[q] = buckets[q]
    BY <2>1, Zenon
  <2>5. IsFiniteSet(DOMAIN buckets') /\ Cardinality(DOMAIN buckets') <= max_tracked_principals
    <3>1. /\ IsFiniteSet(room \cup {p})
          /\ Cardinality(room \cup {p}) = IF p \in room THEN Cardinality(room) ELSE Cardinality(room) + 1
      BY <2>2, FS_AddElement, Zenon
    <3>2. CASE p \in DOMAIN buckets
      BY <2>2, <2>4, <3>1, <3>2, Zenon
    <3>3. CASE p \notin DOMAIN buckets
      <4>1. p \notin room
        BY <2>2, <3>3, Zenon
      <4>2. QED
        BY <2>2, <2>4, <3>1, <3>3, <4>1, Zenon
    <3>4. QED
      BY <3>2, <3>3, Zenon
  <2>6. t \in Nat /\ t - WINDOW \in Nat /\ t - WINDOW <= Full /\ 0 \in 0..STALE_AFTER
    BY <2>1, <2>3, LimitsAreNaturals
  <2>7. BucketOk(Bucket(t - WINDOW, 0))
    BY <2>6, Zenon DEF BucketOk, Bucket
  <2>8. Refilled(Bucket(t - WINDOW, 0), capacity) = t - WINDOW
    <3> DEFINE b == Bucket(t - WINDOW, 0)
    <3>1. b.tokens = t - WINDOW /\ b.age = 0
      BY Zenon DEF Bucket
    <3> HIDE DEF b
    <3>2. b.age * capacity = 0
      BY <3>1, LimitsAreNaturals
    <3>3. Refilled(b, capacity) = IF b.tokens + b.age * capacity <= Full
                                  THEN b.tokens + b.age * capacity ELSE Full
      BY <2>7, RefilledIs, Zenon DEF b
    <3>4. Refilled(b, capacity) = t - WINDOW
      BY <2>6, <3>1, <3>2, <3>3, LimitsAreNaturals
    <3>5. QED
      BY <3>4, Zenon DEF b
  <2>9. DOMAIN ideal' = Principals /\ ideal'[p] = t - WINDOW
    BY <2>1, <2>3, Zenon DEF BucketInv
  <2>10. \A q \in Principals \ {p} : ideal'[q] = ideal[q]
    BY <2>1, Zenon DEF BucketInv
  <2>11. ASSUME NEW q \in Principals PROVE TokensOf(q)' = ideal'[q]
    <3>1. CASE q = p
      BY <2>4, <2>8, <2>9, <3>1, TokensNext, Zenon
    <3>2. CASE q # p
      <4>1. TokensOf(q) = ideal'[q]
        BY <2>10, <3>2, Zenon DEF BucketInv
      <4>2. CASE q \in room
        BY <1>0, <2>2, <2>4, <3>2, <4>1, <4>2, TokensNext, Zenon
      <4>3. CASE q \notin room
        <5>1. TokensOf(q) = Full
          BY <2>2, <4>3, Zenon DEF TokensOf, Full
        <5>2. QED
          BY <2>4, <3>2, <4>1, <4>3, <5>1, TokensNext, Zenon
      <4>4. QED
        BY <4>2, <4>3, Zenon
    <3>3. QED
      BY <3>1, <3>2, Zenon
  <2>12. ASSUME NEW q \in DOMAIN buckets' PROVE BucketOk(buckets'[q])
    <3>1. CASE q = p
      BY <2>4, <2>7, <3>1, Zenon
    <3>2. CASE q # p
      <4>1. q \in room /\ q \in DOMAIN buckets
        BY <2>2, <2>4, <3>2, Zenon
      <4>2. QED
        BY <1>0, <2>4, <3>2, <4>1, Zenon
    <3>3. QED
      BY <3>1, <3>2, Zenon
  <2>13. QED
    BY <2>5, <2>9, <2>11, <2>12, Zenon DEF BucketInv, BucketOk
<1>4. CASE AdmissionTick
  <2>1. /\ DOMAIN buckets' = DOMAIN buckets
        /\ \A q \in DOMAIN buckets :
              buckets'[q] = [buckets[q] EXCEPT !.age = AtMost(buckets[q].age + 1, STALE_AFTER)]
        /\ DOMAIN ideal' = Principals
        /\ \A q \in Principals : ideal'[q] = AtMost(ideal[q] + capacity, Full)
    BY <1>4, Zenon DEF AdmissionTick, Full
  <2>2. ASSUME NEW q \in DOMAIN buckets
        PROVE  /\ BucketOk(buckets'[q])
               /\ Refilled(buckets'[q], capacity) = AtMost(TokensOf(q) + capacity, Full)
    <3> DEFINE b == buckets[q]
               n == buckets'[q]
    <3>1. b.tokens \in Nat /\ b.age \in 0..STALE_AFTER /\ b.age \in Nat /\ b.age + 1 \in Nat
      BY <1>0, LimitsAreNaturals DEF BucketOk
    <3>2. /\ DOMAIN n = {"tokens", "age"} /\ n.tokens = b.tokens
          /\ n.age = AtMost(b.age + 1, STALE_AFTER)
      BY <1>0, <2>1, Zenon DEF BucketOk
    <3>3. n.age = IF b.age + 1 <= STALE_AFTER THEN b.age + 1 ELSE STALE_AFTER
      BY <3>1, <3>2, AtMostIs, LimitsAreNaturals, Zenon
    <3>4. /\ b.age * capacity \in Nat
          /\ Refilled(b, capacity) = IF b.tokens + b.age * capacity <= Full
                                     THEN b.tokens + b.age * capacity ELSE Full
          /\ Refilled(b, capacity) \in 0..Full
          /\ b.age >= WINDOW => Refilled(b, capacity) = Full
      BY <1>0, RefilledIs, Zenon
    <3>5. TokensOf(q) = Refilled(b, capacity)
      BY <1>0, Zenon
    <3> HIDE DEF b, n
    <3>6. BucketOk(n)
      <4>1. n.age \in 0..STALE_AFTER
        BY <3>1, <3>3, LimitsAreNaturals
      <4>2. QED
        BY <3>1, <3>2, <4>1, Zenon DEF BucketOk
    <3>7. /\ n.age * capacity \in Nat
          /\ Refilled(n, capacity) = IF n.tokens + n.age * capacity <= Full
                                     THEN n.tokens + n.age * capacity ELSE Full
          /\ n.age >= WINDOW => Refilled(n, capacity) = Full
      BY <3>6, RefilledIs, Zenon
    <3>8. TokensOf(q) + capacity \in Nat
      BY <3>4, <3>5, LimitsAreNaturals
    <3>9. AtMost(TokensOf(q) + capacity, Full)
             = IF TokensOf(q) + capacity <= Full THEN TokensOf(q) + capacity ELSE Full
      BY <3>8, AtMostIs, LimitsAreNaturals, Zenon
    <3>10. CASE b.age + 1 <= STALE_AFTER
      <4>1. n.age * capacity = b.age * capacity + capacity
        BY <3>1, <3>3, <3>10, LimitsAreNaturals
      <4> DEFINE g == b.age * capacity
                 h == n.age * capacity
      <4>2. g \in Nat /\ h = g + capacity
        BY <3>4, <4>1
      <4>3. /\ Refilled(b, capacity) = IF b.tokens + g <= Full THEN b.tokens + g ELSE Full
            /\ Refilled(n, capacity) = IF b.tokens + h <= Full THEN b.tokens + h ELSE Full
        BY <3>2, <3>4, <3>7, Zenon
      <4> HIDE DEF g, h
      <4>4. Refilled(n, capacity) = IF TokensOf(q) + capacity <= Full THEN TokensOf(q) + capacity ELSE Full
        BY <3>1, <3>5, <4>2, <4>3, LimitsAreNaturals
      <4>5. QED
        BY <3>6, <3>9, <4>4, Zenon DEF n
    <3>11. CASE ~(b.age + 1 <= STALE_AFTER)
      <4>1. b.age >= WINDOW /\ n.age >= WINDOW
        BY <3>1, <3>3, <3>11, LimitsAreNaturals
      <4>2. TokensOf(q) = Full /\ Refilled(n, capacity) = Full
        BY <3>4, <3>5, <3>7, <4>1, Zenon
      <4>3. AtMost(TokensOf(q) + capacity, Full) = Full
        BY <3>9, <4>2, LimitsAreNaturals
      <4>4. QED
        BY <3>6, <4>2, <4>3, Zenon DEF n
    <3>12. QED
      BY <3>10, <3>11, Zenon
  <2>3. ASSUME NEW q \in Principals PROVE TokensOf(q)' = ideal'[q]
    <3>1. ideal'[q] = AtMost(TokensOf(q) + capacity, Full)
      BY <2>1, Zenon DEF BucketInv
    <3>2. CASE q \in DOMAIN buckets
      BY <2>1, <2>2, <3>1, <3>2, TokensNext, Zenon
    <3>3. CASE q \notin DOMAIN buckets
      <4>1. TokensOf(q) = Full /\ TokensOf(q)' = Full
        BY <2>1, <3>3, TokensNext, Zenon DEF TokensOf, Full
      <4>2. Full + capacity \in Nat
        BY LimitsAreNaturals
      <4>3. AtMost(Full + capacity, Full) = IF Full + capacity <= Full THEN Full + capacity ELSE Full
        BY <4>2, AtMostIs, LimitsAreNaturals, Zenon
      <4>4. AtMost(Full + capacity, Full) = Full
        BY <4>3, LimitsAreNaturals
      <4>5. QED
        BY <3>1, <4>1, <4>4, Zenon
    <3>4. QED
      BY <3>2, <3>3, Zenon
  <2>4. QED
    BY <2>1, <2>2, <2>3, Zenon DEF BucketInv, BucketOk
<1>5. CASE \E b \in Bodies :
              \/ \E declared \in 0 .. BodyLimit : BeginBody(b, declared)
              \/ Collect(b) \/ EndBody(b)
  <2>1. UNCHANGED <<buckets, ideal>>
    BY <1>5, Zenon DEF BeginBody, Collect, EndBody
  <2>2. QED
    BY <1>1, <2>1, Zenon
<1>6. ASSUME NEW p \in Principals, Limited(p), buckets' = buckets PROVE BucketInv'
  BY <1>1, <1>6, Zenon DEF Limited
<1>7. CASE UNCHANGED admissionVars
  BY <1>1, <1>7, Zenon DEF admissionVars
<1>8. QED
  BY <1>2, <1>3, <1>4, <1>5, <1>6, <1>7, Zenon DEF AdmissionNext

\* For any table size and any pattern of requests, dropping idle buckets from
\* the full table gives no principal a request more, or less, than an unbounded
\* table would (admission_fairness.rs: admit_at).
THEOREM ForgettingIsFreeHolds == AdmissionSpec => []ForgettingIsFree
<1>1. AdmissionInit => BucketInv
  <2> SUFFICES ASSUME AdmissionInit PROVE BucketInv
    OBVIOUS
  <2>1. DOMAIN buckets = {} /\ DOMAIN ideal = Principals /\ \A p \in Principals : ideal[p] = Full
    BY Zenon DEF AdmissionInit, Full
  <2>2. 0 <= max_tracked_principals
    BY LimitsAreNaturals
  <2>3. \A p : TokensOf(p) = Full
    BY <2>1, Zenon DEF TokensOf, Full
  <2>4. QED
    BY <2>1, <2>2, <2>3, FS_EmptySet, Zenon DEF BucketInv
<1>2. BucketInv /\ [AdmissionNext]_admissionVars => BucketInv'
  BY BucketStep, Zenon
<1>3. BucketInv => ForgettingIsFree
  BY Zenon DEF BucketInv, ForgettingIsFree
<1>4. QED
  BY <1>1, <1>2, <1>3, PTL DEF AdmissionSpec

=============================================================================
