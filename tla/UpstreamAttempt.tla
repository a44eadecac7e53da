--------------------------- MODULE UpstreamAttempt ---------------------------
(***************************************************************************)
(* One attempt on a provider, from the client pool of a generation to the  *)
(* end of the answer: ProviderClientPool (providers/client_pool.rs), the   *)
(* assembly of the request (coordinator/attempt.rs) and the transport      *)
(* (providers/transport.rs).                                               *)
(*                                                                         *)
(* A header is its name, and its value is where the value came from; the   *)
(* client library under the transport is external and is the set of errors *)
(* it reports.  A generation has the provider configuration it was built   *)
(* from, and a reload builds a pool from another one.  A body is the       *)
(* number of its chunks.                                                   *)
(***************************************************************************)
EXTENDS Naturals, FiniteSets

CONSTANTS
    PoolAccounts,    \* accounts of the provider
    Generations,     \* 1..n
    Providers,       \* provider configurations, see ProviderShape
    IncomingHeaders, \* header sets a client may send
    MaxChunks,       \* chunks of an answer, and
    max_bytes,       \* how many of them fit
    NoPool,
    NoConnection

HeaderNames == {"authorization", "x-api-key", "x-request-id", "connection", "accept-encoding",
                "content-type", "x-client"}

\* headers and surface: static headers with a value, none (an unset
\* variable) or a bad one; auth: the header, its mode and the additional ones.
ProviderShape ==
    [headers : [HeaderNames -> {"no", "set", "unset", "bad"}],
     surface : [HeaderNames -> {"no", "set", "unset", "bad"}],
     auth : [mode : {"none", "bearer"}, header : HeaderNames, additional : SUBSET HeaderNames],
     proxied : SUBSET PoolAccounts,     \* accounts with a proxy that resolves
     unresolved : SUBSET PoolAccounts,  \* a proxy that does not, or is no proxy
     limits : BOOLEAN,                  \* validate_config accepts it
     compaction : BOOLEAN, embeddings : BOOLEAN]

ASSUME UpstreamAssumption ==
    /\ Providers \subseteq ProviderShape
    /\ \A i \in IncomingHeaders : i.names \cup i.tokens \subseteq HeaderNames

VARIABLES
    configured, \* per generation, the configuration it is built from
    topology,   \* per generation, NoPool before, the clients, or closed
    upstream     \* the attempt and how it stands, or NoConnection

upstreamVars == <<configured, topology, upstream>>

-----------------------------------------------------------------------------
(* The client pool.                                                        *)

\* ClientTopology: the accounts with a client of their own, the others share
\* the provider's direct one.
ClosedPool == [open |-> FALSE, own |-> {}]

\* from_config: the pool exists only if every client of it could be built.
PoolBuilds(p) == p.limits /\ p.unresolved = {}

BuildPool(g) ==
    /\ topology[g] = NoPool
    /\ PoolBuilds(configured[g])
    /\ topology' = [topology EXCEPT ![g] = [open |-> TRUE, own |-> configured[g].proxied]]
    /\ UNCHANGED <<configured, upstream>>

\* close: the topology is swapped out; clients handed out before live on.
ClosePool(g) ==
    /\ topology[g] \notin {NoPool, ClosedPool}
    /\ topology' = [topology EXCEPT ![g] = ClosedPool]
    /\ UNCHANGED <<configured, upstream>>

\* get_client
get_client(g, a) == IF a \in topology[g].own THEN "proxied" ELSE "direct"

-----------------------------------------------------------------------------
(* Assembling the request.                                                 *)

NoHeaders == [h \in HeaderNames |-> "none"]

PutHeaders(headers, names, value) ==
    [h \in HeaderNames |-> IF h \in names THEN value ELSE headers[h]]

HOP_BY_HOP_HEADERS == {"connection"}

LOCAL_HEADERS == {"authorization", "x-api-key", "accept-encoding"}

\* add_forwarded_headers
add_forwarded_headers(headers, incoming) ==
    PutHeaders(headers, (incoming.names \ (HOP_BY_HOP_HEADERS \cup LOCAL_HEADERS)) \ incoming.tokens,
        "client")

\* add_request_identity_headers: this request's own identifier.
add_request_identity_headers(headers) == PutHeaders(headers, {"x-request-id"}, "request")

\* add_static_headers: a header whose variable is unset is left out.
add_static_headers(headers, static, value) ==
    PutHeaders(headers, {h \in HeaderNames : static[h] = "set"}, value)

StaticIsBad(static) == \E h \in HeaderNames : static[h] = "bad"

\* add_auth_header and add_auth_header_value; mode "none" still sets the
\* additional headers when there is a key.
add_auth_header(headers, auth, keyed) ==
    IF ~keyed THEN headers
    ELSE PutHeaders(headers, auth.additional \cup (IF auth.mode = "none" THEN {} ELSE {auth.header}),
             "account")

CredentialMissing(auth, keyed) == auth.mode # "none" /\ ~keyed

\* Defect: the credential goes in before the static headers.
AssembleAuthFirst(p, incoming, keyed) ==
    LET base == PutHeaders(NoHeaders, {"content-type"}, "default")
        identified == add_request_identity_headers(add_forwarded_headers(base, incoming))
        keyedFirst == add_auth_header(identified, p.auth, keyed)
    IN  add_static_headers(add_static_headers(keyedFirst, p.headers, "static"),
                           p.surface, "surface")

\* The order of prepare_parts, the same in the compact and embedding variants.
Assemble(p, incoming, keyed) ==
    LET base == PutHeaders(NoHeaders, {"content-type"}, "default")
        identified == add_request_identity_headers(add_forwarded_headers(base, incoming))
        fixed == add_static_headers(add_static_headers(identified, p.headers, "static"),
                                    p.surface, "surface")
    IN  add_auth_header(fixed, p.auth, keyed)

\* What each variant asks of the request and the provider before that.
prepare_compact_borrowed(p, r) == ~r.stream /\ r.surface = "responses" /\ p.compaction
prepare_embedding_borrowed(p, r) == ~r.stream /\ r.surface = "chat" /\ p.embeddings

VariantQualifies(p, r) ==
    CASE r.kind = "compact" -> prepare_compact_borrowed(p, r)
      [] r.kind = "embedding" -> prepare_embedding_borrowed(p, r)
      [] OTHER -> TRUE

\* validate_preparation, the wire adaptation and expand_path may refuse too.
Prepares(p, r) ==
    /\ VariantQualifies(p, r)
    /\ ~StaticIsBad(p.headers) /\ ~StaticIsBad(p.surface)
    /\ ~CredentialMissing(p.auth, r.keyed)

Shapes == [kind : {"generate"}, stream : BOOLEAN, surface : {"chat", "responses"}, keyed : BOOLEAN]
          \cup [kind : {"compact", "embedding"}, stream : {FALSE},
                surface : {"chat", "responses"}, keyed : {TRUE}]

PreparedUpstreamAttempt(at, g, a, r, headers) ==
    [at |-> at, gen |-> g, account |-> a, keyed |-> r.keyed, stream |-> r.stream,
     headers |-> headers, route |-> "none", chunks |-> 0, error |-> "none"]

\* An attempt of a request that leases generation g.
Prepare(g, a, r, incoming) ==
    LET p == configured[g]
    IN  /\ upstream = NoConnection
        /\ topology[g] # NoPool
        /\ \E refused \in {TRUE} \cup (IF Prepares(p, r) THEN {FALSE} ELSE {}) :
             upstream' = IF refused
                          THEN PreparedUpstreamAttempt("refused", g, a, r, NoHeaders)
                          ELSE PreparedUpstreamAttempt("prepared", g, a, r,
                                                       Assemble(p, incoming, r.keyed))
        /\ UNCHANGED <<configured, topology>>

-----------------------------------------------------------------------------
(* Submitting it, and the answer.                                          *)

EndsWith(error) == upstream' = [upstream EXCEPT !.at = "ended", !.error = error]

\* submit_once: get_client, which fails on a closed pool.
GetClient ==
    /\ upstream # NoConnection /\ upstream.at = "prepared"
    /\ IF topology[upstream.gen] = ClosedPool THEN EndsWith("Closed")
       ELSE upstream' = [upstream EXCEPT !.at = "sending",
                                       !.route = get_client(upstream.gen, upstream.account)]
    /\ UNCHANGED <<configured, topology>>

\* The errors of the dialer of a proxied client: map_outbound_dial_error.
DialKinds == {"Timeout", "Authentication", "Rejected", "Connection", "Other"}

\* The errors of the library, where they can occur.
LibraryErrors ==
    [kind : {"AdmissionTimeout", "Pool", "InvalidUrl", "RequestBuild", "Aborted", "Unsupported",
             "Body", "IoRead", "IoWrite", "Tls", "Cancelled", "Protocol", "Unclassified"},
     dial : {"Other"}]
    \cup [kind : {"ConnectTimeout", "Connect", "CustomTransport"}, dial : DialKinds]

\* A proxied client has the dialer, and only it reports CustomTransport.
Possible(route, phase) ==
    {e \in LibraryErrors :
        /\ e.kind = "CustomTransport" => route = "proxied"
        /\ e.kind = "Connect" => route = "direct"
        /\ phase = "body" => e.kind \in {"Body", "IoRead", "Cancelled", "Protocol", "Unclassified"}}

DialError(kind) ==
    CASE kind = "Timeout" -> "ProxyConnectTimeout"
      [] kind = "Authentication" -> "ProxyAuthentication"
      [] kind = "Rejected" -> "ProxyTargetConnect"
      [] OTHER -> "ProxyConnect"

\* map_eggfetch_error and map_transport_failure_kind.
map_eggfetch_error(e, fallback, route) ==
    CASE e.kind = "AdmissionTimeout" -> "PoolTimeout"
      [] e.kind \in {"Pool", "Unsupported"} -> "Configuration"
      [] e.kind = "IoRead" -> "ReadTimeout"
      [] e.kind = "IoWrite" -> "WriteTimeout"
      [] e.kind = "ConnectTimeout" -> IF route = "proxied" THEN "ProxyConnectTimeout"
                                                           ELSE "ConnectTimeout"
      [] e.kind = "InvalidUrl" -> "InvalidTarget"
      [] e.kind \in {"RequestBuild", "Body", "Protocol"} -> "Protocol"
      [] e.kind = "Aborted" -> "TransportFault"
      [] e.kind = "CustomTransport" -> DialError(e.dial)
      [] e.kind \in {"Tls", "Cancelled", "Connect"} -> e.kind
      [] OTHER -> fallback

\* send: the size limit and join_provider_target come first.
SendRefused ==
    /\ upstream # NoConnection /\ upstream.at = "sending"
    /\ \E error \in {"RequestBodyTooLarge", "InvalidTarget"} : EndsWith(error)
    /\ UNCHANGED <<configured, topology>>

SendFails ==
    /\ upstream # NoConnection /\ upstream.at = "sending"
    /\ \E e \in Possible(upstream.route, "send") :
         EndsWith(map_eggfetch_error(e, "Write", upstream.route))
    /\ UNCHANGED <<configured, topology>>

\* The head of the response: UpstreamResponseEvidence.
HeadersArrive ==
    /\ upstream # NoConnection /\ upstream.at = "sending"
    /\ upstream' = [upstream EXCEPT !.at = "body"]
    /\ UNCHANGED <<configured, topology>>

\* ProviderBody::next, inside read_to_bytes unless the attempt streams.
NextChunk ==
    /\ upstream # NoConnection /\ upstream.at = "body"
    /\ upstream.chunks < MaxChunks
    /\ IF ~upstream.stream /\ upstream.chunks + 1 > max_bytes
         THEN EndsWith("ResponseBodyTooLarge")
         ELSE upstream' = [upstream EXCEPT !.chunks = @ + 1]
    /\ UNCHANGED <<configured, topology>>

BodyFails ==
    /\ upstream # NoConnection /\ upstream.at = "body"
    /\ \E e \in Possible(upstream.route, "body") :
         EndsWith(map_eggfetch_error(e, "Read", upstream.route))
    /\ UNCHANGED <<configured, topology>>

BodyEnds ==
    /\ upstream # NoConnection /\ upstream.at = "body"
    /\ EndsWith("none")
    /\ UNCHANGED <<configured, topology>>

\* The coordinator takes the result, or is dropped with the attempt.
TakeResult ==
    /\ upstream # NoConnection
    /\ upstream' = NoConnection
    /\ UNCHANGED <<configured, topology>>

UpstreamInit ==
    /\ configured \in [Generations -> Providers]
    /\ topology = [g \in Generations |-> NoPool]
    /\ upstream = NoConnection

UpstreamNext ==
    \/ \E g \in Generations : BuildPool(g) \/ ClosePool(g)
    \/ \E g \in Generations, a \in PoolAccounts, r \in Shapes, i \in IncomingHeaders :
         Prepare(g, a, r, i)
    \/ GetClient \/ SendRefused \/ SendFails \/ HeadersArrive
    \/ NextChunk \/ BodyFails \/ BodyEnds \/ TakeResult

UpstreamSpec == UpstreamInit /\ [][UpstreamNext]_upstreamVars

-----------------------------------------------------------------------------
(* Properties.                                                             *)

\* A submitted attempt carries its own account's credential where the provider
\* wants it, whatever static headers, surface headers or client headers have
\* the same name (prepare_parts and its variants).
OwnCredentialIsSent ==
    upstream # NoConnection /\ upstream.at \notin {"refused"} =>
        LET auth == configured[upstream.gen].auth
        IN  /\ auth.mode # "none" => upstream.headers[auth.header] = "account"
            /\ upstream.keyed => \A h \in auth.additional : upstream.headers[h] = "account"
            /\ upstream.headers["x-request-id"] # "client"

\* An account with a proxy is never dialled directly, over failed and
\* successful builds of the pools and reloads that change who is proxied: a
\* pool that lacks one of its clients is not published (from_config).
ProxiedStaysProxied ==
    upstream # NoConnection /\ upstream.route # "none" =>
        LET p == configured[upstream.gen]
        IN  upstream.route = IF upstream.account \in p.proxied \cup p.unresolved
                              THEN "proxied" ELSE "direct"

=============================================================================
