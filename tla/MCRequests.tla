----------------------------- MODULE MCRequests -----------------------------
(***************************************************************************)
(* Instances of the components a request passes through: admission, model  *)
(* aliases, routing, claims, translation, the attempt upstream,            *)
(* the answer's stream, the wires learned from it, hosted tools, and the   *)
(* health and catalog they read.                                           *)
(*                                                                         *)
(* The components share no variable, so a behaviour runs one of them       *)
(* (part), from each of its initial states, while the others rest in one   *)
(* of theirs.                                                              *)
(***************************************************************************)
EXTENDS RequestEntry, RouteSelection, SelectionClaims,
        RequestTranslation, UpstreamAttempt, WireStream, WireResolver,
        ToolGateway, HealthState, CatalogRefresh

CONSTANTS
    Parts,                        \* the components this instance runs
    mx, my, mz, px,               \* models and a provider of the alias's routes
    m1, m2, p1, p2, openai, anthropic

VARIABLE part

-----------------------------------------------------------------------------
(* Constants.                                                              *)

\* Two configurations of one alias: the second routes to a qualified model.
Ref(m, q) == [model |-> m, provider |-> q]
MCRouters ==
    {[selector |-> Ref(mz, NoQualifier), default |-> Ref(mx, NoQualifier),
      routes |-> <<Ref(mx, NoQualifier)>>, sticky |-> TRUE, repair |-> 1],
     [selector |-> Ref(mz, NoQualifier), default |-> Ref(mx, NoQualifier),
      routes |-> <<Ref(my, px), Ref(mx, NoQualifier)>>, sticky |-> TRUE, repair |-> 0]}
MCAsked == {Ref(my, px)}
Everything == {Ref(mx, NoQualifier), Ref(my, NoQualifier), Ref(my, px), Ref(mz, NoQualifier), AliasRef}
MCQualified == {Everything, Everything \ {AliasRef}}

\* Two accounts of one protocol at two providers.
Identity(provider, protocol) ==
    [enabled |-> TRUE, has_usable_credentials |-> TRUE, provider |-> provider,
     protocol |-> protocol, priority |-> 1]
MCRegistry == <<Identity(p1, openai), Identity(p2, openai)>>
MCCapability == <<[status |-> "supported", effort |-> "supported"],
                  [status |-> "supported", effort |-> "unknown"]>>
Facts(model, provider, protocol, transcode, thinking) ==
    [model |-> model, provider |-> provider, protocol |-> protocol,
     transcode |-> transcode, thinking |-> thinking]
MCRouteRequests ==
    {Facts(m1, AnyProvider, AnyProvider, {}, "none"),
     Facts(m1, AnyProvider, openai, {anthropic}, "none"),
     Facts(m2, AnyProvider, anthropic, {openai}, "plain")}

\* Providers with static headers on the credential's name, a header of the
\* surface on it, an unresolved proxy, a header that is no header value, and
\* no authentication.
BareHeaders == [h \in HeaderNames |-> "no"]
ProviderOn(headers, surface, auth, proxied, unresolved) ==
    [headers |-> headers, surface |-> surface, auth |-> auth, proxied |-> proxied,
     unresolved |-> unresolved, limits |-> TRUE, compaction |-> TRUE, embeddings |-> FALSE]
Auth(mode, header, additional) == [mode |-> mode, header |-> header, additional |-> additional]
MCProviders ==
    {ProviderOn([BareHeaders EXCEPT !["authorization"] = "set"], BareHeaders,
                Auth("bearer", "authorization", {"x-api-key"}), {1}, {}),
     ProviderOn([BareHeaders EXCEPT !["x-client"] = "unset"], [BareHeaders EXCEPT !["x-api-key"] = "set"],
                Auth("bearer", "x-api-key", {}), {1, 2}, {}),
     ProviderOn(BareHeaders, BareHeaders, Auth("bearer", "authorization", {}), {}, {2}),
     ProviderOn(BareHeaders, [BareHeaders EXCEPT !["x-client"] = "bad"],
                Auth("bearer", "authorization", {}), {}, {}),
     [ProviderOn(BareHeaders, BareHeaders, Auth("none", "authorization", {"x-client"}), {}, {})
        EXCEPT !.embeddings = TRUE, !.compaction = FALSE]}
MCIncoming == {[names |-> HeaderNames, tokens |-> {}], [names |-> HeaderNames, tokens |-> {"x-client"}]}

\* Policies of the wire resolver that differ in capacity, or are disabled.
MCPolicies == {[enabled |-> TRUE, capacity |-> 1], [enabled |-> TRUE, capacity |-> 2],
               [enabled |-> FALSE, capacity |-> 1]}

\* The catalog's default provider lists one of its models statically.
MCStaticModels == {<<CHOOSE m \in Models : TRUE, "default">>}

-----------------------------------------------------------------------------
suiteVars == <<part, admissionVars, dispatchVars, routeVars, claimsVars,
               translationVars, upstreamVars, wireVars, resolverVars, toolVars, healthVars, catalogVars>>

Init ==
    /\ part \in Parts
    /\ AdmissionInit /\ RouteInit /\ ClaimsInit /\ CatalogInit
    /\ DispatchInit /\ (part = "dispatch" \/ registry = NoRouter)
    /\ UpstreamInit /\ (part = "upstream" \/ configured = [g \in Generations |-> CHOOSE q \in Providers : TRUE])
    /\ WireInit /\ (part = "wire" \/ /\ decoder.adapter = (CHOOSE a \in Adapters : TRUE)
                                     /\ encoder.surface = "chat")
    /\ ResolverInit /\ (part = "resolver" \/ policy = CHOOSE c \in Policies : TRUE)
    /\ ToolInit /\ (part = "tools" \/ /\ \A t \in KnownTools : profileRule[t] = "none"
                                      /\ backendCatalog = (CHOOSE c \in Catalogs : TRUE))
    /\ HealthInit /\ (part = "health" \/ \A m \in HealthModels : entries[m] = NoEntry)
    /\ (part = "translation" \/ request = (CHOOSE r \in DecodedRequests : TRUE)) /\ TranslationInit
    /\ suiteVars = suiteVars     \* has TLC enumerate the values the view leaves out

\* Only the component that runs takes steps.
Next ==
    /\ UNCHANGED part
    /\ IF part = "admission" THEN AdmissionNext ELSE UNCHANGED admissionVars
    /\ IF part = "dispatch" THEN DispatchNext ELSE UNCHANGED dispatchVars
    /\ IF part = "route" THEN RouteNext ELSE UNCHANGED routeVars
    /\ IF part = "claims" THEN ClaimsNext ELSE UNCHANGED claimsVars
    /\ IF part = "translation" THEN TranslationNext ELSE UNCHANGED translationVars
    /\ IF part = "upstream" THEN UpstreamNext ELSE UNCHANGED upstreamVars
    /\ IF part = "wire" THEN WireNext ELSE UNCHANGED wireVars
    /\ IF part = "resolver" THEN ResolverNext ELSE UNCHANGED resolverVars
    /\ IF part = "tools" THEN ToolNext ELSE UNCHANGED toolVars
    /\ IF part = "health" THEN HealthNext ELSE UNCHANGED healthVars
    /\ IF part = "catalog" THEN CatalogNext ELSE UNCHANGED catalogVars

\* The view of the model checker: what rests never changes, and tells no
\* states apart.
Running ==
    <<part, CASE part = "admission" -> admissionVars [] part = "dispatch" -> dispatchVars
              [] part = "route" -> routeVars [] part = "claims" -> claimsVars
              [] part = "translation" -> translationVars
              [] part = "upstream" -> upstreamVars [] part = "wire" -> wireVars
              [] part = "resolver" -> resolverVars [] part = "tools" -> toolVars [] part = "health" -> healthVars
              [] part = "catalog" -> catalogVars>>

Spec == Init /\ [][Next]_suiteVars
=============================================================================
