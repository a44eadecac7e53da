--------------------------- MODULE ConfigAssembly ---------------------------
(***************************************************************************)
(* From a configuration file to a serving generation (rust/src/config.rs,  *)
(* the startup of server/mod.rs, the persistence delta of reload.rs,       *)
(* accounts/registry.rs, RuntimeGenerationFactory and the task specs):     *)
(* what Config::validate accepts is compared with what assembly demands,   *)
(* over the account rows that earlier configurations left behind.          *)
(*                                                                         *)
(* A document is the typed Config, a record of sections, with the fields   *)
(* some check or builder reads.  Floats are integers in the unit named at  *)
(* the field; a text is a string, and "malformed" stands for one that its  *)
(* syntax check refuses; an absent option is NotSet or "".  The pointer,   *)
(* task and policy halves of a reload are in ReloadTransaction: a reload   *)
(* here is its rows, its candidate's construction and the outcome.         *)
(***************************************************************************)
EXTENDS Integers, Sequences, FiniteSets, FiniteSetsExt, SequencesExt

CONSTANTS
    Documents,        \* configurations the file may hold
    NoDocument,       \* a file that is missing or is not a Config document
    Surroundings,     \* sets of environment variables a server may start with
    MaxFileEdits,     \* bound of the edits of the file
    MaxAssemblies     \* bound of the starts and reloads

VARIABLES
    configFile,     \* the document on disk, and the edits made to it
    surrounding,    \* the environment of the server process
    durableRows,    \* the accounts table: name -> id, provider, enabled, weight
    published,      \* the serving generation: its document and its registry
    assembly,       \* the start or reload in progress
    verdict         \* how the last start or reload ended

assemblyVars == <<configFile, surrounding, durableRows, published, assembly, verdict>>

NotSet == -1
IsWellFormed(text) == text # "malformed"
IsNamed(text) == text \notin {"", "malformed"}
Within(n, low, high) == low <= n /\ n <= high
WithinIfSet(n, low, high) == n # NotSet => Within(n, low, high)

\* The sections of Config and their defaults.
DefaultServer == [port |-> 8080, threads |-> 1, max_request_body_bytes |-> 33554432]
DefaultUpstream == [base_url |-> "https://opencode.ai", keepalive |-> 4, connections |-> 16]
DefaultReadinessProbe == [interval_s |-> 10, freshness_s |-> 30]
DefaultModels == [refresh_interval_s |-> 300, expose_mode |-> "union",
                  catalog_withdrawal_policy |-> "preserve_until_health"]
DefaultNegotiation == [max_concurrent |-> 1, min_interval_s |-> 1, rejection_cooldown_s |-> 300,
                       preference_ttl_s |-> 86400, cache_max_entries |-> 2048]
DefaultRouting == [strategy |-> "quota_fair", near_tie_epsilon |-> 1, local_quota_mode |-> "score_only",
                   fairness_mode |-> "round_robin", fairness_epsilon |-> NotSet,
                   fairness_scope |-> "provider_model_protocol"]
DefaultLimits == [five_hour |-> 12000000, weekly |-> 30000000, monthly |-> 60000000]
DefaultFairness == [per_principal |-> NotSet, global |-> NotSet, max_tracked_principals |-> 4096]
DefaultMetrics == [write_mode |-> "low_wear", flush_interval_s |-> 120, cleanup_interval_s |-> 86400]
DefaultDashboard == [store_request_content |-> FALSE]
DefaultSecurity == [trusted_proxies |-> <<>>]
DefaultNetwork == [keepalive |-> 2, connections |-> 8]
DefaultMaintenance == [tick_ms |-> 500, p0_tick_ms |-> 1000, contention_ms |-> 200, deferral_age_s |-> 3600]
DefaultBackup == [enabled |-> FALSE, interval_s |-> 86400, startup_delay_s |-> 300]
\* Timeouts in tenths of a second.
DefaultTools == [enabled |-> FALSE, gateway |-> FALSE, hosted |-> FALSE, hosted_models |-> <<>>,
                 connect_timeout |-> 20, read_timeout |-> 30, base_url |-> "loopback"]
DefaultTranscoder == [loss_policy |-> "warn", budget_resolution_policy |-> "lenient"]
DefaultAuth == [mode |-> "bearer", header |-> "authorization", scheme |-> "Bearer", additional |-> <<>>]
InheritedAuth == [DefaultAuth EXCEPT !.mode = "inherited"]
DefaultSurface == [path |-> "", stream_path |-> "", compact_path |-> "", auth |-> InheritedAuth,
                   headers |-> <<>>, compaction_v1 |-> FALSE, compaction_v2 |-> FALSE]
DefaultAccount == [name |-> "", api_key |-> "", api_key_env |-> "", enabled |-> TRUE, weight |-> 1,
                   proxy |-> "", proxy_url |-> "", proxy_url_env |-> ""]
DefaultProvider ==
    [id |-> "", base_url |-> "https", protocols |-> {"openai"}, openai_path |-> "/chat",
     anthropic_path |-> "/messages", responses_path |-> "", models_method |-> "GET",
     embeddings_path |-> "", embedding_models |-> {}, connections |-> 32, keepalive |-> 8,
     timeouts |-> {5, 30, 300}, keepalive_timeout_s |-> 30, completion_policy |-> "strict",
     stream_timeouts |-> {NotSet}, max_lifetime_s |-> NotSet, accounts |-> <<>>,
     overrides |-> <<>>, thinking |-> <<>>, surfaces |-> << >>, model_wire |-> << >>,
     auth |-> DefaultAuth, headers |-> <<>>, static_models |-> <<>>]
\* Timeout in hundredths of a second; `size` is the length of the compiled policy text.
DefaultRouter == [selector |-> "", default |-> "", routes |-> << >>, affinity_ttl_s |-> 43200,
                  selector_timeout |-> 200, max_input_bytes |-> 2048, repair_attempts |-> 1, size |-> 64]

DefaultConfig ==
    [server |-> DefaultServer, upstream |-> DefaultUpstream, readiness_probe |-> DefaultReadinessProbe,
     models |-> DefaultModels, negotiation |-> DefaultNegotiation, routing |-> DefaultRouting,
     limits |-> DefaultLimits, fairness |-> DefaultFairness, metrics |-> DefaultMetrics,
     dashboard |-> DefaultDashboard, security |-> DefaultSecurity, network |-> DefaultNetwork,
     maintenance |-> DefaultMaintenance, backup |-> DefaultBackup, tools |-> DefaultTools,
     transcoder |-> DefaultTranscoder, pricing_fallback |-> "generic_estimate",
     update_checker |-> FALSE, busy_timeout_ms |-> 5000, advertise_base_url |-> "",
     proxies |-> << >>, accounts |-> <<>>, providers |-> << >>, routers |-> << >>, overrides |-> <<>>]

-----------------------------------------------------------------------------
(* Config::validate, in the order of its checks.                           *)

ValidFairness(f) ==
    /\ WithinIfSet(f.per_principal, 1, 60000)
    /\ WithinIfSet(f.global, 1, 60000)
    /\ Within(f.max_tracked_principals, 1, 65536)

ValidTrusted(s) == \A i \in DOMAIN s.trusted_proxies : IsWellFormed(s.trusted_proxies[i])

DEFAULT_PROVIDER_ID == "opencode-go"

\* Accounts at the top level, in a document without providers, become the
\* default provider's.
AdoptLegacy(d) ==
    IF DOMAIN d.providers = {} /\ d.accounts # <<>>
    THEN [d EXCEPT !.accounts = <<>>,
                   !.providers = [i \in {DEFAULT_PROVIDER_ID} |->
                       [DefaultProvider EXCEPT !.id = i, !.base_url = d.upstream.base_url,
                                               !.protocols = {"openai", "anthropic"},
                                               !.accounts = d.accounts]]]
    ELSE d

\* A proxy names its URL or the variable that holds it.
ValidProxy(proxy) == (proxy.url = "") # (proxy.url_env = "")

\* A provider without surfaces offers one per path its protocols name.
DefaultSurfaces(p) ==
    LET at(path) == [DefaultSurface EXCEPT !.path = path]
        offered == {<<"openai_chat_completions", p.openai_path>> : x \in p.protocols \cap {"openai"}}
            \cup {<<"openai_responses", p.responses_path>>}
            \cup {<<"anthropic_messages", p.anthropic_path>> : x \in p.protocols \cap {"anthropic"}}
        named == {o \in offered : o[2] # ""}
    IN  [s \in {o[1] : o \in named} |-> at((CHOOSE o \in named : o[1] = s)[2])]

WithSurfaces(p) == IF DOMAIN p.surfaces = {} THEN [p EXCEPT !.surfaces = DefaultSurfaces(p)] ELSE p

Normalised(d) ==
    LET adopted == AdoptLegacy(d)
    IN  [adopted EXCEPT !.providers = [i \in DOMAIN @ |-> WithSurfaces(@[i])]]

ValidPair(keepalive, connections) == 0 < keepalive /\ keepalive <= connections

ValidEmbeddings(p) ==
    /\ (p.embeddings_path = "") <=> (p.embedding_models = {})
    /\ IsWellFormed(p.embeddings_path)
    /\ \A model \in p.embedding_models : IsNamed(model)

ValidLimits(l) ==
    /\ \A n \in {l.context, l.input, l.output} : n # 0
    /\ l.context # NotSet => l.input <= l.context /\ l.output <= l.context

ValidAuth(a) ==
    /\ a.mode \in {"bearer", "api_key", "raw_authorization", "none"}
    /\ IsNamed(a.header) /\ IsNamed(a.scheme)
    /\ a.mode = "none" => a.additional = <<>>
    /\ \A i \in DOMAIN a.additional :
           /\ a.additional[i].mode \in {"bearer", "api_key", "raw_authorization"}
           /\ IsNamed(a.additional[i].header)
    /\ IsInjective(<<a.header>> \o [i \in DOMAIN a.additional |-> a.additional[i].header])

\* A static header has one source, and no name twice or taken by authentication.
ValidHeaders(headers, a) ==
    LET taken == {a.header} \cup {a.additional[i].header : i \in DOMAIN a.additional}
    IN  /\ \A i \in DOMAIN headers :
               /\ IsNamed(headers[i].name) /\ headers[i].name \notin taken
               /\ (headers[i].value = "") # (headers[i].value_env = "")
               /\ IsWellFormed(headers[i].value)
        /\ IsInjective([i \in DOMAIN headers |-> headers[i].name])

EmbeddedSurfaces == {"openai_chat_completions", "openai_responses", "anthropic_messages",
                     "gemini_generate_content", "gemini_interactions"}

\* Every surface is one of the registry's, every preference one of the provider's.
ValidReferences(p) ==
    /\ DOMAIN p.surfaces \subseteq EmbeddedSurfaces
    /\ \A model \in DOMAIN p.model_wire : p.model_wire[model] \in DOMAIN p.surfaces

ValidSurface(p, name) ==
    LET s == p.surfaces[name]
        auth == IF s.auth.mode = "inherited" THEN p.auth ELSE s.auth
    IN  /\ IsNamed(s.path) /\ IsWellFormed(s.stream_path) /\ IsWellFormed(s.compact_path)
        /\ s.compaction_v1 => s.compact_path # ""
        /\ s.compaction_v2 => name = "openai_responses"
        /\ ValidAuth(auth)
        /\ ValidHeaders(s.headers, auth)

ValidTransport(p) ==
    /\ ValidPair(p.keepalive, p.connections)
    /\ \A t \in p.timeouts : t > 0
    /\ p.keepalive_timeout_s >= 0
    /\ p.completion_policy \in {"strict", "compatible", "permissive_observe"}
    /\ \A t \in p.stream_timeouts : WithinIfSet(t, 1, 86400)
    /\ WithinIfSet(p.max_lifetime_s, 0, 86400)
    /\ p.models_method \in {"GET", "POST"}

ValidStaticModels(models) ==
    /\ \A i \in DOMAIN models : /\ IsNamed(models[i].id)
                                /\ models[i].protocol \in {"", "openai", "anthropic"}
                                /\ ValidLimits(models[i].limits)
    /\ IsInjective([i \in DOMAIN models |-> models[i].id])

ValidOverrides(overrides) ==
    \A i \in DOMAIN overrides : ValidLimits(overrides[i]) /\ overrides[i].price >= NotSet

\* Thinking budgets: the least, the most, and those of the efforts.
ValidThinking(thinking) ==
    \A i \in DOMAIN thinking :
        /\ thinking[i].least # 0 /\ thinking[i].most # 0 /\ 0 \notin thinking[i].efforts
        /\ thinking[i].most # NotSet => thinking[i].least <= thinking[i].most

\* Requests of the provider need a credential: on some surface, one is sent.
NeedsKey(p) == p.auth.mode # "none"
                  \/ \E s \in DOMAIN p.surfaces : p.surfaces[s].auth.mode \notin {"none", "inherited"}

ValidAccount(d, p, account) ==
    /\ IsNamed(account.name)
    /\ account.weight > 0
    /\ Cardinality({f \in {"proxy", "proxy_url", "proxy_url_env"} : account[f] # ""}) <= 1
    /\ account.proxy # "" => account.proxy \in DOMAIN d.proxies
    /\ NeedsKey(p) => account.api_key # "" \/ account.api_key_env # ""

ValidProvider(d, i) ==
    LET p == d.providers[i]
    IN  /\ p.id = i /\ IsNamed(i)
        /\ IsNamed(p.base_url)
        /\ p.protocols # {} /\ p.protocols \subseteq {"openai", "anthropic"}
        /\ ValidEmbeddings(p)
        /\ ValidTransport(p)
        /\ ValidAuth(p.auth) /\ ValidHeaders(p.headers, p.auth)
        /\ ValidReferences(p)
        /\ \A s \in DOMAIN p.surfaces : ValidSurface(p, s)
        /\ ValidStaticModels(p.static_models)
        /\ ValidOverrides(p.overrides)
        /\ ValidThinking(p.thinking)
        /\ \A k \in DOMAIN p.accounts : ValidAccount(d, p, p.accounts[k])

\* The router of virtual model v names existing models only, and falls back to one of its routes.
ValidRouter(d, v) ==
    LET r == d.routers[v]
    IN  /\ IsNamed(v) /\ IsNamed(r.selector) /\ IsNamed(r.default)
        /\ r.selector \notin DOMAIN d.routers
        /\ \A label \in DOMAIN r.routes : /\ IsNamed(label) /\ IsNamed(r.routes[label])
                                          /\ r.routes[label] \notin DOMAIN d.routers
        /\ \E label \in DOMAIN r.routes : r.routes[label] = r.default
        /\ Within(r.affinity_ttl_s, 1, 604800)
        /\ Within(r.selector_timeout, 5, 3000)
        /\ Within(r.max_input_bytes, 128, 16384)
        /\ r.repair_attempts \in {0, 1}

ValidModes(d) ==
    /\ d.models.expose_mode \in {"union", "intersection", "healthy_union"}
    /\ d.models.catalog_withdrawal_policy \in {"preserve_until_health", "confirmed_once", "confirmed_twice"}
    /\ d.routing.strategy = "quota_fair"
    /\ d.routing.local_quota_mode \in {"score_only", "hard_cap"}
    /\ d.routing.fairness_mode \in {"off", "round_robin", "random"}
    /\ d.routing.fairness_scope \in {"provider_model_protocol", "provider_model", "priority_model_protocol"}

\* NotSet is the only negative fairness_epsilon that passes.
ValidTolerances(d) ==
    /\ d.routing.near_tie_epsilon >= 0 /\ d.routing.fairness_epsilon >= NotSet
    /\ \A ms \in {d.maintenance.tick_ms, d.maintenance.p0_tick_ms, d.maintenance.contention_ms} :
           Within(ms, 0, 86400000)
    /\ Within(d.maintenance.deferral_age_s, 0, 604800)

ValidContent(d) ==
    /\ d.pricing_fallback \in {"generic_estimate", "off"}
    /\ d.transcoder.loss_policy \in {"warn", "reject"}
    /\ d.transcoder.budget_resolution_policy \in {"lenient", "strict"}
    /\ ~d.dashboard.store_request_content

ValidProcess(d) ==
    /\ Within(d.server.threads, 1, 64)
    /\ Within(d.server.max_request_body_bytes, 1, 1073741824)
    /\ d.metrics.flush_interval_s # 0 /\ d.metrics.cleanup_interval_s # 0

ValidNegotiation(n) ==
    /\ Within(n.max_concurrent, 1, 8)
    /\ Within(n.cache_max_entries, 1, 65536)
    /\ Within(n.min_interval_s, 0, 1800) /\ Within(n.rejection_cooldown_s, 0, 1800)
    /\ Within(n.preference_ttl_s, 1, 604800)

ValidBounds(d) ==
    /\ ValidPair(d.upstream.keepalive, d.upstream.connections)
    /\ ValidPair(d.network.keepalive, d.network.connections)
    /\ d.readiness_probe.freshness_s > d.readiness_probe.interval_s
    /\ d.busy_timeout_ms # 0
    /\ 0 \notin {d.limits.five_hour, d.limits.weekly, d.limits.monthly}

\* The advertised URL is a bare host or ends with /v1.
normalize_advertise_base_url(d) == IsWellFormed(d.advertise_base_url)

ValidTools(t) ==
    /\ t.gateway \/ t.hosted => t.enabled
    /\ t.hosted => t.hosted_models # <<>>
    /\ Len(t.hosted_models) <= 128 /\ IsInjective(t.hosted_models)
    /\ \A i \in DOMAIN t.hosted_models : IsNamed(t.hosted_models[i])
    /\ Within(t.connect_timeout, 1, 100) /\ Within(t.read_timeout, 1, 300)
    /\ t.base_url = "loopback"

\* configured_accounts: the accounts of all providers, each with its provider.
DeclaredAccounts(d) ==
    FlattenSeq([k \in 1..Cardinality(DOMAIN d.providers) |->
        LET i == SetToSeq(DOMAIN d.providers)[k]
        IN  [n \in DOMAIN d.providers[i].accounts |->
                [account |-> d.providers[i].accounts[n], provider |-> i]]])

ConfiguredNames(d) == {DeclaredAccounts(d)[k].account.name : k \in DOMAIN DeclaredAccounts(d)}

\* Config::validate of a normalised document.
Validated(d) ==
    /\ ValidFairness(d.fairness) /\ ValidTrusted(d.security)
    /\ \A x \in DOMAIN d.proxies : ValidProxy(d.proxies[x])
    /\ \A i \in DOMAIN d.providers : ValidProvider(d, i)
    /\ IsInjective([k \in DOMAIN DeclaredAccounts(d) |-> DeclaredAccounts(d)[k].account.name])
    /\ \A v \in DOMAIN d.routers : ValidRouter(d, v)
    /\ ValidOverrides(d.overrides)
    /\ ValidModes(d) /\ ValidTolerances(d) /\ ValidContent(d) /\ ValidProcess(d)
    /\ ValidNegotiation(d.negotiation) /\ ValidBounds(d)
    /\ normalize_advertise_base_url(d)
    /\ ValidTools(d.tools)

\* Config::from_toml_bytes: also, a served document has a port.
from_toml_bytes(d) == d # NoDocument /\ Validated(Normalised(d)) /\ d.server.port # 0

\* The key of an account: written down, or in the environment.
HasKey(account, env) == account.api_key # "" \/ account.api_key_env \in env

\* Check that `check-config`, `serve` and every command that starts a server make.
validate_account_credentials(d, env) ==
    \A i \in DOMAIN d.providers : NeedsKey(d.providers[i]) =>
        \A k \in DOMAIN d.providers[i].accounts :
            LET account == d.providers[i].accounts[k]
            IN  account.enabled => HasKey(account, env) /\ IsWellFormed(account.api_key)

-----------------------------------------------------------------------------
(* What assembling a generation demands of a document and of the rows.     *)

COMPILED_POLICY_MAX_BYTES == 65536

\* compile_model_router refuses what validate does not measure.
RoutersCompile(d) ==
    \A v \in DOMAIN d.routers : ValidRouter(d, v) /\ d.routers[v].size <= COMPILED_POLICY_MAX_BYTES

\* compile_provider_profiles: each surface has a definition in the registry.
ProfilesCompile(d) == \A i \in DOMAIN d.providers : DOMAIN d.providers[i].surfaces \subseteq EmbeddedSurfaces

\* resolve_account_proxy_url: the account's own source, or its named proxy's.
ProxyResolves(d, account, env) ==
    /\ account.proxy_url_env # "" => account.proxy_url_env \in env
    /\ account.proxy # "" =>
           /\ account.proxy \in DOMAIN d.proxies
           /\ d.proxies[account.proxy].url # "" \/ d.proxies[account.proxy].url_env \in env

ClientsBuild(d, env) ==
    \A k \in DOMAIN DeclaredAccounts(d) : ProxyResolves(d, DeclaredAccounts(d)[k].account, env)

\* AccountRegistry::from_config: what it refuses, "" if nothing.
RegistryError(d, rows, env) ==
    LET configured == DeclaredAccounts(d)
        refused(k) ==
            LET c == configured[k]
            IN  CASE c.account.name \notin DOMAIN rows -> "MissingConfiguredAccount"
                  [] rows[c.account.name].id <= 0 -> "InvalidAccountId"
                  [] rows[c.account.name].provider # c.provider -> "ProviderMismatch"
                  [] c.account.weight <= 0 -> "InvalidWeight"
                  [] c.account.enabled /\ NeedsKey(d.providers[c.provider]) /\ ~HasKey(c.account, env)
                        -> "MissingCredential"
                  [] OTHER -> ""
        errors == SelectSeq([k \in DOMAIN configured |-> refused(k)], LAMBDA e : e # "")
    IN  IF \E n \in DOMAIN rows : rows[n].enabled /\ n \notin ConfiguredNames(d) THEN "UnknownDurableAccount"
        ELSE IF errors # <<>> THEN errors[1] ELSE ""

\* The identities of the registry: ids come from the rows, the rest from the document.
Registry(d, rows) ==
    [n \in ConfiguredNames(d) |->
        LET k == CHOOSE k \in DOMAIN DeclaredAccounts(d) : DeclaredAccounts(d)[k].account.name = n
            c == DeclaredAccounts(d)[k]
        IN  [id |-> rows[n].id, provider |-> c.provider, enabled |-> c.account.enabled]]

\* RuntimeGenerationFactory::prepare: the first step that fails, "" if none does.
AssemblyError(d, rows, env) ==
    IF ~RoutersCompile(d) THEN "Config"
    ELSE IF ~ProfilesCompile(d) THEN "Compilation"
    ELSE IF ~ClientsBuild(d, env) THEN "ClientPool"
    ELSE RegistryError(d, rows, env)

\* Six tasks run on a schedule: an enabled one needs an interval.
TaskSpecs(d) ==
    { [name |-> "catalog_refresh", interval |-> d.models.refresh_interval_s,
       enabled |-> d.models.refresh_interval_s > 0, immediate |-> FALSE, delay |-> NotSet],
      [name |-> "retention_cleanup", interval |-> d.metrics.cleanup_interval_s,
       enabled |-> TRUE, immediate |-> FALSE, delay |-> NotSet],
      [name |-> "checkpoint", interval |-> 60, enabled |-> TRUE, immediate |-> TRUE, delay |-> NotSet],
      [name |-> "metrics_flush", interval |-> d.metrics.flush_interval_s,
       enabled |-> d.metrics.write_mode # "immediate", immediate |-> FALSE, delay |-> 5],
      [name |-> "update_checker", interval |-> 86400, enabled |-> d.update_checker,
       immediate |-> TRUE, delay |-> NotSet],
      [name |-> "automatic_backup", interval |-> d.backup.interval_s,
       enabled |-> d.backup.enabled /\ d.backup.interval_s > 0,
       immediate |-> FALSE, delay |-> d.backup.startup_delay_s] }

\* RuntimeTaskSpec::validate.
ValidSpec(spec) ==
    /\ spec.interval >= 0 /\ spec.delay >= NotSet
    /\ spec.enabled => spec.interval > 0
    /\ ~(spec.immediate /\ spec.delay # NotSet)

\* validate_specs: every spec is valid and no name occurs twice.
SpecsError(d) ==
    IF \E spec \in TaskSpecs(d) : ~ValidSpec(spec) THEN "TaskSpec" ELSE ""

-----------------------------------------------------------------------------
(* The accounts table.                                                     *)

RowOf(c, id) == [id |-> id, provider |-> c.provider, enabled |-> c.account.enabled, weight |-> c.account.weight]

LastId(rows) == Max({0} \cup {rows[n].id : n \in DOMAIN rows})

\* Upsert of projected rows by name; every other row is disabled.
Upserted(rows, projection) ==
    LET names == {projection[k].name : k \in DOMAIN projection}
        row(n) == projection[CHOOSE k \in DOMAIN projection : projection[k].name = n].row
    IN  [n \in DOMAIN rows \cup names |->
            IF n \in names
            THEN [row(n) EXCEPT !.id = IF n \in DOMAIN rows THEN rows[n].id ELSE @]
            ELSE [rows[n] EXCEPT !.enabled = FALSE]]

\* The rows a document wants, each under the id its name has or the next free one.
ProjectedWithNewIds(d, rows) ==
    LET configured == DeclaredAccounts(d)
        fresh(k) == {j \in 1..k : configured[j].account.name \notin DOMAIN rows}
        id(k) == IF configured[k].account.name \in DOMAIN rows THEN rows[configured[k].account.name].id
                 ELSE LastId(rows) + Cardinality(fresh(k))
    IN  [k \in DOMAIN configured |->
            [name |-> configured[k].account.name, row |-> RowOf(configured[k], id(k))]]

\* The rows of the old document that exist, as they are to be put back.
Projected(d, rows) == SelectSeq(ProjectedWithNewIds(d, rows), LAMBDA r : r.name \in DOMAIN rows)

\* The rows the candidate is assembled over, before any of them is written.
CandidateRows(d, rows) == Upserted(rows, ProjectedWithNewIds(d, rows))

-----------------------------------------------------------------------------
(* Which changes a running server takes.                                   *)

\* FIELD_DISPOSITIONS: the restart-required fields of each section, in the table's order.
RestartToMetrics == [dashboard |-> {"store_request_content"}, limits |-> {"five_hour", "weekly", "monthly"},
                     metrics |-> {"cleanup_interval_s", "write_mode"}]
RestartToProviders == [models |-> {"catalog_withdrawal_policy"}, network |-> {"keepalive", "connections"}]
RestartToUpstream == [readiness_probe |-> {"interval_s", "freshness_s"}, security |-> {"trusted_proxies"},
                      server |-> {"port", "threads"}, upstream |-> {"base_url", "keepalive", "connections"}]
RestartSections == {"busy_timeout_ms", "pricing_fallback", "proxies", "tools", "update_checker"}

has_restart_required(old, new) ==
    \/ \E section \in RestartSections : old[section] # new[section]
    \/ \E table \in {RestartToMetrics, RestartToProviders, RestartToUpstream} :
          \E section \in DOMAIN table : \E field \in table[section] :
              old[section][field] # new[section][field]

-----------------------------------------------------------------------------
(* Starting and reloading.                                                 *)

NoAssembly == [at |-> "idle", document |-> NoDocument, rows |-> << >>, wanted |-> <<>>, old |-> <<>>,
               snapshot |-> <<0, 0>>, made |-> 0]
NotPublished == [document |-> NoDocument, registry |-> << >>, compensated |-> TRUE]
NoVerdict == [stage |-> "none", error |-> "", document |-> NoDocument]

Snapshot(rows) == <<Cardinality(DOMAIN rows), LastId(rows)>>

AssemblyInit ==
    /\ configFile = [document |-> NoDocument, edits |-> 0]
    /\ surrounding = {}
    /\ durableRows = << >>
    /\ published = NotPublished
    /\ assembly = NoAssembly
    /\ verdict = NoVerdict

AssemblyEnds(stage, error) ==
    /\ verdict' = [stage |-> stage, error |-> error, document |-> assembly.document]
    /\ assembly' = [NoAssembly EXCEPT !.made = assembly.made]

Reaches(stage) == assembly' = [assembly EXCEPT !.at = stage] /\ UNCHANGED verdict

Begins(stage, d) ==
    /\ assembly.made < MaxAssemblies
    /\ assembly' = [assembly EXCEPT !.at = stage, !.document = d, !.made = @ + 1]
    /\ UNCHANGED verdict

\* An operator or a command replaces the file.
EditConfigFile(d) ==
    /\ configFile.edits < MaxFileEdits
    /\ d # configFile.document
    /\ configFile' = [document |-> d, edits |-> configFile.edits + 1]
    /\ UNCHANGED <<surrounding, durableRows, published, assembly, verdict>>

\* `serve`: the document and the credentials are checked before anything is written.
ServeConfig(env) ==
    /\ published = NotPublished /\ assembly.at = "idle"
    /\ from_toml_bytes(configFile.document)
    /\ validate_account_credentials(Normalised(configFile.document), env)
    /\ Begins("sync", Normalised(configFile.document))
    /\ surrounding' = env
    /\ UNCHANGED <<configFile, durableRows, published>>

\* sync_accounts writes the document's accounts in one transaction.
SyncAccounts ==
    /\ assembly.at = "sync"
    /\ durableRows' = Upserted(durableRows, ProjectedWithNewIds(assembly.document, durableRows))
    /\ Reaches("build")
    /\ UNCHANGED <<configFile, surrounding, published>>

\* Generation 1 is prepared from the stored rows.
BuildFirst ==
    /\ assembly.at = "build"
    /\ LET error == AssemblyError(assembly.document, durableRows, surrounding)
       IN  IF error # "" THEN AssemblyEnds("candidate_prepare_failed", error)
           ELSE assembly' = [assembly EXCEPT !.at = "install", !.rows = durableRows] /\ UNCHANGED verdict
    /\ UNCHANGED <<configFile, surrounding, durableRows, published>>

Publishes ==
    published' = [document |-> assembly.document, compensated |-> TRUE,
                  registry |-> Registry(assembly.document, assembly.rows)]

\* install_initial_tasks, and the server serves.
InstallInitialTasks ==
    /\ assembly.at = "install"
    /\ IF SpecsError(assembly.document) # ""
       THEN AssemblyEnds("task_preflight_failed", SpecsError(assembly.document)) /\ UNCHANGED published
       ELSE AssemblyEnds("committed", "") /\ Publishes
    /\ UNCHANGED <<configFile, surrounding, durableRows>>

\* A reload reads the file, compares it with the active configuration, and
\* plans the rows: those the candidate wants and those to put back.
BeginReload ==
    /\ published # NotPublished /\ assembly.at = "idle"
    /\ from_toml_bytes(configFile.document)
    /\ LET candidate == Normalised(configFile.document)
       IN  /\ candidate # published.document
           /\ ~has_restart_required(published.document, candidate)
           /\ assembly.made < MaxAssemblies
           /\ assembly' = [at |-> "candidate", document |-> candidate, made |-> assembly.made + 1,
                           rows |-> CandidateRows(candidate, durableRows),
                           wanted |-> ProjectedWithNewIds(candidate, durableRows),
                           old |-> Projected(published.document, durableRows),
                           snapshot |-> Snapshot(durableRows)]
    /\ UNCHANGED <<configFile, surrounding, durableRows, published, verdict>>

\* prepare_with_durable_accounts, over rows that are not written yet.
BuildReloaded ==
    /\ assembly.at = "candidate"
    /\ LET error == AssemblyError(assembly.document, assembly.rows, surrounding)
       IN  IF error # "" THEN AssemblyEnds("candidate_prepare_failed", error) ELSE Reaches("preflight")
    /\ UNCHANGED <<configFile, surrounding, durableRows, published>>

PreflightTasks ==
    /\ assembly.at = "preflight"
    /\ IF SpecsError(assembly.document) # ""
       THEN AssemblyEnds("task_preflight_failed", SpecsError(assembly.document))
       ELSE Reaches("apply")
    /\ UNCHANGED <<configFile, surrounding, durableRows, published>>

\* The transaction writes the planned rows, if the table is as it was planned for.
CommitRows ==
    /\ assembly.at = "apply"
    /\ Snapshot(durableRows) = assembly.snapshot
    /\ durableRows' = Upserted(durableRows, assembly.wanted)
    /\ AssemblyEnds("committed", "") /\ Publishes
    /\ UNCHANGED <<configFile, surrounding>>

\* Staging, BEGIN or a write failed: nothing was written.
ApplyFails ==
    /\ assembly.at = "apply"
    /\ AssemblyEnds("persistence_apply_failed", "")
    /\ UNCHANGED <<configFile, surrounding, durableRows, published>>

\* COMMIT reported an error; it may have taken effect.
CommitIsUncertain ==
    /\ assembly.at = "apply"
    /\ durableRows' \in {durableRows, Upserted(durableRows, assembly.wanted)}
    /\ Reaches("restore")
    /\ UNCHANGED <<configFile, surrounding, published>>

\* Defect: the rows of the old document are put back without disabling the candidate's.
RestoreRowsOnly ==
    /\ assembly.at = "restore"
    /\ LET restored == Upserted(durableRows, assembly.old)
           names == {assembly.old[k].name : k \in DOMAIN assembly.old}
       IN  durableRows' = [n \in DOMAIN durableRows |-> IF n \in names THEN restored[n] ELSE durableRows[n]]
    /\ AssemblyEnds("persistence_commit_failed", "")
    /\ UNCHANGED <<configFile, surrounding, published>>

\* PersistenceDelta::restore in a transaction of its own.
RestoreRows ==
    /\ assembly.at = "restore"
    /\ durableRows' = Upserted(durableRows, assembly.old)
    /\ AssemblyEnds("persistence_commit_failed", "")
    /\ UNCHANGED <<configFile, surrounding, published>>

\* The repair failed too: the old generation serves over rows of either document.
CompensationFails ==
    /\ assembly.at = "restore"
    /\ published' = [published EXCEPT !.compensated = FALSE]
    /\ AssemblyEnds("compensation_failed", "")
    /\ UNCHANGED <<configFile, surrounding, durableRows>>

\* The process ends, at any point.
ServerEnds ==
    /\ published # NotPublished \/ assembly.at # "idle"
    /\ published' = NotPublished
    /\ assembly' = [NoAssembly EXCEPT !.made = assembly.made]
    /\ verdict' = NoVerdict
    /\ UNCHANGED <<configFile, surrounding, durableRows>>

AssemblyNext ==
    \/ \E d \in Documents \cup {NoDocument} : EditConfigFile(d)
    \/ \E env \in Surroundings : ServeConfig(env)
    \/ SyncAccounts \/ BuildFirst \/ InstallInitialTasks
    \/ BeginReload \/ BuildReloaded \/ PreflightTasks
    \/ CommitRows \/ ApplyFails \/ CommitIsUncertain \/ RestoreRows \/ CompensationFails
    \/ ServerEnds

-----------------------------------------------------------------------------
\* What a checked document still leaves to the builder: a variable for each
\* proxy, a compiled policy within its limit and, in a reload, which checks
\* no credential, a key for each enabled account.
Buildable(d, env) ==
    /\ validate_account_credentials(d, env)
    /\ ClientsBuild(d, env)
    /\ RoutersCompile(d)

\* A configuration that validation accepts can be assembled, whatever account
\* rows earlier configurations, failed reloads and crashes left in the table:
\* no start or reload of it fails in the account registry
\* (AccountRegistry::from_config), the profiles or the task specifications.
AcceptedIsBuilt == verdict.error # "" => ~Buildable(verdict.document, surrounding)

\* While no reload is between its rows and its outcome, the generation that
\* serves and the accounts table agree: each account of the registry has its
\* row, under the id the registry uses and with its provider, and the enabled
\* rows are those of the enabled accounts; a reload that was undone
\* (PersistenceDelta::restore) is no exception, only one whose repair failed.
RegistryMatchesRows ==
    published.compensated /\ assembly.at # "restore" =>
        \A n \in DOMAIN durableRows \cup DOMAIN published.registry :
            IF n \in DOMAIN published.registry
            THEN /\ n \in DOMAIN durableRows
                 /\ [id |-> durableRows[n].id, provider |-> durableRows[n].provider,
                     enabled |-> durableRows[n].enabled] = published.registry[n]
            ELSE published # NotPublished => ~durableRows[n].enabled
====
