--------------------------- MODULE CatalogRefresh ---------------------------
(* The model catalog: the live cache a generation's router reads, the refresh
   that lists every account's models and merges the listings into the cache,
   the batch that makes the cache durable, and the seeding of the next
   generation's cache from the durable rows.

   Every generation owns a CatalogService with a refresh lock of its own; a
   draining generation may still be persisting while the next one refreshes,
   so `Services` holds two of them over one database.  An action is the code
   between two awaits.  A row is its identity: display names, limits,
   capabilities and time stamps are left out.  A listed row whose protocol
   cannot be resolved makes its listing partial and is neither persisted nor
   routable; it is not a member of Models.  Every account is enabled. *)
EXTENDS Naturals

CONSTANTS
    Services,          \* the CatalogServices of two overlapping generations
    DefaultAccounts,   \* accounts of the provider models.provider_id defaults to
    OtherAccounts,     \* accounts of another provider
    Models,            \* model ids
    StaticModels,      \* <<model, provider>>: the providers' static_models
    withdraws,         \* catalog_withdrawal_policy is not preserve_until_health
    MaxRefreshes       \* bound: refreshes started before the exploration stops

VARIABLES
    cache,      \* ModelCatalogCache per service: support, keys, contracts, models, fresh
    refresh,    \* what the service's refresh has left to do, and what it has read
    durable,    \* the tables models, provider_model_metadata, account_models
    started     \* refreshes started so far

catalogVars == <<cache, refresh, durable, started>>

CatalogAccounts == DefaultAccounts \cup OtherAccounts
CatalogProviders == {"default", "other"}

ProviderOf(a) == IF a \in DefaultAccounts THEN "default" ELSE "other"

NoRows == [models |-> {}, contracts |-> {}, support |-> {}]
IdleRefresh == [at |-> "idle", left |-> {}, existing |-> NoRows]

EmptyCache ==
    [support   |-> [m \in Models |-> {}],            \* account_support
     keys      |-> [a \in CatalogAccounts |-> {}],   \* account_provider_keys
     contracts |-> {},                               \* provider_models
     models    |-> {},                               \* models
     fresh     |-> {}]                               \* freshness

\* update_from_account for listings that may not withdraw, one of each account:
\* support only grows, so their order does not matter.
MergedAll(c, accounts, listed) ==
    [c EXCEPT !.keys = [a \in CatalogAccounts |->
                  IF a \in accounts THEN @[a] \cup listed[a] ELSE @[a]],
              !.contracts = @ \cup {k \in Models \X CatalogProviders :
                  \E a \in accounts : k[1] \in listed[a] /\ k[2] = ProviderOf(a)},
              !.models = @ \cup UNION {listed[a] : a \in accounts},
              !.support = [m \in Models |-> @[m] \cup {a \in accounts : m \in listed[a]}]]

Merged(c, a, listed) == MergedAll(c, {a}, [b \in {a} |-> listed])

\* Defect: the contracts other accounts of the provider still use go as well.
OrphanedForAll(c, a, listed) ==
    {<<m, ProviderOf(a)>> : m \in c.keys[a] \ listed}

\* Contracts of the account's provider that no other account's keys still hold.
Orphaned(c, a, listed) ==
    {<<m, ProviderOf(a)>> : m \in {n \in c.keys[a] \ listed :
        \A b \in CatalogAccounts \ {a} :
            ~(ProviderOf(b) = ProviderOf(a) /\ n \in c.keys[b])}}

\* update_from_account for an authoritative listing: what it omits is withdrawn.
WithdrawnFrom(c, a, listed) ==
    Merged([c EXCEPT !.support = [m \in Models |-> @[m] \ {a}],
                     !.contracts = @ \ Orphaned(c, a, listed),
                     !.keys[a] = {}], a, listed)

\* prune_unused: a model nobody supports and no provider lists is dropped.
Pruned(c) ==
    [c EXCEPT !.models = {m \in @ : c.support[m] # {}
                                    \/ \E p \in CatalogProviders : <<m, p>> \in c.contracts}]

\* static_models: what the configuration lists for the account's provider.
StaticOf(a) == {m \in Models : <<m, ProviderOf(a)>> \in StaticModels}

\* seed_static_models: the accounts are given their provider's static models.
WithStatics(c, accounts) == MergedAll(c, accounts, [a \in accounts |-> StaticOf(a)])

\* The generation's build: static models, then every durable row, given to the
\* accounts of its provider column.  The batch below never writes that column,
\* so the default provider is what it always holds.
Seeded(rows) ==
    MergedAll(WithStatics(EmptyCache, CatalogAccounts), DefaultAccounts,
              [a \in DefaultAccounts |-> rows.models])

\* persistence_projection: the rows the cache asks the database to hold.
Projection(c) ==
    [models    |-> c.models,
     contracts |-> {k \in c.contracts : k[1] \in c.models},
     support   |-> {r \in CatalogAccounts \X c.models : r[1] \in c.support[r[2]]}]

CatalogInit ==
    /\ cache = [s \in Services |-> Seeded(NoRows)]
    /\ refresh = [s \in Services |-> IdleRefresh]
    /\ durable = NoRows
    /\ started = 0

\* The service's generation is retired and another built in its slot: a reload,
\* or a restart.  A refresh in progress is aborted with its task.
BuildGeneration(s) ==
    /\ cache' = [cache EXCEPT ![s] = Seeded(durable)]
    /\ refresh' = [refresh EXCEPT ![s] = IdleRefresh]
    /\ UNCHANGED <<durable, started>>

\* A body fetch_account can parse: the models it names whose protocol resolves,
\* whether it has rows whose protocol does not, and rows without an id.
Listings == [models : SUBSET Models, unresolved : BOOLEAN, nameless : BOOLEAN]

\* fetch_account refuses a body all of whose rows lack an id.
Usable(l) == l.models # {} \/ l.unresolved \/ ~l.nameless

\* The outcome apply_fetch gives a listing after resolve_models.
Outcome(l) == IF l.unresolved THEN "SuccessPartial"
              ELSE IF l.models = {} THEN "SuccessEmpty" ELSE "SuccessAuthoritative"

\* refresh and refresh_one_account take the refresh lock, seed the static models
\* and ask for the listings of the accounts.
BeginRefresh(s) ==
    /\ refresh[s].at = "idle"
    /\ started < MaxRefreshes
    /\ \E targets \in {CatalogAccounts} \cup {{a} : a \in CatalogAccounts} :
           /\ refresh' = [refresh EXCEPT ![s] = [IdleRefresh EXCEPT !.at = "fetched",
                                                                    !.left = targets]]
           /\ cache' = [cache EXCEPT ![s] = WithStatics(@, targets)]
    /\ started' = started + 1
    /\ UNCHANGED durable

\* The listing was skipped (no credential, no client, a DISABLED endpoint) or
\* failed (no provider, a bad method or header, the transport, the status, the
\* body): apply_fetch records nothing but its outcome.
ApplyFailure(s, a) ==
    /\ refresh[s].at = "fetched" /\ a \in refresh[s].left
    /\ refresh' = [refresh EXCEPT ![s].left = @ \ {a}]
    /\ UNCHANGED <<cache, durable, started>>

\* apply_fetch of a listing: only an authoritative one may withdraw.
ApplyListing(s, a, l) ==
    /\ refresh[s].at = "fetched" /\ a \in refresh[s].left
    /\ Usable(l)
    /\ LET destructive == withdraws /\ Outcome(l) = "SuccessAuthoritative"
           updated == IF destructive THEN WithdrawnFrom(cache[s], a, l.models)
                      ELSE Merged(cache[s], a, l.models)
       IN cache' = [cache EXCEPT ![s] =
                       [Pruned(updated) EXCEPT !.fresh = @ \cup {a}]]
    /\ refresh' = [refresh EXCEPT ![s].left = @ \ {a}]
    /\ UNCHANGED <<durable, started>>

\* persist reads the three tables, one database call each.
ReadModels(s) ==
    /\ refresh[s].at = "fetched" /\ refresh[s].left = {}
    /\ refresh' = [refresh EXCEPT ![s].at = "models",
                                  ![s].existing.models = durable.models]
    /\ UNCHANGED <<cache, durable, started>>

ReadContracts(s) ==
    /\ refresh[s].at = "models"
    /\ refresh' = [refresh EXCEPT ![s].at = "contracts",
                                  ![s].existing.contracts = durable.contracts]
    /\ UNCHANGED <<cache, durable, started>>

ReadSupport(s) ==
    /\ refresh[s].at = "contracts"
    /\ refresh' = [refresh EXCEPT ![s].at = "support",
                                  ![s].existing.support = durable.support]
    /\ UNCHANGED <<cache, durable, started>>

\* The rows apply_persistence_batch inserts, judged by the lists read before.
Inserted(s) ==
    LET want == Projection(cache[s])
        had  == refresh[s].existing
    IN [models    |-> want.models \ had.models,
        contracts |-> want.contracts \ had.contracts,
        support   |-> want.support \ had.support]

\* Its INSERTs succeed: no primary key is taken, every foreign key resolves.
Insertable(s) ==
    LET new == Inserted(s)
        present == durable.models \cup new.models
    IN /\ new.models \cap durable.models = {}
       /\ new.contracts \cap durable.contracts = {}
       /\ \A k \in new.contracts : k[1] \in present
       /\ \A r \in new.support : r[2] \in present

\* apply_persistence_batch: one transaction.  A model that was listed as
\* existing and is no longer wanted is deleted with everything that hangs on it.
WriteBatch(s) ==
    LET want  == Projection(cache[s])
        had   == refresh[s].existing
        new   == Inserted(s)
        stale == had.models \ want.models
    IN /\ refresh[s].at = "support"
       /\ Insertable(s)
       /\ durable' =
              [models    |-> (durable.models \cup new.models) \ stale,
               contracts |-> {k \in durable.contracts \cup new.contracts :
                                 k[1] \notin stale /\ k \notin had.contracts \ want.contracts},
               support   |-> {r \in durable.support \cup new.support :
                                 r[2] \notin stale /\ r \notin had.support \ want.support}]
       /\ refresh' = [refresh EXCEPT ![s] = IdleRefresh]
       /\ UNCHANGED <<cache, started>>

\* The batch fails, by a taken key or by the database, and leaves every table.
BatchFails(s) ==
    /\ refresh[s].at = "support"
    /\ refresh' = [refresh EXCEPT ![s] = IdleRefresh]
    /\ UNCHANGED <<cache, durable, started>>

CatalogNext ==
    \E s \in Services :
        \/ BuildGeneration(s) \/ BeginRefresh(s)
        \/ ReadModels(s) \/ ReadContracts(s) \/ ReadSupport(s)
        \/ WriteBatch(s) \/ BatchFails(s)
        \/ \E a \in CatalogAccounts :
               \/ ApplyFailure(s, a)
               \/ \E l \in Listings : ApplyListing(s, a, l)

CatalogSpec == CatalogInit /\ [][CatalogNext]_catalogVars

(* Properties *)

\* Whatever listings, withdrawals and rebuilds went before, an account the
\* cache says supports a model has its provider's contract for it, and the
\* model is a live one: the router takes the contract of every supporting
\* account it selects, and update_from_account drops contracts it thinks unused.
SupportHasContract ==
    \A s \in Services, m \in Models : \A a \in cache[s].support[m] :
        <<m, ProviderOf(a)>> \in cache[s].contracts /\ m \in cache[s].models

\* "Refresh failures never erase usable catalog state": a service none of whose
\* listings has succeeded deletes no durable model.
FailuresKeepCatalog ==
    [][\A s \in Services :
           refresh[s].at = "support" /\ cache[s].fresh = {} /\ refresh'[s] = IdleRefresh
               => durable.models \subseteq durable'.models]_catalogVars
=============================================================================
