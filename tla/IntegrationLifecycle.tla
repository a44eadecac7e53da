----------------------- MODULE IntegrationLifecycle -----------------------
(***************************************************************************)
(* The managed lifecycle of a client's configuration: configsetup codex    *)
(* and configsetup opencode with --apply, --sync and --remove.  A command  *)
(* edits a file that belongs to the user, owns a few fields of it, and     *)
(* keeps what it overwrote in an ownership manifest of its own.            *)
(*                                                                         *)
(* The client's file is the function of the fields EggPool may own; the    *)
(* text around them is spliced through unchanged and is left out.  A field *)
(* holds NoField, a value of the user's, or EggPool's own value.  Each     *)
(* file the command writes is one step, in the code's order, and it may    *)
(* end, by a crash or an I/O error, between any two.  --check and          *)
(* --dry-run change nothing and are not steps.  The user edits only        *)
(* between commands.                                                       *)
(***************************************************************************)
EXTENDS Naturals, FiniteSets

CONSTANTS
    ClientPaths,    \* configuration files the environment may select
    UserValues,     \* what a user may write into a field
    ServerUrls,       \* values of EggPool's base URL
    ManagedModels,  \* values of --model
    NoField,
    NoManifest,
    MaxSetups,      \* bounds the commands
    MaxEdits        \* bounds the user's edits

\* The fields of each client that EggPool may own; "entry" is provider.eggpool
\* or providers.eggpool, "table" is [model_providers.eggpool].  The root model
\* is owned only after a command that manages it.
OwnedFields(c) ==
    IF c = "codex" THEN {"model_provider", "model_catalog_json", "model", "table"} ELSE {"entry"}

\* What a field can hold, the absence of a value included.
FieldValues == UserValues \cup {NoField, "eggpool", "generated"} \cup ServerUrls \cup ManagedModels

\* The ownership manifests of a client.
Manifests(c) ==
    [path: ClientPaths, base: ServerUrls, variant: {"v1", "v2", "both"},
     post: [OwnedFields(c) -> FieldValues], owned: SUBSET OwnedFields(c),
     applied_model: ManagedModels \cup {NoField}, previous: [OwnedFields(c) -> FieldValues]]

\* A value EggPool writes is not counted as the user's, whoever wrote it.
ASSUME IntegrationAssumption ==
    /\ IsFiniteSet(ClientPaths)
    /\ ({NoField, "eggpool", "generated"} \cup ServerUrls) \cap UserValues = {}
    /\ NoField \notin {"eggpool", "generated"} \cup ServerUrls
    /\ NoManifest \notin Manifests("codex") \cup Manifests("opencode")

VARIABLES
    client,         \* "codex" or "opencode"
    docs,           \* path -> field -> value
    parents,        \* path -> [blank: the file is missing or empty; opencode: the
                    \*   shape of the parent object, others: it has other entries]
    catalogFile,    \* codex: the generated catalog exists
    manifest,       \* the ownership manifest, or NoManifest
    setup,          \* the command in progress
    setups, clientEdits,
    overwritten,    \* history: path -> field -> user's value a command replaced
    interrupted     \* history: some command ended between two of its writes

integrationVars == <<client, docs, parents, catalogFile, manifest, setup, setups, clientEdits,
                     overwritten, interrupted>>

NoSetup == [stage |-> "idle"]

\* EggPool's value of a field, for a base URL and a managed model.
Ours(f, base, model) ==
    CASE f = "model_provider" -> "eggpool"
      [] f = "model_catalog_json" -> "generated"
      [] f = "model" -> model
      [] OTHER -> base

IntegrationInit ==
    /\ client \in {"codex", "opencode"}
    /\ docs \in [ClientPaths -> [OwnedFields(client) -> UserValues \cup {NoField}]]
    /\ parents \in [ClientPaths -> [shape: {"absent", "v1", "v2", "both"}, others: BOOLEAN,
                                blank: BOOLEAN]]
    /\ \A p \in ClientPaths :
        /\ client = "codex" \/ parents[p].blank => parents[p].shape = "absent"
        /\ parents[p].blank => docs[p] = [f \in OwnedFields(client) |-> NoField]
        /\ parents[p].shape = "absent" => ~parents[p].others
        /\ client = "opencode" /\ parents[p].shape = "absent" => docs[p]["entry"] = NoField
    /\ catalogFile = FALSE
    /\ manifest = NoManifest
    /\ setup = NoSetup
    /\ setups = 0 /\ clientEdits = 0
    /\ overwritten = [p \in ClientPaths |-> [f \in OwnedFields(client) |-> NoField]]
    /\ interrupted = FALSE

--------------------------------------------------------------------------
\* Drift.

\* codex_owned_matches; model is NoField when the user owns the model.
codex_owned_matches(doc, base, model) ==
    /\ doc["model_provider"] = "eggpool"
    /\ doc["model_catalog_json"] = "generated"
    /\ doc["table"] = base
    /\ model # NoField => doc["model"] = model

\* The owned fields are as the last command left them, or as this one wants
\* them.
codex_semantic_current(doc, base, model) ==
    \/ codex_owned_matches(doc, manifest.base,
                           IF "model" \in manifest.owned THEN manifest.applied_model ELSE NoField)
    \/ codex_owned_matches(doc, base, model)

\* An entry that is gone, or that differs in its models only, may be written.
opencode_semantic_current(doc, base) == doc["entry"] \in {NoField, base}

\* Only a manifest of this very file is evidence of drift.
Unrecorded(p) == manifest # NoManifest /\ manifest.path = p /\ manifest.post # docs[p]

CodexDrifted(p, base, model) ==
    Unrecorded(p) /\ ~codex_semantic_current(docs[p], base, model)

OpencodeDrifted(p, base) ==
    Unrecorded(p) /\ (parents[p].blank \/ ~opencode_semantic_current(docs[p], base))

\* The shape the document has, V1 where it has none.
select_opencode_variant(p) ==
    IF parents[p].shape = "absent" THEN "v1" ELSE parents[p].shape

--------------------------------------------------------------------------
\* Documents.

\* Every owned field, the model only when managed.
apply_codex_text_mutation(p, base, model) ==
    [f \in OwnedFields("codex") |->
        IF f = "model" /\ model = NoField THEN docs[p][f] ELSE Ours(f, base, model)]

\* The captured values are put back, the others go.  "eggpool" is never taken
\* for a previous provider, a table that is gone is not put back, and an
\* empty file stays empty.
remove_codex_owned_text(p) ==
    [f \in OwnedFields("codex") |->
        CASE f \notin manifest.owned \/ parents[p].blank -> docs[p][f]
          [] f = "model_provider" /\ manifest.previous[f] = "eggpool" -> NoField
          [] f = "table" /\ docs[p][f] = NoField -> NoField
          [] OTHER -> manifest.previous[f]]

\* The entry replaces the user's or is added; a parent object is added for it.
apply_opencode_document(base) == [f \in OwnedFields("opencode") |-> base]

insert_parent(p) == [parents[p] EXCEPT !.shape = select_opencode_variant(p), !.blank = FALSE]

\* The entry is captured under the path of the variant in use then.
PreviousEntry(p) ==
    IF manifest.variant = select_opencode_variant(p) THEN manifest.previous["entry"] ELSE NoField

remove_opencode_document(p) == [f \in OwnedFields("opencode") |-> PreviousEntry(p)]

\* The parent object goes with its last entry.
remove_entry_and_maybe_parent(p) ==
    IF PreviousEntry(p) # NoField \/ parents[p].others
    THEN parents[p]
    ELSE [parents[p] EXCEPT !.shape = "absent"]

\* Values of the user's that writing new over old takes from the file.
Replaced(p, new) ==
    [f \in OwnedFields(client) |->
        IF new[f] = docs[p][f] THEN overwritten[p][f]
        ELSE IF docs[p][f] \in UserValues /\ ~setup.force THEN docs[p][f]
        ELSE IF new[f] = overwritten[p][f] THEN NoField
        ELSE overwritten[p][f]]

--------------------------------------------------------------------------
\* Commands.

Issues(c) ==
    /\ client = c
    /\ setup = NoSetup /\ setups < MaxSetups
    /\ setups' = setups + 1

Command(stage, p, base, model, force, remove) ==
    [stage |-> stage, path |-> p, base |-> base, model |-> model, force |-> force,
     remove |-> remove]

\* Defect: the previous values are captured by every apply.
PreviousValuesAlways(p) == docs[p]

\* Previous values are captured when there is no manifest; a later one carries
\* them on.
PreviousValues(p) == IF manifest # NoManifest THEN manifest.previous ELSE docs[p]

\* The file of path p becomes doc under parent, and the manifest is next.
Rewrites(p, doc, parent) ==
    /\ overwritten' = [overwritten EXCEPT ![p] = Replaced(p, doc)]
    /\ docs' = [docs EXCEPT ![p] = doc]
    /\ parents' = [parents EXCEPT ![p] = parent]

--------------------------------------------------------------------------
\* codex_lifecycle; --apply and --sync are one command.

StartCodexApply(p, base, model, force) ==
    /\ Issues("codex")
    /\ force \/ ~CodexDrifted(p, base, model)
    /\ setup' = Command("catalog", p, base, model, force, FALSE)
    /\ UNCHANGED <<client, docs, parents, catalogFile, manifest, clientEdits, overwritten, interrupted>>

WriteClientCatalog ==
    /\ setup.stage = "catalog" /\ ~setup.remove
    /\ catalogFile' = TRUE
    /\ setup' = [setup EXCEPT !.stage = "config"]
    /\ UNCHANGED <<client, docs, parents, manifest, setups, clientEdits, overwritten, interrupted>>

\* The model stays owned, and its last managed value known, once it was.
CodexManifest(p, doc) ==
    LET known == manifest # NoManifest
        managed == setup.model # NoField \/ (known /\ "model" \in manifest.owned)
    IN  [path |-> p,
         base |-> setup.base,
         variant |-> "v1",
         post |-> doc,
         owned |-> {f \in OwnedFields("codex") : f = "model" => managed},
         applied_model |-> IF setup.model # NoField THEN setup.model
                           ELSE IF known THEN manifest.applied_model ELSE NoField,
         previous |-> PreviousValues(p)]

WriteCodexConfig ==
    /\ client = "codex" /\ setup.stage = "config" /\ ~setup.remove
    /\ LET p == setup.path
           doc == apply_codex_text_mutation(p, setup.base, setup.model)
       IN  /\ Rewrites(p, doc, [parents[p] EXCEPT !.blank = FALSE])
           /\ setup' = [stage |-> "manifest", remove |-> FALSE, saved |-> CodexManifest(p, doc)]
    /\ UNCHANGED <<client, catalogFile, manifest, setups, clientEdits, interrupted>>

SaveManifest ==
    /\ setup.stage = "manifest" /\ ~setup.remove
    /\ manifest' = setup.saved
    /\ setup' = NoSetup
    /\ UNCHANGED <<client, docs, parents, catalogFile, setups, clientEdits, overwritten, interrupted>>

StartCodexRemove(p, base, model, force) ==
    /\ Issues("codex")
    /\ force \/ ~CodexDrifted(p, base, model)
    /\ manifest # NoManifest /\ manifest.path = p
    /\ setup' = Command("config", p, base, model, force, TRUE)
    /\ UNCHANGED <<client, docs, parents, catalogFile, manifest, clientEdits, overwritten, interrupted>>

RestoreCodexConfig ==
    /\ client = "codex" /\ setup.stage = "config" /\ setup.remove
    /\ Rewrites(setup.path, remove_codex_owned_text(setup.path), parents[setup.path])
    /\ setup' = [setup EXCEPT !.stage = "catalog"]
    /\ UNCHANGED <<client, catalogFile, manifest, setups, clientEdits, interrupted>>

RemoveCatalog ==
    /\ setup.stage = "catalog" /\ setup.remove
    /\ catalogFile' = FALSE
    /\ setup' = [setup EXCEPT !.stage = "manifest"]
    /\ UNCHANGED <<client, docs, parents, manifest, setups, clientEdits, overwritten, interrupted>>

RemoveManifest ==
    /\ setup.stage = "manifest" /\ setup.remove
    /\ manifest' = NoManifest
    /\ setup' = NoSetup
    /\ UNCHANGED <<client, docs, parents, catalogFile, setups, clientEdits, overwritten, interrupted>>

--------------------------------------------------------------------------
\* opencode_lifecycle.

\* A document that is current already is left alone, and so is the manifest.
StartOpencodeApply(p, base, force) ==
    /\ Issues("opencode")
    /\ select_opencode_variant(p) # "both"
    /\ force \/ ~OpencodeDrifted(p, base)
    /\ setup' = IF docs[p] = apply_opencode_document(base) THEN NoSetup
                ELSE Command("config", p, base, NoField, force, FALSE)
    /\ UNCHANGED <<client, docs, parents, catalogFile, manifest, clientEdits, overwritten, interrupted>>

OpencodeManifest(p, doc) ==
    [path |-> p,
     base |-> setup.base,
     variant |-> IF manifest # NoManifest THEN manifest.variant ELSE select_opencode_variant(p),
     post |-> doc,
     owned |-> OwnedFields("opencode"),
     applied_model |-> NoField,
     previous |-> PreviousValues(p)]

WriteOpencodeConfig ==
    /\ client = "opencode" /\ setup.stage = "config" /\ ~setup.remove
    /\ LET p == setup.path
           doc == apply_opencode_document(setup.base)
       IN  /\ Rewrites(p, doc, insert_parent(p))
           /\ setup' = [stage |-> "manifest", remove |-> FALSE,
                        saved |-> OpencodeManifest(p, doc)]
    /\ UNCHANGED <<client, catalogFile, manifest, setups, clientEdits, interrupted>>

\* An entry without a captured value is removed only while it is EggPool's
\* own; a missing file only loses its manifest.
StartOpencodeRemove(p, base, force) ==
    /\ Issues("opencode")
    /\ select_opencode_variant(p) # "both"
    /\ force \/ ~OpencodeDrifted(p, base)
    /\ manifest # NoManifest /\ manifest.path = p
    /\ ~parents[p].blank =>
        /\ docs[p]["entry"] # NoField
        /\ PreviousEntry(p) = NoField /\ ~force => docs[p]["entry"] = base
    /\ setup' = Command(IF parents[p].blank THEN "manifest" ELSE "config",
                        p, base, NoField, force, TRUE)
    /\ UNCHANGED <<client, docs, parents, catalogFile, manifest, clientEdits, overwritten, interrupted>>

RestoreOpencodeConfig ==
    /\ client = "opencode" /\ setup.stage = "config" /\ setup.remove
    /\ Rewrites(setup.path, remove_opencode_document(setup.path),
                remove_entry_and_maybe_parent(setup.path))
    /\ setup' = [setup EXCEPT !.stage = "manifest"]
    /\ UNCHANGED <<client, catalogFile, manifest, setups, clientEdits, interrupted>>

Interrupted ==
    /\ setup # NoSetup
    /\ setup' = NoSetup
    /\ interrupted' = TRUE
    /\ UNCHANGED <<client, docs, parents, catalogFile, manifest, setups, clientEdits, overwritten>>

--------------------------------------------------------------------------
\* The user edits a field, or takes it out of the file.
UserEditsClient(p, f, v) ==
    /\ setup = NoSetup /\ clientEdits < MaxEdits
    /\ ~parents[p].blank
    /\ client = "opencode" => parents[p].shape # "absent"
    /\ docs' = [docs EXCEPT ![p][f] = v]
    /\ overwritten' = [overwritten EXCEPT ![p][f] = NoField]
    /\ clientEdits' = clientEdits + 1
    /\ UNCHANGED <<client, parents, catalogFile, manifest, setup, setups, interrupted>>

UserDeletes(p) ==
    /\ setup = NoSetup /\ clientEdits < MaxEdits
    /\ ~parents[p].blank
    /\ docs' = [docs EXCEPT ![p] = [f \in OwnedFields(client) |-> NoField]]
    /\ parents' = [parents EXCEPT ![p] = [shape |-> "absent", others |-> FALSE, blank |-> TRUE]]
    /\ overwritten' = [overwritten EXCEPT ![p] = [f \in OwnedFields(client) |-> NoField]]
    /\ clientEdits' = clientEdits + 1
    /\ UNCHANGED <<client, catalogFile, manifest, setup, setups, interrupted>>

IntegrationNext ==
    \/ \E p \in ClientPaths, base \in ServerUrls, force \in BOOLEAN :
        \/ \E model \in ManagedModels \cup {NoField} :
            StartCodexApply(p, base, model, force) \/ StartCodexRemove(p, base, model, force)
        \/ StartOpencodeApply(p, base, force)
        \/ StartOpencodeRemove(p, base, force)
    \/ WriteClientCatalog \/ WriteCodexConfig \/ WriteOpencodeConfig \/ SaveManifest
    \/ RestoreCodexConfig \/ RestoreOpencodeConfig \/ RemoveCatalog \/ RemoveManifest
    \/ Interrupted
    \/ \E p \in ClientPaths, f \in OwnedFields(client), v \in UserValues \cup {NoField} :
           UserEditsClient(p, f, v)
    \/ \E p \in ClientPaths : UserDeletes(p)

IntegrationSpec == IntegrationInit /\ [][IntegrationNext]_integrationVars

--------------------------------------------------------------------------
\* Unless --force was given, a value the user had in an owned field is never
\* lost: once a command has run to its end, whatever apply or remove replaced
\* in the file is in the manifest of that file, from which --remove restores
\* it.  The root model is left out: it may be taken over after the manifest
\* was written.
ReplacedIsKept ==
    setup = NoSetup /\ ~interrupted /\ Cardinality(ClientPaths) = 1 =>
        \A p \in ClientPaths : \A f \in OwnedFields(client) \ {"model"} :
            overwritten[p][f] # NoField =>
                /\ manifest # NoManifest
                /\ manifest.previous[f] = overwritten[p][f]

\* A [model_providers.eggpool] table the user already had is captured when
\* EggPool first owns the file, so that --remove can restore it exactly.
TableIsCaptured ==
    client = "codex" /\ setup = NoSetup /\ ~interrupted =>
        \A p \in ClientPaths :
            /\ manifest # NoManifest
            /\ manifest.path = p
            /\ overwritten[p]["table"] # NoField
            => manifest.previous["table"] = overwritten[p]["table"]
====
