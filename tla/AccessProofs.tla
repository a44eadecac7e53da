---------------------------- MODULE AccessProofs ----------------------------
(***************************************************************************)
(* What holds of users, tokens, model policies, the catalog and the files  *)
(* of the clients, for any number of users, tokens, requests, pages and    *)
(* commands, for any accounts, models and files, and for any bounds of the *)
(* caches.                                                                 *)
(***************************************************************************)
EXTENDS IdentityAccess, ModelPolicy, CatalogRefresh, IntegrationLifecycle, FiniteSetTheorems,
        TLAPS

-----------------------------------------------------------------------------
(* Client integrations (IntegrationLifecycle).  ReplacedIsKept speaks of   *)
(* the file and of the manifest, which a command writes one after the      *)
(* other; the invariant follows the value replaced through the command,    *)
(* from the file to the manifest the command still has to save.            *)

\* The fields ReplacedIsKept is about.
Kept(c) == OwnedFields(c) \ {"model"}
Parents == [shape: {"absent", "v1", "v2", "both"}, others: BOOLEAN, blank: BOOLEAN]

\* A command before it has rewritten the file, one that has the manifest to
\* save, and one that has it to remove.
Pending == [stage: {"catalog", "config"}, path: ClientPaths, base: ServerUrls,
            model: ManagedModels \cup {NoField}, force: BOOLEAN, remove: BOOLEAN]
Leaving == [stage: {"catalog", "manifest"}, path: ClientPaths, base: ServerUrls,
            model: ManagedModels \cup {NoField}, force: BOOLEAN, remove: {TRUE}]
Saving == [stage: {"manifest"}, remove: {FALSE}, saved: Manifests(client)]
Rewriting == setup \in Pending /\ (setup.remove => setup.stage = "config")

\* The manifest that counts once the command in progress has ended.
Governing == IF setup \in Saving THEN setup.saved ELSE manifest

\* A manifest owns those fields and records a file without values of the
\* user's in them.
Inert(m) == \A f \in Kept(client) : f \in m.owned /\ m.post[f] \notin UserValues

IntegrationTypes ==
    /\ client \in {"codex", "opencode"}
    /\ docs \in [ClientPaths -> [OwnedFields(client) -> FieldValues]]
    /\ parents \in [ClientPaths -> Parents]
    /\ overwritten \in [ClientPaths -> [OwnedFields(client) -> UserValues \cup {NoField}]]
    /\ manifest # NoManifest => manifest \in Manifests(client) /\ Inert(manifest)
    /\ \/ setup = NoSetup
       \/ Rewriting
       \/ setup \in Leaving
       \/ setup \in Saving /\ Inert(setup.saved)

\* What was replaced is in the manifest, and EggPool's value in its place.
KeptAt(p, f) ==
    /\ docs[p][f] \notin UserValues \cup {NoField}
    /\ ~parents[p].blank
    /\ Governing # NoManifest
    /\ Governing.previous[f] = overwritten[p][f]
    /\ client = "opencode" => Governing.variant = select_opencode_variant(p)
ReplacedInv ==
    \A p \in ClientPaths : \A f \in Kept(client) : overwritten[p][f] # NoField => KeptAt(p, f)

\* A command that was not forced found no value of the user's in a file that
\* has a manifest, and one that removes leaves nothing to be kept.
CommandInv ==
    /\ Rewriting /\ ~setup.force /\ manifest # NoManifest =>
          \A p \in ClientPaths : \A f \in Kept(client) : docs[p][f] \notin UserValues
    /\ Rewriting /\ setup.remove => manifest # NoManifest
    /\ setup \in Leaving =>
          \A p \in ClientPaths : \A f \in Kept(client) : overwritten[p][f] = NoField

IntegrationInv == ~interrupted => IntegrationTypes /\ ReplacedInv /\ CommandInv
-----------------------------------------------------------------------------
\* The four kinds of a command's record exclude each other.
LEMMA Kinds ==
    /\ NoSetup \notin Pending /\ NoSetup \notin Leaving /\ NoSetup \notin Saving
    /\ \A r \in Pending : r \notin Saving
    /\ \A r \in Leaving : r \notin Saving
    /\ \A r \in Pending : (r.remove => r.stage = "config") => r \notin Leaving
<1>1. NoSetup.stage = "idle"
  BY DEF NoSetup
<1>2. \A r \in Pending : r.stage \in {"catalog", "config"}
  BY Zenon DEF Pending
<1>3. \A r \in Leaving : r.stage \in {"catalog", "manifest"} /\ r.remove \in {TRUE}
  BY Zenon DEF Leaving
<1>4. \A r \in Saving : r.stage \in {"manifest"} /\ r.remove \in {FALSE}
  BY Zenon DEF Saving
<1>5. QED
  BY <1>1, <1>2, <1>3, <1>4, Zenon

\* The record a command starts with.
LEMMA CommandIs ==
    ASSUME NEW p \in ClientPaths, NEW b \in ServerUrls, NEW m \in ManagedModels \cup {NoField},
           NEW f \in BOOLEAN
    PROVE  /\ Command("catalog", p, b, m, f, FALSE) \in Pending
           /\ Command("config", p, b, m, f, FALSE) \in Pending
           /\ Command("config", p, b, m, f, TRUE) \in Pending
           /\ Command("manifest", p, b, m, f, TRUE) \in Leaving
<1>1. TRUE \in BOOLEAN /\ FALSE \in BOOLEAN
  OBVIOUS
<1>2. ASSUME NEW st \in {"catalog", "config"}, NEW r \in BOOLEAN
      PROVE  Command(st, p, b, m, f, r) \in Pending
  BY Zenon DEF Command, Pending
<1>3. Command("manifest", p, b, m, f, TRUE) \in Leaving
  BY Zenon DEF Command, Leaving
<1>4. QED
  BY <1>1, <1>2, <1>3, Zenon

\* Values EggPool writes into these fields are neither the user's nor nothing.
LEMMA OursIsOurs ==
    ASSUME NEW c \in {"codex", "opencode"}, NEW f \in Kept(c), NEW b \in ServerUrls, NEW m
    PROVE  Ours(f, b, m) \in FieldValues /\ Ours(f, b, m) \notin UserValues \cup {NoField}
<1>1. f # "model"
  BY DEF Kept
<1>2. Ours(f, b, m) \in {"eggpool", "generated"} \cup ServerUrls
  BY <1>1 DEF Ours
<1>3. QED
  BY <1>2, IntegrationAssumption, Zenon DEF FieldValues

LEMMA FieldsAre ==
    /\ Kept("codex") = {"model_provider", "model_catalog_json", "table"}
    /\ Kept("opencode") = {"entry"} /\ OwnedFields("opencode") = {"entry"}
    /\ \A c : \A f \in OwnedFields(c) : f # "model" => f \in Kept(c)
    /\ \A c : \A f \in Kept(c) : f \in OwnedFields(c) /\ f # "model"
BY DEF Kept, OwnedFields

\* A file that has not drifted from its manifest has no value of the user's in
\* an owned field.
LEMMA CodexUndrifted ==
    ASSUME IntegrationTypes, client = "codex", manifest # NoManifest,
           NEW p \in ClientPaths, manifest.path = p,
           NEW b \in ServerUrls, NEW m, ~CodexDrifted(p, b, m)
    PROVE  \A f \in Kept(client) : docs[p][f] \notin UserValues
<1>1. manifest \in Manifests(client) /\ Inert(manifest)
  BY Zenon DEF IntegrationTypes
<1>2. manifest.base \in ServerUrls
  BY <1>1 DEF Manifests
<1>3. CASE manifest.post = docs[p]
  BY <1>1, <1>3, Zenon DEF Inert
<1>4. CASE codex_semantic_current(docs[p], b, m)
  <2>1. PICK o \in ServerUrls : /\ docs[p]["model_provider"] = "eggpool"
                                /\ docs[p]["model_catalog_json"] = "generated"
                                /\ docs[p]["table"] = o
    BY <1>2, <1>4, Zenon DEF codex_semantic_current, codex_owned_matches
  <2>2. QED
    BY <2>1, FieldsAre, IntegrationAssumption
<1>5. QED
  BY <1>3, <1>4, Zenon DEF CodexDrifted, Unrecorded

LEMMA OpencodeUndrifted ==
    ASSUME IntegrationTypes, client = "opencode", manifest # NoManifest,
           NEW p \in ClientPaths, manifest.path = p,
           NEW b \in ServerUrls, ~OpencodeDrifted(p, b)
    PROVE  \A f \in Kept(client) : docs[p][f] \notin UserValues
<1>1. Inert(manifest)
  BY Zenon DEF IntegrationTypes
<1>2. CASE manifest.post = docs[p]
  BY <1>1, <1>2, Zenon DEF Inert
<1>3. CASE opencode_semantic_current(docs[p], b)
  BY <1>3, FieldsAre, IntegrationAssumption DEF opencode_semantic_current
<1>4. QED
  BY <1>2, <1>3, Zenon DEF OpencodeDrifted, Unrecorded

\* A command that starts, or goes on without touching the files, changes the
\* record of it only.
LEMMA RecordStep ==
    ASSUME IntegrationTypes, ReplacedInv, setup \notin Saving,
           UNCHANGED <<client, docs, parents, manifest, overwritten>>,
           \/ setup' = NoSetup
           \/ /\ Rewriting'
              /\ setup'.remove => manifest # NoManifest
              /\ ~setup'.force /\ manifest # NoManifest =>
                    \A p \in ClientPaths : \A f \in Kept(client) : docs[p][f] \notin UserValues
           \/ /\ setup' \in Leaving
              /\ \A p \in ClientPaths : \A f \in Kept(client) : overwritten[p][f] = NoField
    PROVE  IntegrationTypes' /\ ReplacedInv' /\ CommandInv'
<1>1. setup' \notin Saving'
  <2>1. \A r \in Saving' : r.stage \in {"manifest"} /\ r.remove \in {FALSE}
    BY Zenon DEF Saving
  <2>2. NoSetup.stage = "idle"
    BY DEF NoSetup
  <2>3. Rewriting' => setup'.stage \in {"catalog", "config"}
    BY Zenon DEF Rewriting, Pending
  <2>4. setup' \in Leaving => setup'.remove \in {TRUE}
    BY Zenon DEF Leaving
  <2>5. QED
    BY <2>1, <2>2, <2>3, <2>4, Zenon
<1>2. Governing = manifest /\ Governing' = manifest
  BY <1>1, Zenon DEF Governing
<1>3. \A p : select_opencode_variant(p)' = select_opencode_variant(p)
  BY Zenon DEF select_opencode_variant
<1>4. IntegrationTypes'
  BY Zenon DEF IntegrationTypes, Inert
<1>5. ReplacedInv'
  BY <1>2, <1>3, Zenon DEF ReplacedInv, KeptAt
<1>6. CommandInv'
  <2>1. CASE setup' = NoSetup
    BY <2>1, Kinds, Zenon DEF CommandInv, Rewriting
  <2>2. CASE Rewriting' /\ (setup'.remove => manifest # NoManifest)
             /\ (~setup'.force /\ manifest # NoManifest =>
                    \A p \in ClientPaths : \A f \in Kept(client) : docs[p][f] \notin UserValues)
    <3>1. setup' \notin Leaving
      BY <2>2, Kinds, Zenon DEF Rewriting
    <3>2. QED
      BY <2>2, <3>1, Zenon DEF CommandInv
  <2>3. CASE setup' \in Leaving
             /\ \A p \in ClientPaths : \A f \in Kept(client) : overwritten[p][f] = NoField
    <3>1. ~Rewriting'
      BY <2>3, Kinds, Zenon DEF Rewriting
    <3>2. QED
      BY <2>3, <3>1, Zenon DEF CommandInv
  <2>4. QED
    BY <2>1, <2>2, <2>3, Zenon
<1>7. QED
  BY <1>4, <1>5, <1>6

\* There is one file, and a manifest is of that file.
Single == \A p, r \in ClientPaths : p = r

LEMMA StartCodexApplyStep ==
    ASSUME IntegrationTypes, ReplacedInv, CommandInv, Single,
           NEW p \in ClientPaths, NEW b \in ServerUrls, NEW m \in ManagedModels \cup {NoField},
           NEW f \in BOOLEAN, StartCodexApply(p, b, m, f)
    PROVE  IntegrationTypes' /\ ReplacedInv' /\ CommandInv'
<1>1. /\ client = "codex" /\ setup = NoSetup
      /\ f \/ ~CodexDrifted(p, b, m)
      /\ setup' = Command("catalog", p, b, m, f, FALSE)
      /\ UNCHANGED <<client, docs, parents, manifest, overwritten>>
  BY Zenon DEF StartCodexApply, Issues
<1>2. Rewriting' /\ ~setup'.remove /\ setup'.force = f
  <2>1. /\ Command("catalog", p, b, m, f, FALSE) \in Pending
        /\ Command("catalog", p, b, m, f, FALSE).force = f
        /\ Command("catalog", p, b, m, f, FALSE).remove = FALSE
    <3>1. Command("catalog", p, b, m, f, FALSE) \in Pending
      BY CommandIs, Zenon
    <3>2. QED
      BY <3>1, Zenon DEF Command
  <2>2. QED
    BY <1>1, <2>1, Zenon DEF Rewriting
<1>3. ASSUME ~f, manifest # NoManifest
      PROVE  \A r \in ClientPaths : \A g \in Kept(client) : docs[r][g] \notin UserValues
  <2>1. manifest.path = p
    <3>1. manifest \in Manifests(client)
      BY <1>3, Zenon DEF IntegrationTypes
    <3>2. manifest.path \in ClientPaths
      BY <3>1 DEF Manifests
    <3>3. QED
      BY <3>2, Zenon DEF Single
  <2>2. \A g \in Kept(client) : docs[p][g] \notin UserValues
    BY <1>1, <1>3, <2>1, CodexUndrifted
  <2>3. QED
    BY <2>2, Zenon DEF Single
<1>4. setup \notin Saving
  BY <1>1, Kinds
<1>5. QED
  BY <1>1, <1>2, <1>3, <1>4, RecordStep, Zenon

LEMMA StartCodexRemoveStep ==
    ASSUME IntegrationTypes, ReplacedInv, CommandInv, Single,
           NEW p \in ClientPaths, NEW b \in ServerUrls, NEW m \in ManagedModels \cup {NoField},
           NEW f \in BOOLEAN, StartCodexRemove(p, b, m, f)
    PROVE  IntegrationTypes' /\ ReplacedInv' /\ CommandInv'
<1>1. /\ client = "codex" /\ setup = NoSetup
      /\ f \/ ~CodexDrifted(p, b, m)
      /\ manifest # NoManifest /\ manifest.path = p
      /\ setup' = Command("config", p, b, m, f, TRUE)
      /\ UNCHANGED <<client, docs, parents, manifest, overwritten>>
  BY Zenon DEF StartCodexRemove, Issues
<1>2. Rewriting' /\ setup'.force = f
  <2>1. Command("config", p, b, m, f, TRUE) \in Pending
    BY CommandIs, Zenon
  <2>2. /\ Command("config", p, b, m, f, TRUE).force = f
        /\ Command("config", p, b, m, f, TRUE).stage = "config"
    BY Zenon DEF Command
  <2>3. QED
    BY <1>1, <2>1, <2>2, Zenon DEF Rewriting
<1>3. ASSUME ~f
      PROVE  \A r \in ClientPaths : \A g \in Kept(client) : docs[r][g] \notin UserValues
  <2>1. \A g \in Kept(client) : docs[p][g] \notin UserValues
    BY <1>1, <1>3, CodexUndrifted
  <2>2. QED
    BY <2>1, Zenon DEF Single
<1>4. setup \notin Saving
  BY <1>1, Kinds
<1>5. QED
  BY <1>1, <1>2, <1>3, <1>4, RecordStep, Zenon

LEMMA StartOpencodeApplyStep ==
    ASSUME IntegrationTypes, ReplacedInv, CommandInv, Single,
           NEW p \in ClientPaths, NEW b \in ServerUrls, NEW f \in BOOLEAN,
           StartOpencodeApply(p, b, f)
    PROVE  IntegrationTypes' /\ ReplacedInv' /\ CommandInv'
<1>1. /\ client = "opencode" /\ setup = NoSetup
      /\ f \/ ~OpencodeDrifted(p, b)
      /\ setup' = NoSetup \/ setup' = Command("config", p, b, NoField, f, FALSE)
      /\ UNCHANGED <<client, docs, parents, manifest, overwritten>>
  BY Zenon DEF StartOpencodeApply, Issues
<1>2. setup' # NoSetup => Rewriting' /\ ~setup'.remove /\ setup'.force = f
  <2>1. Command("config", p, b, NoField, f, FALSE) \in Pending
    BY CommandIs, NoField \in ManagedModels \cup {NoField}, Zenon
  <2>2. /\ Command("config", p, b, NoField, f, FALSE).force = f
        /\ Command("config", p, b, NoField, f, FALSE).remove = FALSE
    BY Zenon DEF Command
  <2>3. QED
    BY <1>1, <2>1, <2>2, Zenon DEF Rewriting
<1>3. ASSUME ~f, manifest # NoManifest
      PROVE  \A r \in ClientPaths : \A g \in Kept(client) : docs[r][g] \notin UserValues
  <2>1. manifest.path = p
    <3>1. manifest \in Manifests(client)
      BY <1>3, Zenon DEF IntegrationTypes
    <3>2. manifest.path \in ClientPaths
      BY <3>1 DEF Manifests
    <3>3. QED
      BY <3>2, Zenon DEF Single
  <2>2. \A g \in Kept(client) : docs[p][g] \notin UserValues
    BY <1>1, <1>3, <2>1, OpencodeUndrifted
  <2>3. QED
    BY <2>2, Zenon DEF Single
<1>4. setup \notin Saving
  BY <1>1, Kinds
<1>5. QED
  BY <1>1, <1>2, <1>3, <1>4, RecordStep, Zenon

LEMMA StartOpencodeRemoveStep ==
    ASSUME IntegrationTypes, ReplacedInv, CommandInv, Single,
           NEW p \in ClientPaths, NEW b \in ServerUrls, NEW f \in BOOLEAN,
           StartOpencodeRemove(p, b, f)
    PROVE  IntegrationTypes' /\ ReplacedInv' /\ CommandInv'
<1>1. /\ client = "opencode" /\ setup = NoSetup
      /\ f \/ ~OpencodeDrifted(p, b)
      /\ manifest # NoManifest /\ manifest.path = p
      /\ setup' = Command(IF parents[p].blank THEN "manifest" ELSE "config",
                          p, b, NoField, f, TRUE)
      /\ UNCHANGED <<client, docs, parents, manifest, overwritten>>
  BY Zenon DEF StartOpencodeRemove, Issues
<1>2. setup \notin Saving
  BY <1>1, Kinds
<1>3. CASE parents[p].blank
  <2>1. setup' \in Leaving
    BY <1>1, <1>3, CommandIs, NoField \in ManagedModels \cup {NoField}, Zenon
  <2>2. \A r \in ClientPaths : \A g \in Kept(client) : overwritten[r][g] = NoField
    BY <1>3, Zenon DEF ReplacedInv, KeptAt, Single
  <2>3. QED
    BY <1>1, <1>2, <2>1, <2>2, RecordStep, Zenon
<1>4. CASE ~parents[p].blank
  <2>1. Rewriting' /\ setup'.force = f
    <3>1. Command("config", p, b, NoField, f, TRUE) \in Pending
      BY CommandIs, NoField \in ManagedModels \cup {NoField}, Zenon
    <3>2. /\ Command("config", p, b, NoField, f, TRUE).force = f
          /\ Command("config", p, b, NoField, f, TRUE).stage = "config"
      BY Zenon DEF Command
    <3>3. QED
      BY <1>1, <1>4, <3>1, <3>2, Zenon DEF Rewriting
  <2>2. ASSUME ~f
        PROVE  \A r \in ClientPaths : \A g \in Kept(client) : docs[r][g] \notin UserValues
    <3>1. \A g \in Kept(client) : docs[p][g] \notin UserValues
      BY <1>1, <2>2, OpencodeUndrifted
    <3>2. QED
      BY <3>1, Zenon DEF Single
  <2>3. QED
    BY <1>1, <1>2, <2>1, <2>2, RecordStep, Zenon
<1>5. QED
  BY <1>3, <1>4

\* What is owed to the user in a field once doc is written over the file.
Owed(p, doc, f) ==
    IF doc[f] = docs[p][f] THEN overwritten[p][f]
    ELSE IF docs[p][f] \in UserValues /\ ~setup.force THEN docs[p][f]
    ELSE IF doc[f] = overwritten[p][f] THEN NoField
    ELSE overwritten[p][f]

\* What rewriting the file makes of the three functions.
LEMMA RewritesIs ==
    ASSUME IntegrationTypes, NEW p \in ClientPaths,
           NEW doc \in [OwnedFields(client) -> FieldValues], NEW parent \in Parents,
           Rewrites(p, doc, parent)
    PROVE  /\ docs' \in [ClientPaths -> [OwnedFields(client) -> FieldValues]]
           /\ parents' \in [ClientPaths -> Parents]
           /\ overwritten' \in [ClientPaths -> [OwnedFields(client) -> UserValues \cup {NoField}]]
           /\ docs'[p] = doc /\ parents'[p] = parent
           /\ \A f \in OwnedFields(client) :
                 overwritten'[p][f] = Owed(p, doc, f)
<1>1. /\ docs \in [ClientPaths -> [OwnedFields(client) -> FieldValues]]
      /\ parents \in [ClientPaths -> Parents]
      /\ overwritten \in [ClientPaths -> [OwnedFields(client) -> UserValues \cup {NoField}]]
  BY Zenon DEF IntegrationTypes
<1>2. /\ docs' = [docs EXCEPT ![p] = doc]
      /\ parents' = [parents EXCEPT ![p] = parent]
      /\ overwritten' = [overwritten EXCEPT ![p] = Replaced(p, doc)]
  BY Zenon DEF Rewrites
<1>3. Replaced(p, doc) \in [OwnedFields(client) -> UserValues \cup {NoField}]
  <2>1. ASSUME NEW f \in OwnedFields(client)
        PROVE  Owed(p, doc, f) \in UserValues \cup {NoField}
    <3>1. overwritten[p][f] \in UserValues \cup {NoField}
      BY <1>1, Zenon
    <3>2. CASE docs[p][f] \in UserValues
      BY <3>1, <3>2, Zenon DEF Owed
    <3>3. CASE docs[p][f] \notin UserValues
      BY <3>1, <3>3, Zenon DEF Owed
    <3>4. QED
      BY <3>2, <3>3
  <2>2. Replaced(p, doc) = [f \in OwnedFields(client) |-> Owed(p, doc, f)]
    BY Zenon DEF Replaced, Owed
  <2>3. QED
    BY <2>1, <2>2, Zenon
<1>4. overwritten'[p] = Replaced(p, doc)
  BY <1>1, <1>2, Zenon
<1>5. QED
  BY <1>1, <1>2, <1>3, <1>4, Zenon DEF Replaced, Owed

\* Writing EggPool's values over a file: what is replaced then is what the
\* manifest to be saved captures, or what it carries on.
LEMMA WriteStep ==
    ASSUME IntegrationTypes, ReplacedInv, CommandInv, Single,
           Rewriting, ~setup.remove, NEW p \in ClientPaths,
           NEW doc \in [OwnedFields(client) -> FieldValues],
           \A f \in Kept(client) : doc[f] \notin UserValues \cup {NoField},
           NEW parent \in Parents, ~parent.blank,
           client = "opencode" => parent.shape = select_opencode_variant(p),
           Rewrites(p, doc, parent),
           NEW sv \in Manifests(client), sv.post = doc, sv.previous = PreviousValues(p),
           Kept(client) \subseteq sv.owned,
           client = "opencode" =>
               sv.variant = IF manifest # NoManifest THEN manifest.variant
                            ELSE select_opencode_variant(p),
           setup' = [stage |-> "manifest", remove |-> FALSE, saved |-> sv],
           UNCHANGED <<client, manifest>>
    PROVE  IntegrationTypes' /\ ReplacedInv' /\ CommandInv'
<1>1. /\ docs' \in [ClientPaths -> [OwnedFields(client) -> FieldValues]]
      /\ parents' \in [ClientPaths -> Parents]
      /\ overwritten' \in [ClientPaths -> [OwnedFields(client) -> UserValues \cup {NoField}]]
      /\ docs'[p] = doc /\ parents'[p] = parent
      /\ \A f \in OwnedFields(client) :
            overwritten'[p][f] = Owed(p, doc, f)
  BY RewritesIs, Zenon
<1>2. /\ setup' \in Saving' /\ setup'.saved = sv
      /\ setup' \notin Leaving /\ setup' \notin Pending
  <2>1. setup' \in Saving' /\ setup'.saved = sv /\ setup'.stage = "manifest" /\ setup'.remove = FALSE
    BY Zenon DEF Saving
  <2>2. \A r \in Pending : r.stage \in {"catalog", "config"}
    BY Zenon DEF Pending
  <2>3. \A r \in Leaving : r.remove \in {TRUE}
    BY Zenon DEF Leaving
  <2>4. QED
    BY <2>1, <2>2, <2>3, Zenon
<1>3. setup \notin Saving /\ Governing = manifest /\ Governing' = sv
  BY <1>2, Kinds, Zenon DEF Rewriting, Governing
<1>4. IntegrationTypes'
  <2>1. Inert(sv)'
    BY Zenon DEF Inert
  <2>2. QED
    BY <1>1, <1>2, <2>1, Zenon DEF IntegrationTypes, Inert
<1>5. sv # NoManifest
  BY IntegrationAssumption DEF IntegrationTypes
<1>6. client = "opencode" => (select_opencode_variant(p))' = select_opencode_variant(p)
  <2>1. select_opencode_variant(p) # "absent"
    BY DEF select_opencode_variant
  <2>2. QED
    BY <1>1, <2>1, Zenon DEF select_opencode_variant
<1>7. ASSUME NEW f \in Kept(client), overwritten'[p][f] # NoField
      PROVE  /\ sv.previous[f] = overwritten'[p][f]
             /\ client = "opencode" => sv.variant = select_opencode_variant(p)
  <2>1. f \in OwnedFields(client)
    BY FieldsAre, Zenon
  <2>2. CASE manifest = NoManifest
    <3>1. overwritten[p][f] = NoField
      BY <1>3, <2>2, Zenon DEF ReplacedInv, KeptAt
    <3>2. overwritten'[p][f] = docs[p][f]
      BY <1>1, <1>7, <2>1, <3>1, Zenon DEF Owed
    <3>3. QED
      BY <2>2, <3>2, Zenon DEF PreviousValues
  <2>3. CASE manifest # NoManifest
    <3>1. ~setup.force => docs[p][f] \notin UserValues
      BY <2>3, Zenon DEF CommandInv
    <3>2. overwritten'[p][f] = overwritten[p][f]
      BY <1>1, <1>7, <2>1, <3>1, Zenon DEF Owed
    <3>3. /\ manifest.previous[f] = overwritten[p][f]
          /\ client = "opencode" => manifest.variant = select_opencode_variant(p)
      BY <1>3, <1>7, <3>2, Zenon DEF ReplacedInv, KeptAt
    <3>4. QED
      BY <2>3, <3>2, <3>3, Zenon DEF PreviousValues
  <2>4. QED
    BY <2>2, <2>3
<1>8. ReplacedInv'
  <2>1. ASSUME NEW f \in Kept(client), overwritten'[p][f] # NoField
        PROVE  KeptAt(p, f)'
    <3>1. /\ docs'[p][f] \notin UserValues \cup {NoField}
          /\ ~parents'[p].blank
      BY <1>1, Zenon
    <3>2. /\ Governing' # NoManifest
          /\ Governing'.previous[f] = overwritten'[p][f]
      BY <1>3, <1>5, <1>7, <2>1, Zenon
    <3>3. client = "opencode" => Governing'.variant = (select_opencode_variant(p))'
      BY <1>3, <1>6, <1>7, <2>1, Zenon
    <3>4. QED
      BY <3>1, <3>2, <3>3, Zenon DEF KeptAt
  <2>2. QED
    BY <2>1, Zenon DEF ReplacedInv, Single
<1>9. CommandInv'
  BY <1>2, Zenon DEF CommandInv, Rewriting
<1>10. QED
  BY <1>4, <1>8, <1>9

\* Putting the captured values back leaves nothing to be kept.
LEMMA RestoreStep ==
    ASSUME IntegrationTypes, ReplacedInv, CommandInv, Single,
           Rewriting, setup.remove, NEW p \in ClientPaths,
           NEW doc \in [OwnedFields(client) -> FieldValues],
           \A f \in Kept(client) : overwritten[p][f] # NoField => doc[f] = overwritten[p][f],
           NEW parent \in Parents, Rewrites(p, doc, parent),
           setup' \in Leaving, UNCHANGED <<client, manifest>>
    PROVE  IntegrationTypes' /\ ReplacedInv' /\ CommandInv'
<1>1. /\ docs' \in [ClientPaths -> [OwnedFields(client) -> FieldValues]]
      /\ parents' \in [ClientPaths -> Parents]
      /\ overwritten' \in [ClientPaths -> [OwnedFields(client) -> UserValues \cup {NoField}]]
      /\ \A f \in OwnedFields(client) :
            overwritten'[p][f] = Owed(p, doc, f)
  BY RewritesIs, Zenon
<1>2. manifest # NoManifest
  BY Zenon DEF CommandInv
<1>3. ASSUME NEW f \in Kept(client) PROVE overwritten'[p][f] = NoField
  <2>1. f \in OwnedFields(client)
    BY FieldsAre, Zenon
  <2>2. ~setup.force => docs[p][f] \notin UserValues
    BY <1>2, Zenon DEF CommandInv
  <2>3. CASE overwritten[p][f] = NoField
    BY <1>1, <2>1, <2>2, <2>3, Zenon DEF Owed
  <2>4. CASE overwritten[p][f] # NoField
    <3>1. docs[p][f] \notin UserValues
      BY <2>4, Zenon DEF ReplacedInv, KeptAt
    <3>2. overwritten[p][f] \in UserValues
      BY <2>1, <2>4, Zenon DEF IntegrationTypes
    <3>3. doc[f] = overwritten[p][f] /\ doc[f] # docs[p][f]
      BY <2>4, <3>1, <3>2, Zenon
    <3>4. QED
      BY <1>1, <2>1, <3>1, <3>3, Zenon DEF Owed
  <2>5. QED
    BY <2>3, <2>4
<1>4. \A r \in ClientPaths : \A f \in Kept(client) : overwritten'[r][f] = NoField
  BY <1>3, Zenon DEF Single
<1>5. IntegrationTypes'
  BY <1>1, <1>2, Zenon DEF IntegrationTypes, Inert
<1>6. ReplacedInv'
  BY <1>4, Zenon DEF ReplacedInv, KeptAt
<1>7. ~Rewriting'
  BY Kinds, Zenon DEF Rewriting
<1>8. CommandInv'
  BY <1>4, <1>7, Zenon DEF CommandInv
<1>9. QED
  BY <1>5, <1>6, <1>8

-----------------------------------------------------------------------------
\* Where a command is tells which kind of record it has.
LEMMA PlaceOf ==
    ASSUME IntegrationTypes
    PROVE  /\ setup.stage = "catalog" /\ ~setup.remove => Rewriting
           /\ setup.stage = "config" => Rewriting
           /\ setup.stage = "catalog" /\ setup.remove => setup \in Leaving
           /\ setup.stage = "manifest" /\ setup.remove => setup \in Leaving
           /\ setup.stage = "manifest" /\ ~setup.remove => setup \in Saving /\ Inert(setup.saved)
<1>1. setup = NoSetup => setup.stage = "idle"
  BY DEF NoSetup
<1>2. Rewriting => setup.stage \in {"catalog", "config"}
  BY Zenon DEF Rewriting, Pending
<1>3. setup \in Leaving => setup.stage \in {"catalog", "manifest"} /\ setup.remove \in {TRUE}
  BY Zenon DEF Leaving
<1>4. setup \in Saving => setup.stage \in {"manifest"} /\ setup.remove \in {FALSE}
  BY Zenon DEF Saving
<1>5. \/ setup = NoSetup
      \/ Rewriting
      \/ setup \in Leaving
      \/ setup \in Saving /\ Inert(setup.saved)
  BY Zenon DEF IntegrationTypes
<1>6. Rewriting /\ setup.remove => setup.stage = "config"
  BY Zenon DEF Rewriting
<1>7. "idle" \notin {"catalog", "config", "manifest"} /\ "catalog" # "config"
      /\ "catalog" # "manifest" /\ "config" # "manifest"
  OBVIOUS
<1>8. QED
  BY <1>1, <1>2, <1>3, <1>4, <1>5, <1>6, <1>7, Zenon

LEMMA WriteClientCatalogStep ==
    ASSUME IntegrationTypes, ReplacedInv, CommandInv, WriteClientCatalog
    PROVE  IntegrationTypes' /\ ReplacedInv' /\ CommandInv'
<1>1. /\ setup.stage = "catalog" /\ ~setup.remove
      /\ setup' = [setup EXCEPT !.stage = "config"]
      /\ UNCHANGED <<client, docs, parents, manifest, overwritten>>
  BY Zenon DEF WriteClientCatalog
<1>2. Rewriting /\ setup \notin Saving
  BY <1>1, PlaceOf, Kinds, Zenon DEF Rewriting
<1>3. setup' \in Pending /\ setup'.remove = setup.remove /\ setup'.force = setup.force
  <2>1. setup \in Pending
    BY <1>2, Zenon DEF Rewriting
  <2>2. QED
    BY <1>1, <2>1 DEF Pending
<1>4. Rewriting'
  BY <1>1, <1>3, Zenon DEF Rewriting
<1>5. ~setup'.force /\ manifest # NoManifest =>
         \A p \in ClientPaths : \A f \in Kept(client) : docs[p][f] \notin UserValues
  BY <1>2, <1>3, Zenon DEF CommandInv
<1>6. QED
  BY <1>1, <1>2, <1>3, <1>4, <1>5, RecordStep, Zenon

LEMMA RemoveCatalogStep ==
    ASSUME IntegrationTypes, ReplacedInv, CommandInv, RemoveCatalog
    PROVE  IntegrationTypes' /\ ReplacedInv' /\ CommandInv'
<1>1. /\ setup.stage = "catalog" /\ setup.remove
      /\ setup' = [setup EXCEPT !.stage = "manifest"]
      /\ UNCHANGED <<client, docs, parents, manifest, overwritten>>
  BY Zenon DEF RemoveCatalog
<1>2. setup \in Leaving /\ setup \notin Saving
  BY <1>1, PlaceOf, Kinds, Zenon
<1>3. setup' \in Leaving
  BY <1>1, <1>2, Zenon DEF Leaving
<1>4. \A p \in ClientPaths : \A f \in Kept(client) : overwritten[p][f] = NoField
  BY <1>2, Zenon DEF CommandInv
<1>5. QED
  BY <1>1, <1>2, <1>3, <1>4, RecordStep, Zenon

LEMMA RemoveManifestStep ==
    ASSUME IntegrationTypes, ReplacedInv, CommandInv, RemoveManifest
    PROVE  IntegrationTypes' /\ ReplacedInv' /\ CommandInv'
<1>1. /\ setup.stage = "manifest" /\ setup.remove
      /\ setup' = NoSetup /\ manifest' = NoManifest
      /\ UNCHANGED <<client, docs, parents, overwritten>>
  BY Zenon DEF RemoveManifest
<1>2. setup \in Leaving
  BY <1>1, PlaceOf, Zenon
<1>3. \A p \in ClientPaths : \A f \in Kept(client) : overwritten[p][f] = NoField
  BY <1>2, Zenon DEF CommandInv
<1>4. IntegrationTypes'
  BY <1>1, Zenon DEF IntegrationTypes
<1>5. ReplacedInv'
  BY <1>1, <1>3, Zenon DEF ReplacedInv, KeptAt
<1>6. CommandInv'
  BY <1>1, Kinds, Zenon DEF CommandInv, Rewriting
<1>7. QED
  BY <1>4, <1>5, <1>6

LEMMA SaveManifestStep ==
    ASSUME IntegrationTypes, ReplacedInv, CommandInv, SaveManifest
    PROVE  IntegrationTypes' /\ ReplacedInv' /\ CommandInv'
<1>1. /\ setup.stage = "manifest" /\ ~setup.remove
      /\ setup' = NoSetup /\ manifest' = setup.saved
      /\ UNCHANGED <<client, docs, parents, overwritten>>
  BY Zenon DEF SaveManifest
<1>2. setup \in Saving /\ Inert(setup.saved)
  BY <1>1, PlaceOf, Zenon
<1>3. setup.saved \in Manifests(client)
  BY <1>2, Zenon DEF Saving
<1>4. setup' \notin Saving'
  <2>1. \A r \in Saving' : r.stage \in {"manifest"}
    BY Zenon DEF Saving
  <2>2. NoSetup.stage = "idle"
    BY DEF NoSetup
  <2>3. QED
    BY <1>1, <2>1, <2>2, Zenon
<1>5. Governing = setup.saved /\ Governing' = setup.saved
  BY <1>1, <1>2, <1>4, Zenon DEF Governing
<1>6. IntegrationTypes'
  BY <1>1, <1>2, <1>3, Zenon DEF IntegrationTypes, Inert
<1>7. ReplacedInv'
  <2>1. \A p : select_opencode_variant(p)' = select_opencode_variant(p)
    BY <1>1, Zenon DEF select_opencode_variant
  <2>2. QED
    BY <1>1, <1>5, <2>1, Zenon DEF ReplacedInv, KeptAt
<1>8. CommandInv'
  BY <1>1, Kinds, Zenon DEF CommandInv, Rewriting
<1>9. QED
  BY <1>6, <1>7, <1>8

LEMMA WriteCodexConfigStep ==
    ASSUME IntegrationTypes, ReplacedInv, CommandInv, Single, WriteCodexConfig
    PROVE  IntegrationTypes' /\ ReplacedInv' /\ CommandInv'
<1> DEFINE p == setup.path
           doc == apply_codex_text_mutation(p, setup.base, setup.model)
           parent == [parents[p] EXCEPT !.blank = FALSE]
           sv == CodexManifest(p, doc)
<1>1. /\ client = "codex" /\ setup.stage = "config" /\ ~setup.remove
      /\ Rewrites(p, doc, parent)
      /\ setup' = [stage |-> "manifest", remove |-> FALSE, saved |-> sv]
      /\ UNCHANGED <<client, manifest>>
  BY Zenon DEF WriteCodexConfig
<1>2. Rewriting
  BY <1>1, PlaceOf, Zenon
<1>3. p \in ClientPaths /\ setup.base \in ServerUrls /\ setup.model \in ManagedModels \cup {NoField}
  <2>1. setup \in Pending
    BY <1>2, Zenon DEF Rewriting
  <2>2. QED
    BY <2>1, Zenon DEF Pending
<1>4. docs[p] \in [OwnedFields(client) -> FieldValues] /\ parents[p] \in Parents
  BY <1>3, Zenon DEF IntegrationTypes
<1>5. parent \in Parents /\ ~parent.blank
  BY <1>4, Zenon DEF Parents
<1>6. ASSUME NEW f \in OwnedFields("codex")
      PROVE  /\ doc[f] \in FieldValues
             /\ f \in Kept(client) => doc[f] \notin UserValues \cup {NoField}
  <2>1. doc[f] = IF f = "model" /\ setup.model = NoField THEN docs[p][f]
                 ELSE Ours(f, setup.base, setup.model)
    BY Zenon DEF apply_codex_text_mutation
  <2>2. CASE f # "model"
    <3>1. f \in Kept(client)
      BY <1>1, <2>2, FieldsAre, Zenon
    <3>2. QED
      BY <1>1, <1>3, <2>1, <2>2, <3>1, OursIsOurs, Zenon DEF IntegrationTypes
  <2>3. CASE f = "model"
    <3>1. f \notin Kept(client)
      BY <2>3, FieldsAre, Zenon
    <3>2. setup.model # NoField => doc[f] = setup.model
      BY <2>1, <2>3 DEF Ours
    <3>3. setup.model = NoField => doc[f] \in FieldValues
      BY <1>1, <1>4, <2>1, <2>3, Zenon
    <3>4. QED
      BY <1>3, <3>1, <3>2, <3>3, Zenon DEF FieldValues
  <2>4. QED
    BY <2>2, <2>3
<1>7. doc \in [OwnedFields(client) -> FieldValues]
  <2>1. doc = [f \in OwnedFields("codex") |-> doc[f]]
    BY Zenon DEF apply_codex_text_mutation
  <2>2. QED
    BY <1>1, <1>6, <2>1, Zenon
<1>8. \A f \in Kept(client) : doc[f] \notin UserValues \cup {NoField}
  BY <1>1, <1>6, FieldsAre, Zenon
<1>9. sv \in Manifests(client) /\ sv.post = doc /\ sv.previous = PreviousValues(p)
  <2>1. PreviousValues(p) \in [OwnedFields(client) -> FieldValues]
    <3>1. manifest # NoManifest => manifest.previous \in [OwnedFields(client) -> FieldValues]
      BY Zenon DEF IntegrationTypes, Manifests
    <3>2. QED
      BY <1>4, <3>1, Zenon DEF PreviousValues
  <2>2. manifest # NoManifest => manifest.applied_model \in ManagedModels \cup {NoField}
    BY Zenon DEF IntegrationTypes, Manifests
  <2> DEFINE managed == setup.model # NoField \/ (manifest # NoManifest /\ "model" \in manifest.owned)
             ow == {f \in OwnedFields("codex") : f = "model" => managed}
             am == IF setup.model # NoField THEN setup.model
                   ELSE IF manifest # NoManifest THEN manifest.applied_model ELSE NoField
  <2>3. ow \in SUBSET OwnedFields(client)
    BY <1>1, Zenon
  <2>4. am \in ManagedModels \cup {NoField}
    BY <1>3, <2>2, Zenon
  <2>5. sv = [path |-> p, base |-> setup.base, variant |-> "v1", post |-> doc,
              owned |-> ow, applied_model |-> am, previous |-> PreviousValues(p)]
    BY Zenon DEF CodexManifest
  <2> HIDE DEF p, doc, sv, ow, am, managed
  <2>6. [path |-> p, base |-> setup.base, variant |-> "v1", post |-> doc,
         owned |-> ow, applied_model |-> am, previous |-> PreviousValues(p)] \in Manifests(client)
    BY <1>3, <1>7, <2>1, <2>3, <2>4, Zenon DEF Manifests
  <2>7. QED
    BY <2>5, <2>6, Zenon
<1>10. Kept(client) \subseteq sv.owned
  BY <1>1, FieldsAre, Zenon DEF CodexManifest
<1>11. client # "opencode"
  BY <1>1
<1> HIDE DEF p, doc, sv, parent
<1>12. QED
  BY <1>1, <1>2, <1>3, <1>5, <1>7, <1>8, <1>9, <1>10, <1>11, WriteStep

LEMMA WriteOpencodeConfigStep ==
    ASSUME IntegrationTypes, ReplacedInv, CommandInv, Single, WriteOpencodeConfig
    PROVE  IntegrationTypes' /\ ReplacedInv' /\ CommandInv'
<1> DEFINE p == setup.path
           doc == apply_opencode_document(setup.base)
           parent == insert_parent(p)
           sv == OpencodeManifest(p, doc)
<1>1. /\ client = "opencode" /\ setup.stage = "config" /\ ~setup.remove
      /\ Rewrites(p, doc, parent)
      /\ setup' = [stage |-> "manifest", remove |-> FALSE, saved |-> sv]
      /\ UNCHANGED <<client, manifest>>
  BY Zenon DEF WriteOpencodeConfig
<1>2. Rewriting
  BY <1>1, PlaceOf, Zenon
<1>3. p \in ClientPaths /\ setup.base \in ServerUrls
  <2>1. setup \in Pending
    BY <1>2, Zenon DEF Rewriting
  <2>2. QED
    BY <2>1, Zenon DEF Pending
<1>4. docs[p] \in [OwnedFields(client) -> FieldValues] /\ parents[p] \in Parents
  BY <1>3, Zenon DEF IntegrationTypes
<1>5. select_opencode_variant(p) \in {"v1", "v2", "both"}
  <2>1. parents[p].shape \in {"absent", "v1", "v2", "both"}
    BY <1>4, Zenon DEF Parents
  <2>2. QED
    BY <2>1, Zenon DEF select_opencode_variant
<1>6. parent \in Parents /\ ~parent.blank /\ parent.shape = select_opencode_variant(p)
  <2>1. select_opencode_variant(p) \in {"absent", "v1", "v2", "both"}
    BY <1>5, Zenon
  <2>2. QED
    BY <1>4, <2>1, Zenon DEF Parents, insert_parent
<1>7. setup.base \in FieldValues /\ setup.base \notin UserValues \cup {NoField}
  BY <1>3, IntegrationAssumption, Zenon DEF FieldValues
<1>8. /\ doc \in [OwnedFields(client) -> FieldValues]
      /\ \A f \in OwnedFields(client) : doc[f] = setup.base
  BY <1>1, <1>7, Zenon DEF apply_opencode_document
<1>9. \A f \in Kept(client) : doc[f] \notin UserValues \cup {NoField}
  BY <1>7, <1>8, FieldsAre, Zenon
<1>10. /\ sv \in Manifests(client) /\ sv.post = doc /\ sv.previous = PreviousValues(p)
       /\ sv.variant = IF manifest # NoManifest THEN manifest.variant
                       ELSE select_opencode_variant(p)
  <2> DEFINE va == IF manifest # NoManifest THEN manifest.variant ELSE select_opencode_variant(p)
  <2>1. PreviousValues(p) \in [OwnedFields(client) -> FieldValues]
    <3>1. manifest # NoManifest => manifest.previous \in [OwnedFields(client) -> FieldValues]
      BY Zenon DEF IntegrationTypes, Manifests
    <3>2. QED
      BY <1>4, <3>1, Zenon DEF PreviousValues
  <2>2. va \in {"v1", "v2", "both"}
    <3>1. manifest # NoManifest => manifest.variant \in {"v1", "v2", "both"}
      BY Zenon DEF IntegrationTypes, Manifests
    <3>2. QED
      BY <1>5, <3>1, Zenon
  <2>3. sv = [path |-> p, base |-> setup.base, variant |-> va, post |-> doc,
              owned |-> OwnedFields("opencode"), applied_model |-> NoField,
              previous |-> PreviousValues(p)]
    BY Zenon DEF OpencodeManifest
  <2>4. OwnedFields("opencode") \in SUBSET OwnedFields(client) /\ NoField \in ManagedModels \cup {NoField}
    BY <1>1, Zenon
  <2> HIDE DEF p, doc, sv, va
  <2>5. [path |-> p, base |-> setup.base, variant |-> va, post |-> doc,
         owned |-> OwnedFields("opencode"), applied_model |-> NoField,
         previous |-> PreviousValues(p)] \in Manifests(client)
    BY <1>3, <1>8, <2>1, <2>2, <2>4, Zenon DEF Manifests
  <2>6. sv \in Manifests(client) /\ sv.post = doc /\ sv.previous = PreviousValues(p) /\ sv.variant = va
    BY <2>3, <2>5, Zenon
  <2>7. QED
    BY <2>6 DEF va
<1>11. Kept(client) \subseteq sv.owned
  BY <1>1, FieldsAre, Zenon DEF OpencodeManifest
<1> HIDE DEF p, doc, sv, parent
<1>12. QED
  BY <1>1, <1>2, <1>3, <1>6, <1>8, <1>9, <1>10, <1>11, WriteStep

LEMMA RestoreCodexConfigStep ==
    ASSUME IntegrationTypes, ReplacedInv, CommandInv, Single, RestoreCodexConfig
    PROVE  IntegrationTypes' /\ ReplacedInv' /\ CommandInv'
<1> DEFINE p == setup.path
           doc == remove_codex_owned_text(p)
<1>1. /\ client = "codex" /\ setup.stage = "config" /\ setup.remove
      /\ Rewrites(p, doc, parents[p])
      /\ setup' = [setup EXCEPT !.stage = "catalog"]
      /\ UNCHANGED <<client, manifest>>
  BY Zenon DEF RestoreCodexConfig
<1>2. Rewriting /\ setup \in Pending
  BY <1>1, PlaceOf, Zenon DEF Rewriting
<1>3. p \in ClientPaths
  BY <1>2, Zenon DEF Pending
<1>4. setup' \in Leaving
  BY <1>1, <1>2, Zenon DEF Pending, Leaving
<1>5. manifest \in Manifests(client) /\ Inert(manifest) /\ manifest # NoManifest
  BY <1>1, <1>2, Zenon DEF IntegrationTypes, CommandInv
<1>6. /\ docs[p] \in [OwnedFields(client) -> FieldValues] /\ parents[p] \in Parents
      /\ overwritten[p] \in [OwnedFields(client) -> UserValues \cup {NoField}]
  BY <1>3, Zenon DEF IntegrationTypes
<1>7. manifest.previous \in [OwnedFields(client) -> FieldValues]
  BY <1>5, Zenon DEF Manifests
<1>8. doc = [f \in OwnedFields("codex") |-> doc[f]]
  BY SMT DEF remove_codex_owned_text
<1>9. ASSUME NEW f \in OwnedFields("codex")
      PROVE  doc[f] = CASE f \notin manifest.owned \/ parents[p].blank -> docs[p][f]
                        [] f = "model_provider" /\ manifest.previous[f] = "eggpool" -> NoField
                        [] f = "table" /\ docs[p][f] = NoField -> NoField
                        [] OTHER -> manifest.previous[f]
  BY SMT DEF remove_codex_owned_text
<1>10. ASSUME NEW f \in OwnedFields("codex") PROVE doc[f] \in FieldValues
  <2>1. doc[f] \in {docs[p][f], NoField, manifest.previous[f]}
    <3> HIDE DEF doc, p
    <3> QED
      BY <1>9
  <2>2. docs[p][f] \in FieldValues /\ manifest.previous[f] \in FieldValues /\ NoField \in FieldValues
    BY <1>1, <1>6, <1>7, Zenon DEF FieldValues
  <2>3. QED
    BY <2>1, <2>2, Zenon
<1>11. doc \in [OwnedFields(client) -> FieldValues]
  BY <1>1, <1>8, <1>10, Zenon
<1>12. ASSUME NEW f \in Kept(client), overwritten[p][f] # NoField
       PROVE  doc[f] = overwritten[p][f]
  <2>1. setup \notin Saving /\ Governing = manifest
    BY <1>2, Kinds, Zenon DEF Governing
  <2>2. /\ docs[p][f] # NoField /\ ~parents[p].blank
        /\ manifest.previous[f] = overwritten[p][f]
    BY <1>3, <1>12, <2>1, Zenon DEF ReplacedInv, KeptAt
  <2>3. f \in OwnedFields("codex") /\ f \in manifest.owned
    BY <1>1, <1>5, FieldsAre, Zenon DEF Inert
  <2>4. overwritten[p][f] \in UserValues
    BY <1>1, <1>6, <1>12, <2>3, Zenon
  <2>5. manifest.previous[f] # "eggpool"
    BY <2>2, <2>4, IntegrationAssumption, Zenon
  <2>6. QED
    <3> HIDE DEF doc, p
    <3> QED
      BY <1>9, <2>2, <2>3, <2>5
<1> HIDE DEF p, doc
<1>13. QED
  BY <1>1, <1>2, <1>3, <1>4, <1>6, <1>11, <1>12, RestoreStep

LEMMA RestoreOpencodeConfigStep ==
    ASSUME IntegrationTypes, ReplacedInv, CommandInv, Single, RestoreOpencodeConfig
    PROVE  IntegrationTypes' /\ ReplacedInv' /\ CommandInv'
<1> DEFINE p == setup.path
           doc == remove_opencode_document(p)
           parent == remove_entry_and_maybe_parent(p)
<1>1. /\ client = "opencode" /\ setup.stage = "config" /\ setup.remove
      /\ Rewrites(p, doc, parent)
      /\ setup' = [setup EXCEPT !.stage = "manifest"]
      /\ UNCHANGED <<client, manifest>>
  BY Zenon DEF RestoreOpencodeConfig
<1>2. Rewriting /\ setup \in Pending
  BY <1>1, PlaceOf, Zenon DEF Rewriting
<1>3. p \in ClientPaths
  BY <1>2, Zenon DEF Pending
<1>4. setup' \in Leaving
  BY <1>1, <1>2, Zenon DEF Pending, Leaving
<1>5. manifest \in Manifests(client) /\ manifest # NoManifest
  BY <1>1, <1>2, Zenon DEF IntegrationTypes, CommandInv
<1>6. parents[p] \in Parents
  BY <1>3, Zenon DEF IntegrationTypes
<1>7. parent \in Parents
  BY <1>6, Zenon DEF Parents, remove_entry_and_maybe_parent
<1>8. PreviousEntry(p) \in FieldValues
  <2>1. manifest.previous["entry"] \in FieldValues
    <3>1. manifest.previous \in [OwnedFields(client) -> FieldValues]
      BY <1>5, Zenon DEF Manifests
    <3>2. QED
      BY <1>1, <3>1, FieldsAre, Zenon
  <2>2. QED
    BY <2>1, Zenon DEF PreviousEntry, FieldValues
<1>9. /\ doc \in [OwnedFields(client) -> FieldValues]
      /\ \A f \in OwnedFields(client) : doc[f] = PreviousEntry(p)
  BY <1>1, <1>8, Zenon DEF remove_opencode_document
<1>10. ASSUME NEW f \in Kept(client), overwritten[p][f] # NoField
       PROVE  doc[f] = overwritten[p][f]
  <2>1. setup \notin Saving /\ Governing = manifest
    BY <1>2, Kinds, Zenon DEF Governing
  <2>2. /\ manifest.previous[f] = overwritten[p][f]
        /\ manifest.variant = select_opencode_variant(p)
    BY <1>1, <1>3, <1>10, <2>1, Zenon DEF ReplacedInv, KeptAt
  <2>3. f = "entry" /\ f \in OwnedFields(client)
    BY <1>1, FieldsAre, Zenon
  <2>4. QED
    BY <1>9, <2>2, <2>3, Zenon DEF PreviousEntry
<1> HIDE DEF p, doc, parent
<1>11. QED
  BY <1>1, <1>2, <1>3, <1>4, <1>7, <1>9, <1>10, RestoreStep

LEMMA UserEditsStep ==
    ASSUME IntegrationTypes, ReplacedInv, CommandInv, NEW p \in ClientPaths,
           NEW g \in OwnedFields(client), NEW v \in UserValues \cup {NoField},
           UserEditsClient(p, g, v)
    PROVE  IntegrationTypes' /\ ReplacedInv' /\ CommandInv'
<1>1. /\ setup = NoSetup
      /\ docs' = [docs EXCEPT ![p][g] = v]
      /\ overwritten' = [overwritten EXCEPT ![p][g] = NoField]
      /\ UNCHANGED <<client, parents, manifest, setup>>
  BY Zenon DEF UserEditsClient
<1>2. /\ docs \in [ClientPaths -> [OwnedFields(client) -> FieldValues]]
      /\ overwritten \in [ClientPaths -> [OwnedFields(client) -> UserValues \cup {NoField}]]
      /\ v \in FieldValues
  BY Zenon DEF IntegrationTypes, FieldValues
<1>3. /\ docs' \in [ClientPaths -> [OwnedFields(client) -> FieldValues]]
      /\ overwritten' \in [ClientPaths -> [OwnedFields(client) -> UserValues \cup {NoField}]]
      /\ \A r \in ClientPaths : \A f \in OwnedFields(client) :
            \/ overwritten'[r][f] = NoField
            \/ overwritten'[r][f] = overwritten[r][f] /\ docs'[r][f] = docs[r][f]
  BY <1>1, <1>2
<1>4. IntegrationTypes'
  BY <1>1, <1>3, Zenon DEF IntegrationTypes, Inert
<1>5. ReplacedInv'
  <2>1. setup \notin Saving /\ setup' \notin Saving'
    <3>1. Saving' = Saving
      BY <1>1, Zenon DEF Saving
    <3>2. QED
      BY <1>1, <3>1, Kinds, Zenon
  <2>2. Governing = manifest /\ Governing' = manifest
    BY <1>1, <2>1, Zenon DEF Governing
  <2>3. \A r : select_opencode_variant(r)' = select_opencode_variant(r)
    BY <1>1, Zenon DEF select_opencode_variant
  <2>4. \A f \in Kept(client) : f \in OwnedFields(client)
    BY FieldsAre, Zenon
  <2>5. QED
    <3>1. ASSUME NEW r \in ClientPaths, NEW f \in Kept(client), overwritten'[r][f] # NoField
          PROVE  overwritten'[r][f] = overwritten[r][f] /\ docs'[r][f] = docs[r][f]
      BY <1>3, <2>4, <3>1, Zenon
    <3>2. ASSUME NEW r \in ClientPaths, NEW f \in Kept(client), overwritten'[r][f] # NoField
          PROVE  KeptAt(r, f)'
      <4>1. KeptAt(r, f)
        BY <3>1, <3>2, Zenon DEF ReplacedInv
      <4>2. overwritten'[r][f] = overwritten[r][f] /\ docs'[r][f] = docs[r][f]
        BY <3>1, <3>2, Zenon
      <4>3. QED
        BY <1>1, <2>2, <2>3, <4>1, <4>2, Zenon DEF KeptAt
    <3>3. QED
      BY <1>1, <3>2, Zenon DEF ReplacedInv
<1>6. CommandInv'
  BY <1>1, Kinds, Zenon DEF CommandInv, Rewriting
<1>7. QED
  BY <1>4, <1>5, <1>6

LEMMA UserDeletesStep ==
    ASSUME IntegrationTypes, ReplacedInv, CommandInv, Single, NEW p \in ClientPaths,
           UserDeletes(p)
    PROVE  IntegrationTypes' /\ ReplacedInv' /\ CommandInv'
<1> DEFINE none == [f \in OwnedFields(client) |-> NoField]
           gone == [shape |-> "absent", others |-> FALSE, blank |-> TRUE]
<1>1. /\ setup = NoSetup
      /\ docs' = [docs EXCEPT ![p] = none]
      /\ parents' = [parents EXCEPT ![p] = gone]
      /\ overwritten' = [overwritten EXCEPT ![p] = none]
      /\ UNCHANGED <<client, manifest, setup>>
  BY Zenon DEF UserDeletes
<1>2. /\ none \in [OwnedFields(client) -> FieldValues]
      /\ none \in [OwnedFields(client) -> UserValues \cup {NoField}]
      /\ \A f \in OwnedFields(client) : none[f] = NoField
  BY Zenon DEF FieldValues
<1>3. gone \in Parents
  BY Zenon DEF Parents
<1>4. /\ docs \in [ClientPaths -> [OwnedFields(client) -> FieldValues]]
      /\ parents \in [ClientPaths -> Parents]
      /\ overwritten \in [ClientPaths -> [OwnedFields(client) -> UserValues \cup {NoField}]]
  BY Zenon DEF IntegrationTypes
<1> HIDE DEF none, gone
<1>5. /\ docs' \in [ClientPaths -> [OwnedFields(client) -> FieldValues]]
      /\ parents' \in [ClientPaths -> Parents]
      /\ overwritten' \in [ClientPaths -> [OwnedFields(client) -> UserValues \cup {NoField}]]
      /\ overwritten'[p] = none
  BY <1>1, <1>2, <1>3, <1>4, Zenon
<1>6. IntegrationTypes'
  BY <1>1, <1>5, Zenon DEF IntegrationTypes, Inert
<1>7. ReplacedInv'
  <2>1. \A f \in Kept(client) : overwritten'[p][f] = NoField
    BY <1>2, <1>5, FieldsAre, Zenon
  <2>2. QED
    BY <1>1, <2>1, Zenon DEF ReplacedInv, KeptAt, Single
<1>8. CommandInv'
  BY <1>1, Kinds, Zenon DEF CommandInv, Rewriting
<1>9. QED
  BY <1>6, <1>7, <1>8

LEMMA IntegrationInitInv == ASSUME IntegrationInit PROVE IntegrationInv
<1>1. /\ client \in {"codex", "opencode"} /\ manifest = NoManifest /\ setup = NoSetup
      /\ docs \in [ClientPaths -> [OwnedFields(client) -> UserValues \cup {NoField}]]
      /\ parents \in [ClientPaths -> Parents]
      /\ overwritten = [p \in ClientPaths |-> [f \in OwnedFields(client) |-> NoField]]
  BY Zenon DEF IntegrationInit, Parents
<1>2. docs \in [ClientPaths -> [OwnedFields(client) -> FieldValues]]
  <2>1. \A p \in ClientPaths : \A f \in OwnedFields(client) : docs[p][f] \in FieldValues
    BY <1>1, Zenon DEF FieldValues
  <2>2. QED
    BY <1>1, <2>1
<1>3. overwritten \in [ClientPaths -> [OwnedFields(client) -> UserValues \cup {NoField}]]
  BY <1>1, Zenon
<1>4. IntegrationTypes
  BY <1>1, <1>2, <1>3, Zenon DEF IntegrationTypes
<1>5. \A p \in ClientPaths : \A f \in Kept(client) : overwritten[p][f] = NoField
  BY <1>1, FieldsAre, Zenon
<1>6. ReplacedInv
  BY <1>5, Zenon DEF ReplacedInv, KeptAt
<1>7. CommandInv
  BY <1>1, Kinds, Zenon DEF CommandInv, Rewriting
<1>8. QED
  BY <1>4, <1>6, <1>7, Zenon DEF IntegrationInv

LEMMA IntegrationStep ==
    ASSUME Single, IntegrationInv, [IntegrationNext]_integrationVars
    PROVE  IntegrationInv'
<1> SUFFICES ASSUME ~interrupted' PROVE IntegrationTypes' /\ ReplacedInv' /\ CommandInv'
  BY Zenon DEF IntegrationInv
<1>1. CASE UNCHANGED integrationVars
  <2>1. UNCHANGED <<client, docs, parents, manifest, setup, overwritten, interrupted>>
    BY <1>1, Zenon DEF integrationVars
  <2>2. IntegrationTypes /\ ReplacedInv /\ CommandInv
    BY <2>1, Zenon DEF IntegrationInv
  <2>3. IntegrationTypes'
    BY <2>1, <2>2, Zenon DEF IntegrationTypes, Inert, Rewriting, Saving
  <2>4. ReplacedInv'
    <3>1. Governing' = Governing
      BY <2>1, Zenon DEF Governing, Saving
    <3>2. \A r : select_opencode_variant(r)' = select_opencode_variant(r)
      BY <2>1, Zenon DEF select_opencode_variant
    <3>3. QED
      BY <2>1, <2>2, <3>1, <3>2, Zenon DEF ReplacedInv, KeptAt
  <2>5. CommandInv'
    BY <2>1, <2>2, Zenon DEF CommandInv, Rewriting
  <2>6. QED
    BY <2>3, <2>4, <2>5
<1>2. CASE IntegrationNext
  <2>1. CASE Interrupted
    BY <2>1, Zenon DEF Interrupted
  <2>2. CASE ~Interrupted
    <3>1. ~interrupted
      <4>1. CASE WriteClientCatalog \/ WriteCodexConfig \/ WriteOpencodeConfig \/ SaveManifest
        BY <4>1, Zenon DEF WriteClientCatalog, WriteCodexConfig, WriteOpencodeConfig, SaveManifest
      <4>2. CASE RestoreCodexConfig \/ RestoreOpencodeConfig \/ RemoveCatalog \/ RemoveManifest
        BY <4>2, Zenon DEF RestoreCodexConfig, RestoreOpencodeConfig, RemoveCatalog, RemoveManifest
      <4>3. ASSUME NEW p, NEW b, NEW m, NEW f,
                   StartCodexApply(p, b, m, f) \/ StartCodexRemove(p, b, m, f)
            PROVE  ~interrupted
        BY <4>3, Zenon DEF StartCodexApply, StartCodexRemove
      <4>4. ASSUME NEW p, NEW b, NEW f, StartOpencodeApply(p, b, f) \/ StartOpencodeRemove(p, b, f)
            PROVE  ~interrupted
        BY <4>4, Zenon DEF StartOpencodeApply, StartOpencodeRemove
      <4>5. ASSUME NEW p, NEW f, NEW v, UserEditsClient(p, f, v) \/ UserDeletes(p)
            PROVE  ~interrupted
        BY <4>5, Zenon DEF UserEditsClient, UserDeletes
      <4>6. QED
        BY <1>2, <2>2, <4>1, <4>2, <4>3, <4>4, <4>5, Zenon DEF IntegrationNext
    <3>2. IntegrationTypes /\ ReplacedInv /\ CommandInv
      BY <3>1, Zenon DEF IntegrationInv
    <3>3. QED
      BY <1>2, <2>2, <3>2, StartCodexApplyStep, StartCodexRemoveStep, StartOpencodeApplyStep,
         StartOpencodeRemoveStep, WriteClientCatalogStep, WriteCodexConfigStep,
         WriteOpencodeConfigStep, SaveManifestStep, RestoreCodexConfigStep,
         RestoreOpencodeConfigStep, RemoveCatalogStep, RemoveManifestStep, UserEditsStep,
         UserDeletesStep DEF IntegrationNext
  <2>3. QED
    BY <2>1, <2>2
<1>3. QED
  BY <1>1, <1>2

\* With one configuration file: unless --force was given, whatever value of the
\* user's apply or remove replaced in an owned field is in the manifest once
\* the command has ended (codex_lifecycle, opencode_lifecycle), however
\* applies, syncs, removals and the user's own edits follow each other.
THEOREM ReplacedIsKeptHolds == IntegrationSpec => []ReplacedIsKept
<1>1. CASE Single
  <2>1. IntegrationInit => IntegrationInv
    BY IntegrationInitInv
  <2>2. IntegrationInv /\ [IntegrationNext]_integrationVars => IntegrationInv'
    BY <1>1, IntegrationStep
  <2>3. IntegrationInv => ReplacedIsKept
    <3>1. SUFFICES ASSUME IntegrationInv, setup = NoSetup, ~interrupted,
                          NEW p \in ClientPaths, NEW f \in OwnedFields(client) \ {"model"},
                          overwritten[p][f] # NoField
                   PROVE  manifest # NoManifest /\ manifest.previous[f] = overwritten[p][f]
      BY Zenon DEF ReplacedIsKept
    <3>2. f \in Kept(client) /\ ReplacedInv
      BY <3>1, Zenon DEF Kept, IntegrationInv
    <3>3. Governing = manifest
      BY <3>1, Kinds, Zenon DEF Governing
    <3>4. QED
      BY <3>1, <3>2, <3>3, Zenon DEF ReplacedInv, KeptAt
  <2>4. QED
    BY <2>1, <2>2, <2>3, PTL DEF IntegrationSpec
<1>2. CASE ~Single
  <2>1. Cardinality(ClientPaths) # 1
    <3>1. SUFFICES ASSUME Cardinality(ClientPaths) = 1 PROVE FALSE
      OBVIOUS
    <3>2. PICK x : ClientPaths = {x}
      BY <3>1, FS_Singleton, IntegrationAssumption, Zenon
    <3>3. QED
      BY <1>2, <3>2, Zenon DEF Single
  <2>2. ReplacedIsKept
    BY <2>1, Zenon DEF ReplacedIsKept
  <2>3. QED
    BY <2>2, PTL
<1>3. QED
  BY <1>1, <1>2

-----------------------------------------------------------------------------
(* Tokens (IdentityAccess).  A token is live only while its user is        *)
(* active, because whatever disables a user or replaces a password revokes *)
(* the user's tokens in the same transaction; so a token that was refused  *)
(* is one whose row is revoked, and no transaction makes a row live again. *)

\* The rows the argument is about; a caller in front of its transaction names
\* a user.
IdentityTypes ==
    /\ users = [u \in Users |-> users[u]]
    /\ credentials = [t \in Tokens |-> credentials[t]]
    /\ refused \in Seq(Tokens)
    /\ DOMAIN callers = IdentityCallers
    /\ \A c \in IdentityCallers :
          callers[c].at \in {"hash", "hashing", "commit"} => callers[c].target \in Users

\* A live token belongs to a user who is active.
LiveHasActiveUser ==
    \A t \in Tokens : credentials[t].live =>
        /\ credentials[t].user \in Users
        /\ users[credentials[t].user].active

\* A refused token was issued, and its row is revoked.
RefusedIsRevoked ==
    \A i \in 1..Len(refused) : credentials[refused[i]] # NoRow /\ ~credentials[refused[i]].live

TokenInv == IdentityTypes /\ LiveHasActiveUser /\ RefusedIsRevoked

\* The callers of a step that finishes one of them and keeps the others'
\* targets are typed again.
LEMMA CallersTyped ==
  ASSUME IdentityTypes, NEW c \in IdentityCallers,
         \/ CallDone(c)
         \/ \E u : CallDoneBumping(c, u)
         \/ callers' = callers
  PROVE  /\ DOMAIN callers' = IdentityCallers
         /\ \A d \in IdentityCallers :
              callers'[d].at \in {"hash", "hashing", "commit"} => callers'[d].target \in Users
<1>1. CASE CallDone(c)
  BY <1>1, Zenon DEF CallDone, NoCall, IdentityTypes
<1>2. CASE \E u : CallDoneBumping(c, u)
  BY <1>2 DEF CallDoneBumping, NoCall, IdentityTypes
<1>3. CASE callers' = callers
  BY <1>3, Zenon DEF IdentityTypes
<1>4. QED
  BY <1>1, <1>2, <1>3, Zenon

\* Steps that leave users, tokens and the list of refused tokens alone.
LEMMA TokensFrame ==
  ASSUME TokenInv, UNCHANGED <<users, credentials, refused>>,
         DOMAIN callers' = IdentityCallers,
         \A d \in IdentityCallers :
            callers'[d].at \in {"hash", "hashing", "commit"} => callers'[d].target \in Users
  PROVE  TokenInv'
  BY Zenon DEF TokenInv, IdentityTypes, LiveHasActiveUser, RefusedIsRevoked

\* A call that starts names a user.
LEMMA CallStartsPreserves ==
  ASSUME TokenInv, NEW c \in IdentityCallers, NEW op, NEW actor, NEW target \in Users,
         NEW fence, CallStarts(c, Call(op, actor, target, fence))
  PROVE  TokenInv'
<1> DEFINE w == Call(op, actor, target, fence)
<1>1. w.target = target
  BY Zenon DEF Call
<1> HIDE DEF w
<1>2. /\ DOMAIN callers' = IdentityCallers
      /\ \A d \in IdentityCallers :
            callers'[d].at \in {"hash", "hashing", "commit"} => callers'[d].target \in Users
  BY <1>1, Zenon DEF CallStarts, TokenInv, IdentityTypes, w
<1>3. QED
  BY <1>2, TokensFrame, Zenon DEF CallStarts

\* The steps of a hash worker.
LEMMA HashStepPreserves ==
  ASSUME TokenInv, NEW c \in IdentityCallers,
         TakeHashSlot(c) \/ HashDone(c) \/ CallerGoes(c) \/ OrphanDone(c)
  PROVE  TokenInv'
<1>1. UNCHANGED <<users, credentials, refused>>
  BY Zenon DEF TakeHashSlot, HashDone, CallerGoes, OrphanDone
<1>2. /\ DOMAIN callers' = IdentityCallers
      /\ \A d \in IdentityCallers :
            callers'[d].at \in {"hash", "hashing", "commit"} => callers'[d].target \in Users
  <2> USE DEF TokenInv, IdentityTypes
  <2>1. CASE TakeHashSlot(c)
    BY <2>1 DEF TakeHashSlot
  <2>2. CASE HashDone(c)
    BY <2>2 DEF HashDone
  <2>3. CASE CallerGoes(c)
    BY <2>3, Zenon DEF CallerGoes, NoCall
  <2>4. CASE OrphanDone(c)
    BY <2>4, Zenon DEF OrphanDone, CallDone, NoCall
  <2>5. QED
    BY <2>1, <2>2, <2>3, <2>4, Zenon
<1>3. QED
  BY <1>1, <1>2, TokensFrame, Zenon

\* Revoking every token of a user, whatever else the transaction does to that
\* user's row, leaves live only the tokens of others, whose rows it keeps.
LEMMA RevokedPreserves ==
  ASSUME TokenInv, NEW u \in Users, NEW row,
         users' = [users EXCEPT ![u] = row],
         credentials' = AllRevoked(credentials, u),
         refused' = refused,
         DOMAIN callers' = IdentityCallers,
         \A d \in IdentityCallers :
            callers'[d].at \in {"hash", "hashing", "commit"} => callers'[d].target \in Users
  PROVE  TokenInv'
<1> USE DEF TokenInv, IdentityTypes
<1>1. \A t \in Tokens : /\ credentials'[t].user = credentials[t].user
                        /\ credentials'[t].live =>
                              credentials[t].live /\ credentials[t].user # u
                        /\ credentials[t] # NoRow => credentials'[t] # NoRow
  BY IdentityAssumption DEF AllRevoked, NoRow
<1>2. IdentityTypes'
  BY Zenon DEF AllRevoked
<1>3. LiveHasActiveUser'
  BY <1>1, Zenon DEF LiveHasActiveUser
<1>4. RefusedIsRevoked'
  BY <1>1 DEF RefusedIsRevoked
<1>5. QED
  BY <1>2, <1>3, <1>4, Zenon

\* A token issued to an active user takes a row that was never used, so no
\* refused token has it.
LEMMA IssuedPreserves ==
  ASSUME TokenInv, NEW u \in Users, users'[u].active,
         users' = [v \in Users |-> users'[v]],
         \A v \in Users : users[v].active => users'[v].active,
         HasUnissued(credentials), credentials' = WithIssued(credentials, u),
         refused' = refused,
         DOMAIN callers' = IdentityCallers,
         \A d \in IdentityCallers :
            callers'[d].at \in {"hash", "hashing", "commit"} => callers'[d].target \in Users
  PROVE  TokenInv'
<1> DEFINE t0 == NextRowId(credentials)
<1>1. t0 \in Tokens /\ credentials[t0] = NoRow
  BY Zenon DEF HasUnissued, NextRowId, TokenInv, IdentityTypes
<1> HIDE DEF t0
<1>2. credentials' = [credentials EXCEPT ![t0] = [user |-> u, live |-> TRUE]]
  BY Zenon DEF WithIssued, t0
<1>3. IdentityTypes'
  BY <1>1, <1>2, Zenon DEF TokenInv, IdentityTypes
<1>4. LiveHasActiveUser'
  BY <1>1, <1>2 DEF TokenInv, IdentityTypes, LiveHasActiveUser
<1>5. RefusedIsRevoked'
  BY <1>1, <1>2 DEF TokenInv, IdentityTypes, RefusedIsRevoked
<1>6. QED
  BY <1>3, <1>4, <1>5, Zenon DEF TokenInv

\* Every transaction of a page or a command preserves the invariant.
LEMMA CommitPreserves ==
  ASSUME TokenInv, NEW c \in IdentityCallers, CallerCommits(c)
  PROVE  TokenInv'
<1> DEFINE w == callers[c]
<1> DEFINE CallersOK ==
             /\ DOMAIN callers' = IdentityCallers
             /\ \A d \in IdentityCallers :
                  callers'[d].at \in {"hash", "hashing", "commit"} => callers'[d].target \in Users
<1>a. ASSUME callers[c].at = "commit" PROVE w.target \in Users
  BY <1>a, Zenon DEF TokenInv, IdentityTypes
<1>b. ASSUME CallDone(c) \/ \E u : CallDoneBumping(c, u) PROVE CallersOK
  BY <1>b, CallersTyped, Zenon DEF TokenInv
<1> HIDE DEF w, CallersOK
<1>c. ASSUME NEW allowed, RefusesCall(c, allowed), refused' = refused PROVE TokenInv'
  BY <1>c, <1>b, TokensFrame, Zenon DEF RefusesCall, CallersOK
<1>1. CASE bootstrap_admin(c)
  <2>1. w.target \in Users
    BY <1>1, <1>a, Zenon DEF bootstrap_admin, CallAt
  <2>2. CASE /\ users' = [users EXCEPT ![w.target].role = "admin", ![w.target].active = TRUE]
             /\ HasUnissued(credentials) /\ credentials' = WithIssued(credentials, w.target)
             /\ CallDone(c) /\ refused' = refused
    <3>1. users' = [v \in Users |-> users'[v]]
      BY <2>1, <2>2, Zenon DEF TokenInv, IdentityTypes
    <3>2. users'[w.target].active /\ \A v \in Users : users[v].active => users'[v].active
      BY <2>1, <2>2 DEF TokenInv, IdentityTypes
    <3>3. QED
      BY <1>b, <2>1, <2>2, <3>1, <3>2, IssuedPreserves, Zenon DEF CallersOK
  <2>3. QED
    BY <1>1, <1>c, <2>2, Zenon DEF bootstrap_admin, w
<1>2. CASE create_member(c)
  <2>1. w.target \in Users
    BY <1>2, <1>a, Zenon DEF create_member, CallAt
  <2>2. CASE /\ ~UserExists(w.target) /\ CallDone(c)
             /\ users' = [users EXCEPT ![w.target] =
                            [role |-> "member", active |-> TRUE, must_change |-> TRUE]]
             /\ credentials' = credentials /\ refused' = refused
    <3>1. users' = [v \in Users |-> users'[v]]
      BY <2>1, <2>2, Zenon DEF TokenInv, IdentityTypes
    <3>2. \A v \in Users : users[v].active => users'[v].active
      BY <2>1, <2>2, Zenon DEF TokenInv, IdentityTypes
    <3>3. QED
      BY <1>b, <2>2, <3>1, <3>2, Zenon
         DEF CallersOK, TokenInv, IdentityTypes, LiveHasActiveUser, RefusedIsRevoked
  <2>3. QED
    BY <1>2, <1>c, <2>2, Zenon DEF create_member, w
<1>3. CASE enable_managed(c)
  BY <1>3, <1>b, TokensFrame, Zenon DEF enable_managed, CallersOK
<1>4. ASSUME NEW enabled \in BOOLEAN, set_user_enabled(c, enabled)
      PROVE  TokenInv'
  <2>1. w.target \in Users
    BY <1>4, <1>a, Zenon DEF set_user_enabled, CallAt
  <2>2. CASE /\ users' = [users EXCEPT ![w.target].active = enabled]
             /\ CallDoneBumping(c, w.target)
             /\ credentials' = IF enabled THEN credentials ELSE AllRevoked(credentials, w.target)
             /\ refused' = refused
    <3> DEFINE row == [users[w.target] EXCEPT !.active = enabled]
    <3>1. users' = [users EXCEPT ![w.target] = row]
      BY <2>1, <2>2, Zenon DEF TokenInv, IdentityTypes
    <3>2. CASE ~enabled
      BY <1>b, <2>1, <2>2, <3>1, <3>2, RevokedPreserves, Zenon DEF CallersOK
    <3>3. CASE enabled
      <4>1. \A v \in Users : users[v].active => users'[v].active
        BY <2>1, <2>2, <3>3 DEF TokenInv, IdentityTypes
      <4>2. QED
        BY <1>b, <2>1, <2>2, <3>1, <3>3, <4>1, Zenon
           DEF CallersOK, TokenInv, IdentityTypes, LiveHasActiveUser, RefusedIsRevoked
    <3>4. QED
      BY <3>2, <3>3, Zenon
  <2>3. QED
    BY <1>4, <1>c, <2>2, Zenon DEF set_user_enabled, w
<1>5. ASSUME NEW m \in BOOLEAN, w.target \in Users, ReplacesPassword(c, w.target, m),
             refused' = refused
      PROVE  TokenInv'
  <2> DEFINE row == [users[w.target] EXCEPT !.must_change = m]
  <2>1. users' = [users EXCEPT ![w.target] = row]
    BY <1>5, Zenon DEF TokenInv, IdentityTypes, ReplacesPassword
  <2>2. QED
    BY <1>b, <1>5, <2>1, RevokedPreserves, Zenon DEF CallersOK, ReplacesPassword
<1>6. CASE admin_reset_password(c)
  BY <1>6, <1>a, <1>c, <1>5, Zenon DEF admin_reset_password, CallAt, w
<1>7. CASE reset_password(c)
  BY <1>7, <1>a, <1>c, <1>5, Zenon DEF reset_password, CallAt, w
<1>8. CASE password_change(c)
  <2>1. CASE CallDone(c)
    BY <1>8, <2>1, <1>b, TokensFrame, Zenon DEF password_change, CallersOK
  <2>2. CASE callers' = [callers EXCEPT ![c] = [@ EXCEPT !.op = "reset", !.at = "hash"]]
    BY <1>8, <2>2, TokensFrame DEF password_change, CallAt, TokenInv, IdentityTypes
  <2>3. QED
    BY <1>8, <2>1, <2>2, Zenon DEF password_change
<1>9. CASE issue_api_token(c)
  <2>1. w.target \in Users
    BY <1>9, <1>a, Zenon DEF issue_api_token, CallAt
  <2>2. CASE /\ ActorOwnsToken(w)
             /\ HasUnissued(credentials) /\ credentials' = WithIssued(credentials, w.target)
             /\ CallDone(c) /\ users' = users /\ refused' = refused
    <3>1. users'[w.target].active
      BY <2>2, Zenon DEF ActorOwnsToken
    <3>2. users' = [v \in Users |-> users'[v]]
      BY <2>2, Zenon DEF TokenInv, IdentityTypes
    <3>3. QED
      BY <1>b, <2>1, <2>2, <3>1, <3>2, IssuedPreserves, Zenon DEF CallersOK
  <2>3. QED
    BY <1>9, <1>c, <2>2, Zenon DEF issue_api_token, w
<1>10. CASE revoke_user_credential(c)
  <2>1. ASSUME NEW t \in Tokens, credentials[t] = [user |-> w.target, live |-> TRUE],
               credentials' = [credentials EXCEPT ![t].live = FALSE],
               CallDone(c), users' = users, refused' = refused
        PROVE  TokenInv'
    <3>1. /\ DOMAIN credentials' = DOMAIN credentials
          /\ \A x \in Tokens : x # t => credentials'[x] = credentials[x]
          /\ credentials'[t].user = w.target /\ ~credentials'[t].live
      BY <2>1 DEF TokenInv, IdentityTypes
    <3>2. w.target \in Users
      BY <1>10, <1>a, Zenon DEF revoke_user_credential, CallAt
    <3>3. IdentityTypes'
      BY <1>b, <2>1, <3>1, <3>2, Zenon DEF CallersOK, TokenInv, IdentityTypes
    <3>4. LiveHasActiveUser'
      BY <2>1, <3>1, Zenon DEF TokenInv, IdentityTypes, LiveHasActiveUser
    <3>5. RefusedIsRevoked'
      <4>1. credentials'[t] # NoRow /\ ~credentials'[t].live
        BY <3>1, <3>2, IdentityAssumption DEF NoRow
      <4>2. \A x \in Tokens : x # t => credentials'[x] = credentials[x]
        BY <3>1, Zenon
      <4>3. \A i \in 1..Len(refused) : refused[i] \in Tokens
        BY DEF TokenInv, IdentityTypes
      <4>4. QED
        BY <2>1, <4>1, <4>2, <4>3 DEF TokenInv, RefusedIsRevoked
    <3>6. QED
      BY <3>3, <3>4, <3>5, Zenon DEF TokenInv
  <2>2. QED
    BY <1>10, <1>c, <2>1, Zenon DEF revoke_user_credential, w
<1>11. CASE revoke_api_tokens(c)
  <2>1. w.target \in Users
    BY <1>11, <1>a, Zenon DEF revoke_api_tokens, CallAt
  <2>2. CASE /\ credentials' = AllRevoked(credentials, w.target)
             /\ CallDone(c) /\ users' = users /\ refused' = refused
    <3>1. users' = [users EXCEPT ![w.target] = users[w.target]]
      BY <2>1, <2>2, Zenon DEF TokenInv, IdentityTypes
    <3>2. QED
      BY <1>b, <2>1, <2>2, <3>1, RevokedPreserves, Zenon DEF CallersOK
  <2>3. QED
    BY <1>11, <1>c, <2>2, Zenon DEF revoke_api_tokens, w
<1>12. CASE login_submit(c) \/ logout_submit(c)
  BY <1>12, <1>b, TokensFrame, Zenon DEF login_submit, logout_submit, CallersOK
<1>13. QED
  BY <1>1, <1>2, <1>3, <1>4, <1>6, <1>7, <1>8, <1>9, <1>10, <1>11, <1>12, Zenon DEF CallerCommits

\* What remember_failed_token leaves in the list: the token it was called
\* with, and tokens that were there before.
LEMMA RememberedAre ==
  ASSUME refused \in Seq(Tokens), NEW t \in Tokens, remember_failed_token(t)
  PROVE  /\ refused' \in Seq(Tokens)
         /\ \A j \in 1..Len(refused') :
              refused'[j] = t \/ \E i \in 1..Len(refused) : refused'[j] = refused[i]
<1> DEFINE k == CHOOSE i \in 1..Len(refused) : refused[i] = t
<1> DEFINE others == IF RecentlyRefused(t)
                       THEN SubSeq(refused, 1, k - 1) \o SubSeq(refused, k + 1, Len(refused))
                       ELSE refused
<1> DEFINE room == IF Len(others) = FAILED_TOKEN_CAPACITY THEN Tail(others) ELSE others
<1>1. /\ others \in Seq(Tokens)
      /\ \A j \in 1..Len(others) : \E i \in 1..Len(refused) : others[j] = refused[i]
  <2>1. CASE RecentlyRefused(t)
    <3>1. k \in 1..Len(refused)
      BY <2>1, Zenon DEF RecentlyRefused
    <3> HIDE DEF k
    <3>2. others = SubSeq(refused, 1, k - 1) \o SubSeq(refused, k + 1, Len(refused))
      BY <2>1, Zenon
    <3>3. /\ SubSeq(refused, 1, k - 1) \in Seq(Tokens)
          /\ Len(SubSeq(refused, 1, k - 1)) = k - 1
          /\ \A j \in 1..(k - 1) : SubSeq(refused, 1, k - 1)[j] = refused[j]
      BY <3>1, SMTT(60)
    <3>4. /\ SubSeq(refused, k + 1, Len(refused)) \in Seq(Tokens)
          /\ Len(SubSeq(refused, k + 1, Len(refused))) = Len(refused) - k
          /\ \A j \in 1..(Len(refused) - k) :
                SubSeq(refused, k + 1, Len(refused))[j] = refused[k + j]
      BY <3>1, SMTT(60)
    <3> DEFINE a == SubSeq(refused, 1, k - 1)
    <3> DEFINE b == SubSeq(refused, k + 1, Len(refused))
    <3> HIDE DEF a, b, others
    <3>5. others = a \o b /\ a \in Seq(Tokens) /\ b \in Seq(Tokens)
      BY <3>2, <3>3, <3>4, Zenon DEF a, b
    <3>6. others \in Seq(Tokens) /\ Len(others) = Len(a) + Len(b)
      BY <3>5
    <3>7. ASSUME NEW j \in 1..Len(others)
          PROVE  \E i \in 1..Len(refused) : others[j] = refused[i]
      <4>1. CASE j <= Len(a)
        <5>1. others[j] = a[j] /\ j \in 1..Len(a)
          BY <3>5, <3>6, <3>7, <4>1, SMTT(60)
        <5>2. Len(a) = k - 1 /\ \A i \in 1..(k - 1) : a[i] = refused[i]
          BY <3>3, Zenon DEF a
        <5>3. j \in 1..Len(refused) /\ others[j] = refused[j]
          BY <3>1, <5>1, <5>2, SMTT(60)
        <5>4. QED
          BY <5>3, Zenon
      <4>2. CASE j > Len(a)
        <5>1. others[j] = b[j - Len(a)] /\ j - Len(a) \in 1..Len(b)
          BY <3>5, <3>6, <3>7, <4>2, SMTT(60)
        <5>2. Len(b) = Len(refused) - k /\ \A i \in 1..(Len(refused) - k) : b[i] = refused[k + i]
          BY <3>4, Zenon DEF b
        <5>3. /\ k + (j - Len(a)) \in 1..Len(refused)
              /\ others[j] = refused[k + (j - Len(a))]
          BY <3>1, <5>1, <5>2, SMTT(60)
        <5>4. QED
          BY <5>3, Zenon
      <4>3. Len(a) \in Nat /\ j \in Nat
        BY <3>5, <3>6, <3>7
      <4>4. j <= Len(a) \/ j > Len(a)
        <5> HIDE DEF a, b, others
        <5>1. QED
          BY <4>3, SMT
      <4>5. QED
        BY <4>1, <4>2, <4>4, Zenon
    <3>8. QED
      BY <3>6, <3>7, Zenon
  <2>2. CASE ~RecentlyRefused(t)
    BY <2>2, Zenon
  <2>3. QED
    BY <2>1, <2>2, Zenon
<1> HIDE DEF others
<1>2. /\ room \in Seq(Tokens)
      /\ \A j \in 1..Len(room) : \E i \in 1..Len(refused) : room[j] = refused[i]
  <2>1. CASE Len(others) = FAILED_TOKEN_CAPACITY
    <3>1. others # <<>>
      BY <1>1, <2>1, IdentityAssumption, Zenon
    <3>2. /\ Tail(others) \in Seq(Tokens) /\ Len(Tail(others)) = Len(others) - 1
          /\ \A j \in 1..(Len(others) - 1) : Tail(others)[j] = others[j + 1]
      BY <1>1, <3>1, SMTT(60)
    <3>3. ASSUME NEW j \in 1..Len(room)
          PROVE  \E i \in 1..Len(refused) : room[j] = refused[i]
      <4>1. j \in 1..(Len(others) - 1) /\ j + 1 \in 1..Len(others)
        BY <1>1, <2>1, <3>1, <3>2
      <4>2. room[j] = others[j + 1]
        BY <2>1, <3>2, <4>1, Zenon
      <4>3. QED
        BY <1>1, <4>1, <4>2, Zenon
    <3>4. QED
      BY <2>1, <3>2, <3>3, Zenon
  <2>2. QED
    BY <1>1, <2>1, Zenon
<1>3. refused' = Append(room, t)
  BY Zenon DEF remember_failed_token, others, room, k
<1> HIDE DEF room
<1>4. QED
  BY <1>2, <1>3, SMTT(60)

\* A token that verification refuses is one whose row is revoked.
LEMMA VerifyPreserves ==
  ASSUME TokenInv, NEW t \in Tokens, verify_api_token(t)
  PROVE  TokenInv'
<1>1. UNCHANGED <<users, credentials, callers>>
  BY Zenon DEF verify_api_token
<1>2. CASE UNCHANGED refused
  BY <1>1, <1>2, TokensFrame, Zenon DEF TokenInv, IdentityTypes
<1>3. CASE ~TokenIsLive(t) /\ remember_failed_token(t)
  <2>1. credentials[t] # NoRow /\ ~credentials[t].live
    BY <1>3, Zenon DEF verify_api_token, TokenIsLive, TokenInv, LiveHasActiveUser
  <2>2. /\ refused' \in Seq(Tokens)
        /\ \A j \in 1..Len(refused') :
              refused'[j] = t \/ \E i \in 1..Len(refused) : refused'[j] = refused[i]
    BY <1>3, RememberedAre, Zenon DEF TokenInv, IdentityTypes
  <2>3. RefusedIsRevoked'
    BY <1>1, <2>1, <2>2, Zenon DEF TokenInv, RefusedIsRevoked
  <2>4. IdentityTypes' /\ LiveHasActiveUser'
    BY <1>1, <2>2, Zenon DEF TokenInv, IdentityTypes, LiveHasActiveUser
  <2>5. QED
    BY <2>3, <2>4, Zenon DEF TokenInv
<1>4. QED
  BY <1>2, <1>3, Zenon DEF verify_api_token

\* The oldest refusal is forgotten.
LEMMA ExpiryPreserves ==
  ASSUME TokenInv, RefusalExpires
  PROVE  TokenInv'
<1>1. /\ refused' \in Seq(Tokens) /\ Len(refused') = Len(refused) - 1
      /\ \A j \in 1..Len(refused') : refused'[j] = refused[j + 1]
  BY SMTT(60) DEF RefusalExpires, TokenInv, IdentityTypes
<1>2. ASSUME NEW j \in 1..Len(refused')
      PROVE  credentials'[refused'[j]] # NoRow /\ ~credentials'[refused'[j]].live
  <2>1. Len(refused) \in Nat /\ Len(refused') \in Nat
    BY <1>1 DEF TokenInv, IdentityTypes
  <2>2. j + 1 \in 1..Len(refused) /\ refused'[j] = refused[j + 1]
    BY <1>1, <2>1
  <2>3. QED
    BY <2>2, Zenon DEF RefusalExpires, TokenInv, RefusedIsRevoked
<1>3. QED
  BY <1>1, <1>2, Zenon DEF RefusalExpires, TokenInv, IdentityTypes, LiveHasActiveUser, RefusedIsRevoked

\* Every step preserves the invariant.
LEMMA TokenInvStep ==
  ASSUME TokenInv, [IdentityNext]_identityVars
  PROVE  TokenInv'
<1>1. CASE UNCHANGED identityVars
  BY <1>1, TokensFrame, Zenon DEF identityVars, TokenInv, IdentityTypes
<1>2. CASE mark_fresh_uninitialized \/ \E s \in Sessions : SessionExpires(s)
  BY <1>2, TokensFrame, Zenon DEF mark_fresh_uninitialized, SessionExpires, TokenInv, IdentityTypes
<1>3. ASSUME NEW c \in UserCommands, NEW op \in CommandOps,
             NEW actor \in Users \cup {NoUser}, NEW target \in Users,
             StartCommand(c, op, actor, target)
      PROVE  TokenInv'
  BY <1>3, CallStartsPreserves, Zenon DEF StartCommand, IdentityCallers
<1>4. ASSUME NEW c \in Pages, NEW s \in Sessions, NEW op \in PageOps, NEW target \in Users,
             StartPage(c, s, op, target)
      PROVE  TokenInv'
  BY <1>4, CallStartsPreserves, Zenon DEF StartPage, IdentityCallers
<1>5. ASSUME NEW c \in Pages, NEW u \in Users, StartLogin(c, u)
      PROVE  TokenInv'
  BY <1>5, CallStartsPreserves, Zenon DEF StartLogin, IdentityCallers
<1>6. QED
  BY <1>1, <1>2, <1>3, <1>4, <1>5, HashStepPreserves, CommitPreserves, VerifyPreserves,
     ExpiryPreserves, Zenon DEF IdentityNext

\* A token found among the refused ones is one the database would refuse too,
\* for any users, sessions, callers and capacity of the list: the list may
\* answer for the database until a refusal is forgotten
\* (verify_api_token_principal, FAILED_TOKEN_DIGESTS).
THEOREM RefusalsArePermanentHolds == IdentitySpec => []RefusalsArePermanent
<1>1. IdentityInit => TokenInv
  BY IdentityAssumption
     DEF IdentityInit, NoRow, NoCall, TokenInv, IdentityTypes, LiveHasActiveUser, RefusedIsRevoked
<1>2. TokenInv /\ [IdentityNext]_identityVars => TokenInv'
  BY TokenInvStep, Zenon
<1>3. TokenInv => RefusalsArePermanent
  BY Zenon DEF TokenInv, RefusedIsRevoked, RefusalsArePermanent, TokenIsLive
<1>4. QED
  BY <1>1, <1>2, <1>3, PTL DEF IdentitySpec

-----------------------------------------------------------------------------
(* Policies (ModelPolicy).  A policy in the cache, or in the hands of a    *)
(* request about to put it there, was read at some revision; while that    *)
(* revision is the present one the policy is what the rows say, because    *)
(* no row changes without raising the revision.                            *)

\* A policy of a member that was read at a revision.
ReadAt(rev, u, policy) ==
    /\ rev \in Nat /\ rev <= revision
    /\ rev = revision => memberActive[u] /\ policy = PolicyOf(u)

PolicyInv ==
    /\ revision \in Nat
    /\ snapshots = [u \in Members |-> snapshots[u]]
    /\ readers = [r \in Readers |-> readers[r]]
    /\ \A u \in Members : snapshots[u] # Nothing =>
          ReadAt(snapshots[u].revision, u, snapshots[u].policy)
    /\ \A r \in Readers :
          /\ readers[r].kind \in {"check", "load", "store"} => readers[r].user \in Members
          /\ readers[r].kind = "store" =>
                ReadAt(readers[r].revision, readers[r].user, readers[r].policy)

\* Whatever a change writes, it raises the revision over those of all readers.
LEMMA RevisePreserves ==
  ASSUME PolicyInv, Revise
  PROVE  PolicyInv'
  BY DEF PolicyInv, Revise, ReadAt

\* Steps that write no row of the policy.
LEMMA ReadAtFrame ==
  ASSUME NEW rev, NEW u, NEW policy, ReadAt(rev, u, policy), UNCHANGED <<policyRows, revision>>
  PROVE  ReadAt(rev, u, policy)'
<1>1. PolicyOf(u)' = PolicyOf(u)
  BY Zenon DEF PolicyOf, policyRows
<1>2. QED
  BY <1>1, Zenon DEF ReadAt, policyRows

LEMMA PolicyFrame ==
  ASSUME PolicyInv, UNCHANGED <<policyRows, revision, snapshots, readers>>
  PROVE  PolicyInv'
  BY ReadAtFrame, Zenon DEF PolicyInv

\* Every change of the policy raises the revision or writes nothing.
LEMMA ChangesRevise ==
  ASSUME \/ \E p \in Profiles : ProfileCommand(p)
         \/ ToolPolicyCommand
         \/ DefaultsCommand
         \/ \E g \in ProfilePages, p \in Profiles : ProfilePage(g, p)
         \/ \E u \in Members : UserPolicyPage(u) \/ SetMemberState(u)
         \/ \E k \in RuleKeys, isDenied \in BOOLEAN : set_instance_denial(k, isDenied)
  PROVE  Revise \/ UNCHANGED <<policyRows, revision, snapshots, readers>>
<1> DEFINE Same == UNCHANGED <<policyRows, revision, snapshots, readers>>
<1>1. ASSUME NEW p, NEW e, NEW k, NEW x,
             \/ create_profile(p, e) \/ set_profile_rule(p, k, e) \/ assign_profile(x, p)
             \/ set_profile_preference(p, x) \/ set_tool_profile_rule(p, e, x)
             \/ remove_profile_rule(p, k) \/ set_default_member_profile(p)
      PROVE  Revise
  BY <1>1, Zenon
     DEF create_profile, set_profile_rule, assign_profile, set_profile_preference,
         set_tool_profile_rule, remove_profile_rule, set_default_member_profile
<1>2. ASSUME NEW u, NEW k, NEW x,
             set_user_override(u, k, x) \/ set_instance_denial(k, x) \/ SetMemberState(u)
      PROVE  Revise
  BY <1>2, Zenon DEF set_user_override, set_instance_denial, SetMemberState
<1>3. ASSUME NEW g, NEW e, update_profile(g, e)
      PROVE  Revise \/ Same
  BY <1>3, Zenon DEF update_profile, policyRows
<1>4. ASSUME NEW g, delete_profile(g)
      PROVE  Revise \/ Same
  BY <1>4, Zenon DEF delete_profile, policyRows
<1>5. ASSUME NEW g, NEW p, RenderForm(g, p)
      PROVE  Same
  BY <1>5, Zenon DEF RenderForm
<1> HIDE DEF Same
<1>6. CASE \E p \in Profiles : ProfileCommand(p)
  BY <1>1, <1>6, Zenon DEF ProfileCommand
<1>7. CASE ToolPolicyCommand
  BY <1>1, <1>2, <1>7, Zenon DEF ToolPolicyCommand
<1>8. CASE DefaultsCommand
  BY <1>1, <1>8, Zenon DEF DefaultsCommand
<1>9. CASE \E g \in ProfilePages, p \in Profiles : ProfilePage(g, p)
  <2>1. PICK g \in ProfilePages, p \in Profiles : ProfilePage(g, p)
    BY <1>9, Zenon
  <2>2. CASE \E k \in RuleKeys : remove_profile_rule(p, k)
    BY <2>2, Zenon DEF remove_profile_rule
  <2>3. CASE RenderForm(g, p) \/ delete_profile(g) \/ \E e \in Effects : update_profile(g, e)
    BY <1>3, <1>4, <1>5, <2>3, Zenon DEF Same
  <2>4. QED
    BY <2>1, <2>2, <2>3, Zenon DEF ProfilePage
<1>10. CASE \E u \in Members : UserPolicyPage(u) \/ SetMemberState(u)
  BY <1>2, <1>10, Zenon DEF UserPolicyPage
<1>11. QED
  BY <1>2, <1>6, <1>7, <1>8, <1>9, <1>10, Zenon DEF Same

\* A request reads the revision, looks in the cache, or reads the policy.
LEMMA ReaderPreserves ==
  ASSUME PolicyInv, NEW r \in Readers,
         \/ \E u \in Members : ReadRevision(r, u)
         \/ CheckSnapshot(r) \/ LoadSnapshot(r)
  PROVE  PolicyInv'
<1>1. UNCHANGED <<policyRows, revision, snapshots>>
  BY Zenon DEF ReadRevision, CheckSnapshot, LoadSnapshot
<1>2. /\ readers' = [q \in Readers |-> readers'[q]]
      /\ \A q \in Readers : q # r => readers'[q] = readers[q]
  BY Zenon DEF ReadRevision, CheckSnapshot, LoadSnapshot, PolicyInv
<1>3. /\ readers'[r].kind \in {"check", "load", "store"} => readers'[r].user \in Members
      /\ readers'[r].kind = "store" =>
            ReadAt(readers'[r].revision, readers'[r].user, readers'[r].policy)
  <2>1. CASE \E u \in Members : ReadRevision(r, u)
    BY <2>1 DEF ReadRevision, PolicyInv
  <2>2. CASE CheckSnapshot(r)
    BY <2>2, Zenon DEF CheckSnapshot, PolicyInv, Nothing
  <2>3. CASE LoadSnapshot(r)
    <3> DEFINE u == readers[r].user
    <3> DEFINE policy == PolicyOf(u)
    <3>1. u \in Members
      BY <2>3, Zenon DEF LoadSnapshot, PolicyInv
    <3> HIDE DEF policy
    <3>2. readers' = [readers EXCEPT ![r] =
                        IF ~memberActive[u] THEN Nothing
                        ELSE [kind |-> "store", user |-> u, revision |-> revision,
                              policy |-> policy]]
      BY <2>3, Zenon DEF LoadSnapshot, policy
    <3>3. CASE memberActive[u]
      <4>1. /\ readers'[r].kind = "store" /\ readers'[r].user = u
            /\ readers'[r].revision = revision /\ readers'[r].policy = policy
        BY <3>2, <3>3, Zenon DEF PolicyInv
      <4>2. QED
        BY <3>1, <3>3, <4>1 DEF PolicyInv, ReadAt, policy
    <3>4. CASE ~memberActive[u]
      BY <3>2, <3>4, Zenon DEF PolicyInv, Nothing
    <3>5. QED
      BY <3>3, <3>4, Zenon
  <2>4. QED
    BY <2>1, <2>2, <2>3, Zenon
<1>4. QED
  BY <1>1, <1>2, <1>3, ReadAtFrame, Zenon DEF PolicyInv

\* A request puts the policy it read into the cache, possibly in place of another member's.
LEMMA StorePreserves ==
  ASSUME PolicyInv, NEW r \in Readers, StoreSnapshot(r)
  PROVE  PolicyInv'
<1> DEFINE u == readers[r].user
<1> DEFINE stored == [kind |-> "snapshot", revision |-> readers[r].revision,
                      policy |-> readers[r].policy]
<1>1. u \in Members /\ ReadAt(stored.revision, u, stored.policy)
  BY Zenon DEF StoreSnapshot, PolicyInv
<1>2. /\ UNCHANGED <<policyRows, revision>>
      /\ readers' = [readers EXCEPT ![r] = Nothing]
      /\ \/ snapshots' = [snapshots EXCEPT ![u] = stored]
         \/ \E v \in Members : snapshots' = [snapshots EXCEPT ![v] = Nothing, ![u] = stored]
  BY Zenon DEF StoreSnapshot
<1> HIDE DEF u, stored
<1>3. /\ snapshots' = [v \in Members |-> snapshots'[v]]
      /\ snapshots'[u] = stored
      /\ \A v \in Members : v # u => snapshots'[v] = snapshots[v] \/ snapshots'[v] = Nothing
  BY <1>1, <1>2, Zenon DEF PolicyInv
<1>4. \A v \in Members : snapshots'[v] # Nothing =>
         ReadAt(snapshots'[v].revision, v, snapshots'[v].policy)
  BY <1>1, <1>3, Zenon DEF PolicyInv
<1>5. /\ readers' = [q \in Readers |-> readers'[q]]
      /\ readers'[r].kind = "none"
      /\ \A q \in Readers : q # r => readers'[q] = readers[q]
  BY <1>2, Zenon DEF PolicyInv, Nothing
<1>6. QED
  BY <1>2, <1>3, <1>4, <1>5, ReadAtFrame, Zenon DEF PolicyInv

\* A policy the cache hands out for the present revision decides as the
\* database does, for any members, profiles, concurrent requests, pages and
\* capacity of the cache, evictions included (ModelPolicyService::snapshot and
\* the triggers that raise policy_state.revision).
THEOREM CachedPolicyIsCurrentHolds == PolicySpec => []CachedPolicyIsCurrent
<1>1. PolicyInit => PolicyInv
  BY DEF PolicyInit, PolicyInv, Nothing
<1>2. ASSUME PolicyInv, [PolicyNext]_policyVars PROVE PolicyInv'
  <2>1. CASE UNCHANGED policyVars
    BY <1>2, <2>1, PolicyFrame, Zenon DEF policyVars
  <2>2. CASE \E r \in Readers : PolicyReader(r)
    BY <1>2, <2>2, ReaderPreserves, StorePreserves, Zenon DEF PolicyReader
  <2>3. CASE Revise \/ UNCHANGED <<policyRows, revision, snapshots, readers>>
    BY <1>2, <2>3, RevisePreserves, PolicyFrame, Zenon
  <2>4. QED
    BY <1>2, <2>1, <2>2, <2>3, ChangesRevise, Zenon DEF PolicyNext
<1>3. PolicyInv => CachedPolicyIsCurrent
  <2> SUFFICES ASSUME PolicyInv, NEW u \in Members,
                      snapshots[u] # Nothing, snapshots[u].revision = revision
               PROVE  snapshots[u].policy = PolicyOf(u) /\ PolicyOf(u) # Nothing
    BY Zenon DEF CachedPolicyIsCurrent
  <2>1. memberActive[u] /\ snapshots[u].policy = PolicyOf(u)
    BY Zenon DEF PolicyInv, ReadAt
  <2>2. PolicyOf(u).kind = "policy"
    BY <2>1, Zenon DEF PolicyOf
  <2>3. QED
    BY <2>1, <2>2 DEF Nothing
<1>4. QED
  BY <1>1, <1>2, <1>3, PTL DEF PolicySpec

-----------------------------------------------------------------------------
(* The catalog (CatalogRefresh).                                           *)

CacheRecords ==
    [support: [Models -> SUBSET CatalogAccounts], keys: [CatalogAccounts -> SUBSET Models],
     contracts: SUBSET (Models \X CatalogProviders), models: SUBSET Models,
     fresh: SUBSET CatalogAccounts]

\* Support rests on a key of the account, and a key on its provider's contract
\* and on the model.
Backed(c) ==
    /\ \A m \in Models : \A a \in c.support[m] : m \in c.keys[a]
    /\ \A a \in CatalogAccounts : \A m \in c.keys[a] :
          <<m, ProviderOf(a)>> \in c.contracts /\ m \in c.models

CatalogInv ==
    /\ cache \in [Services -> CacheRecords]
    /\ \A s \in Services : Backed(cache[s])
    /\ durable.models \subseteq Models

LEMMA Provided == ASSUME NEW a PROVE ProviderOf(a) \in CatalogProviders
BY Zenon DEF ProviderOf, CatalogProviders

\* What a merge makes of a cache.
MergeOf(n, c, A, L) ==
    /\ n \in CacheRecords
    /\ \A a \in CatalogAccounts \ A : n.keys[a] = c.keys[a]
    /\ \A a \in A : n.keys[a] = c.keys[a] \cup L[a]
    /\ n.contracts = c.contracts \cup {k \in Models \X CatalogProviders :
           \E a \in A : k[1] \in L[a] /\ k[2] = ProviderOf(a)}
    /\ n.models = c.models \cup UNION {L[a] : a \in A}
    /\ \A m \in Models : n.support[m] = c.support[m] \cup {a \in A : m \in L[a]}

LEMMA MergedIs ==
    ASSUME NEW c \in CacheRecords, NEW A \in SUBSET CatalogAccounts,
           NEW L \in [A -> SUBSET Models]
    PROVE  MergeOf(MergedAll(c, A, L), c, A, L)
<1> DEFINE K == [a \in CatalogAccounts |-> IF a \in A THEN c.keys[a] \cup L[a] ELSE c.keys[a]]
           C == c.contracts \cup {k \in Models \X CatalogProviders :
                  \E a \in A : k[1] \in L[a] /\ k[2] = ProviderOf(a)}
           M == c.models \cup UNION {L[a] : a \in A}
           S == [m \in Models |-> c.support[m] \cup {a \in A : m \in L[a]}]
           n == MergedAll(c, A, L)
<1>1. n = [c EXCEPT !.keys = K, !.contracts = C, !.models = M, !.support = S]
  BY Zenon DEF MergedAll
<1>2. /\ K \in [CatalogAccounts -> SUBSET Models] /\ C \in SUBSET (Models \X CatalogProviders)
      /\ M \in SUBSET Models /\ S \in [Models -> SUBSET CatalogAccounts]
  <2>1. \A a \in A : L[a] \subseteq Models
    BY Zenon
  <2>2. /\ c.keys \in [CatalogAccounts -> SUBSET Models]
        /\ c.contracts \in SUBSET (Models \X CatalogProviders)
        /\ c.models \in SUBSET Models /\ c.support \in [Models -> SUBSET CatalogAccounts]
    BY Zenon DEF CacheRecords
  <2>3. K \in [CatalogAccounts -> SUBSET Models]
    BY <2>1, <2>2, Zenon
  <2>4. C \in SUBSET (Models \X CatalogProviders)
    BY <2>2, Zenon
  <2>5. M \in SUBSET Models
    BY <2>1, <2>2, Zenon
  <2>6. S \in [Models -> SUBSET CatalogAccounts]
    BY <2>1, <2>2, Zenon
  <2>7. QED
    BY <2>3, <2>4, <2>5, <2>6
<1>3. /\ \A a \in CatalogAccounts \ A : K[a] = c.keys[a]
      /\ \A a \in A : K[a] = c.keys[a] \cup L[a]
      /\ \A m \in Models : S[m] = c.support[m] \cup {a \in A : m \in L[a]}
  BY Zenon
<1>4. /\ n \in CacheRecords /\ n.keys = K /\ n.contracts = C /\ n.models = M /\ n.support = S
  <2> HIDE DEF K, C, M, S, n
  <2>1. QED
    BY <1>1, <1>2, Zenon DEF CacheRecords
<1>5. QED
  <2> HIDE DEF n
  <2>1. MergeOf(n, c, A, L)
    BY <1>3, <1>4, Zenon DEF MergeOf
  <2>2. QED
    BY <2>1, Zenon DEF n

LEMMA MergedIsBacked ==
    ASSUME NEW c \in CacheRecords, NEW A \in SUBSET CatalogAccounts,
           NEW L \in [A -> SUBSET Models], Backed(c)
    PROVE  MergedAll(c, A, L) \in CacheRecords /\ Backed(MergedAll(c, A, L))
<1> DEFINE n == MergedAll(c, A, L)
<1>1. MergeOf(n, c, A, L)
  BY MergedIs, Zenon
<1> HIDE DEF n
<1>2. ASSUME NEW m \in Models, NEW a \in n.support[m] PROVE m \in n.keys[a]
  <2>1. a \in c.support[m] \/ (a \in A /\ m \in L[a])
    BY <1>1, <1>2, Zenon DEF MergeOf
  <2>2. a \in CatalogAccounts
    BY <1>1, <1>2, Zenon DEF MergeOf, CacheRecords
  <2>3. a \in c.support[m] => m \in c.keys[a]
    BY Zenon DEF Backed
  <2>4. QED
    BY <1>1, <2>1, <2>2, <2>3, Zenon DEF MergeOf
<1>3. ASSUME NEW a \in CatalogAccounts, NEW m \in n.keys[a]
      PROVE  <<m, ProviderOf(a)>> \in n.contracts /\ m \in n.models
  <2>1. CASE m \in c.keys[a]
    BY <1>1, <2>1, Zenon DEF Backed, MergeOf
  <2>2. CASE a \in A /\ m \in L[a]
    <3>1. m \in Models /\ <<m, ProviderOf(a)>> \in Models \X CatalogProviders
      BY <2>2, Provided, Zenon
    <3>2. <<m, ProviderOf(a)>>[1] = m /\ <<m, ProviderOf(a)>>[2] = ProviderOf(a)
      BY Zenon
    <3>3. QED
      BY <1>1, <2>2, <3>1, <3>2 DEF MergeOf
  <2>3. m \in c.keys[a] \/ (a \in A /\ m \in L[a])
    <3>1. CASE a \in A
      BY <1>1, <1>3, <3>1, Zenon DEF MergeOf
    <3>2. CASE a \notin A
      BY <1>1, <1>3, <3>2, Zenon DEF MergeOf
    <3>3. QED
      BY <3>1, <3>2
  <2>4. QED
    BY <2>1, <2>2, <2>3, Zenon
<1>4. QED
  BY <1>1, <1>2, <1>3, Zenon DEF Backed, MergeOf, n

LEMMA EmptyIsBacked == EmptyCache \in CacheRecords /\ Backed(EmptyCache)
<1>1. EmptyCache \in CacheRecords
  BY Zenon DEF EmptyCache, CacheRecords
<1>2. /\ EmptyCache.support = [m \in Models |-> {}]
      /\ EmptyCache.keys = [a \in CatalogAccounts |-> {}]
  BY Zenon DEF EmptyCache
<1>3. QED
  BY <1>1, <1>2, Zenon DEF Backed

LEMMA StaticsAreBacked ==
    ASSUME NEW c \in CacheRecords, NEW A \in SUBSET CatalogAccounts, Backed(c)
    PROVE  WithStatics(c, A) \in CacheRecords /\ Backed(WithStatics(c, A))
<1>1. [a \in A |-> StaticOf(a)] \in [A -> SUBSET Models]
  BY Zenon DEF StaticOf
<1>2. QED
  BY <1>1, MergedIsBacked, Zenon DEF WithStatics

LEMMA SeededIsBacked ==
    ASSUME NEW rows, rows.models \subseteq Models
    PROVE  Seeded(rows) \in CacheRecords /\ Backed(Seeded(rows))
<1>1. /\ WithStatics(EmptyCache, CatalogAccounts) \in CacheRecords
      /\ Backed(WithStatics(EmptyCache, CatalogAccounts))
  BY EmptyIsBacked, StaticsAreBacked, Zenon
<1>2. /\ [a \in DefaultAccounts |-> rows.models] \in [DefaultAccounts -> SUBSET Models]
      /\ DefaultAccounts \in SUBSET CatalogAccounts
  BY Zenon DEF CatalogAccounts
<1>3. QED
  BY <1>1, <1>2, MergedIsBacked, Zenon DEF Seeded

\* An authoritative listing: a contract another account of the provider still
\* has a key for is no orphan.
LEMMA WithdrawnIsBacked ==
    ASSUME NEW c \in CacheRecords, NEW a \in CatalogAccounts, NEW l \in SUBSET Models, Backed(c)
    PROVE  WithdrawnFrom(c, a, l) \in CacheRecords /\ Backed(WithdrawnFrom(c, a, l))
<1> DEFINE S == [m \in Models |-> c.support[m] \ {a}]
           O == Orphaned(c, a, l)
           w == [c EXCEPT !.support = S, !.contracts = @ \ O, !.keys[a] = {}]
<1>1. WithdrawnFrom(c, a, l) = Merged(w, a, l)
  BY Zenon DEF WithdrawnFrom
<1>2. /\ c.keys \in [CatalogAccounts -> SUBSET Models]
      /\ c.contracts \in SUBSET (Models \X CatalogProviders)
      /\ c.support \in [Models -> SUBSET CatalogAccounts]
  BY Zenon DEF CacheRecords
<1>3. S \in [Models -> SUBSET CatalogAccounts] /\ \A m \in Models : S[m] = c.support[m] \ {a}
  BY <1>2, Zenon
<1>4. \A k \in O : \E m : k = <<m, ProviderOf(a)>> /\ m \in c.keys[a]
          /\ \A b \in CatalogAccounts \ {a} : ~(ProviderOf(b) = ProviderOf(a) /\ m \in c.keys[b])
  BY Zenon DEF Orphaned
<1>5. /\ w \in CacheRecords /\ w.support = S /\ w.contracts = c.contracts \ O
      /\ w.keys = [c.keys EXCEPT ![a] = {}] /\ w.models = c.models
  <2> HIDE DEF S, O
  <2>1. [c.keys EXCEPT ![a] = {}] \in [CatalogAccounts -> SUBSET Models]
    BY <1>2, Zenon
  <2>2. w = [c EXCEPT !.support = S, !.contracts = c.contracts \ O,
                      !.keys = [c.keys EXCEPT ![a] = {}]]
    BY Zenon DEF CacheRecords
  <2>3. c.contracts \ O \in SUBSET (Models \X CatalogProviders)
    BY <1>2, Zenon
  <2> HIDE DEF w
  <2>4. QED
    BY <1>3, <2>1, <2>2, <2>3, Zenon DEF CacheRecords
<1>6. w.keys[a] = {} /\ \A b \in CatalogAccounts \ {a} : w.keys[b] = c.keys[b]
  BY <1>2, <1>5, Zenon
<1> HIDE DEF S, O, w
<1>7. ASSUME NEW m \in Models, NEW b \in w.support[m] PROVE m \in w.keys[b]
  <2>1. b \in c.support[m] /\ b # a /\ b \in CatalogAccounts
    BY <1>2, <1>3, <1>5, <1>7
  <2>2. QED
    BY <1>6, <2>1, Zenon DEF Backed
<1>8. ASSUME NEW b \in CatalogAccounts, NEW m \in w.keys[b]
      PROVE  <<m, ProviderOf(b)>> \in w.contracts /\ m \in w.models
  <2>1. b # a /\ m \in c.keys[b]
    BY <1>6, <1>8, Zenon
  <2>2. <<m, ProviderOf(b)>> \in c.contracts /\ m \in c.models
    BY <2>1, Zenon DEF Backed
  <2>3. <<m, ProviderOf(b)>> \notin O
    BY <1>4, <2>1
  <2>4. QED
    BY <1>5, <2>2, <2>3, Zenon
<1>9. Backed(w)
  BY <1>7, <1>8, Zenon DEF Backed
<1>10. [b \in {a} |-> l] \in [{a} -> SUBSET Models] /\ {a} \in SUBSET CatalogAccounts
  BY Zenon
<1>11. QED
  BY <1>1, <1>5, <1>9, <1>10, MergedIsBacked DEF Merged

LEMMA PrunedIsBacked ==
    ASSUME NEW c \in CacheRecords, Backed(c)
    PROVE  Pruned(c) \in CacheRecords /\ Backed(Pruned(c))
<1> DEFINE M == {m \in c.models : c.support[m] # {}
                                  \/ \E p \in CatalogProviders : <<m, p>> \in c.contracts}
<1>1. Pruned(c) = [c EXCEPT !.models = M]
  BY Zenon DEF Pruned
<1>2. \A a \in CatalogAccounts : \A m \in c.keys[a] : m \in M
  BY Provided, Zenon DEF Backed
<1>3. M \in SUBSET Models
  BY Zenon DEF CacheRecords
<1> HIDE DEF M
<1>4. /\ Pruned(c) \in CacheRecords /\ Pruned(c).models = M /\ Pruned(c).support = c.support
      /\ Pruned(c).keys = c.keys /\ Pruned(c).contracts = c.contracts
  BY <1>1, <1>3, Zenon DEF CacheRecords
<1>5. QED
  BY <1>2, <1>4, Zenon DEF Backed

\* A step of one service's cache.
LEMMA CacheStep ==
    ASSUME CatalogInv, NEW s \in Services, NEW c \in CacheRecords, Backed(c),
           cache' = [cache EXCEPT ![s] = c], durable' = durable
    PROVE  CatalogInv'
BY Zenon DEF CatalogInv

LEMMA CatalogStep == ASSUME CatalogInv, [CatalogNext]_catalogVars PROVE CatalogInv'
<1>1. CASE UNCHANGED catalogVars
  BY <1>1, Zenon DEF catalogVars, CatalogInv
<1>2. ASSUME NEW s \in Services, BuildGeneration(s) PROVE CatalogInv'
  <2>1. Seeded(durable) \in CacheRecords /\ Backed(Seeded(durable))
    BY SeededIsBacked, Zenon DEF CatalogInv
  <2>2. QED
    BY <1>2, <2>1, CacheStep, Zenon DEF BuildGeneration
<1>3. ASSUME NEW s \in Services, BeginRefresh(s) PROVE CatalogInv'
  <2>1. PICK A \in SUBSET CatalogAccounts : cache' = [cache EXCEPT ![s] = WithStatics(@, A)]
    BY <1>3, Zenon DEF BeginRefresh
  <2>2. cache' = [cache EXCEPT ![s] = WithStatics(cache[s], A)]
    BY <2>1, Zenon DEF CatalogInv
  <2>3. cache[s] \in CacheRecords /\ Backed(cache[s])
    BY Zenon DEF CatalogInv
  <2>4. QED
    BY <1>3, <2>2, <2>3, StaticsAreBacked, CacheStep, Zenon DEF BeginRefresh
<1>4. ASSUME NEW s \in Services, NEW a \in CatalogAccounts, NEW l \in Listings,
             ApplyListing(s, a, l)
      PROVE  CatalogInv'
  <2> DEFINE u == IF withdraws /\ Outcome(l) = "SuccessAuthoritative"
                  THEN WithdrawnFrom(cache[s], a, l.models) ELSE Merged(cache[s], a, l.models)
             f == [Pruned(u) EXCEPT !.fresh = @ \cup {a}]
  <2>1. cache' = [cache EXCEPT ![s] = f] /\ durable' = durable
    BY <1>4, Zenon DEF ApplyListing
  <2>2. cache[s] \in CacheRecords /\ Backed(cache[s]) /\ l.models \in SUBSET Models
    BY Zenon DEF CatalogInv, Listings
  <2>3. u \in CacheRecords /\ Backed(u)
    <3>1. [b \in {a} |-> l.models] \in [{a} -> SUBSET Models] /\ {a} \in SUBSET CatalogAccounts
      BY <2>2, Zenon
    <3>2. Merged(cache[s], a, l.models) \in CacheRecords /\ Backed(Merged(cache[s], a, l.models))
      BY <2>2, <3>1, MergedIsBacked, Zenon DEF Merged
    <3>3. QED
      BY <2>2, <3>2, WithdrawnIsBacked, Zenon
  <2> HIDE DEF u
  <2>4. Pruned(u) \in CacheRecords /\ Backed(Pruned(u))
    BY <2>3, PrunedIsBacked, Zenon
  <2>5. /\ f \in CacheRecords /\ f.support = Pruned(u).support /\ f.keys = Pruned(u).keys
        /\ f.contracts = Pruned(u).contracts /\ f.models = Pruned(u).models
    BY <2>4, Zenon DEF CacheRecords
  <2> HIDE DEF f
  <2>6. Backed(f)
    BY <2>4, <2>5, Zenon DEF Backed
  <2>7. QED
    BY <2>1, <2>5, <2>6, CacheStep, Zenon
<1>5. ASSUME NEW s \in Services, WriteBatch(s) PROVE CatalogInv'
  <2>1. cache[s].models \subseteq Models
    BY Zenon DEF CatalogInv, CacheRecords
  <2>2. Inserted(s).models \subseteq Models
    BY <2>1, Zenon DEF Inserted, Projection
  <2>3. durable'.models \subseteq durable.models \cup Inserted(s).models
    BY <1>5, Zenon DEF WriteBatch
  <2>4. QED
    BY <1>5, <2>2, <2>3, Zenon DEF WriteBatch, CatalogInv
<1>6. ASSUME NEW s \in Services,
             \/ ReadModels(s) \/ ReadContracts(s) \/ ReadSupport(s) \/ BatchFails(s)
             \/ \E a \in CatalogAccounts : ApplyFailure(s, a)
      PROVE  CatalogInv'
  BY <1>6, Zenon
     DEF ReadModels, ReadContracts, ReadSupport, BatchFails, ApplyFailure, CatalogInv
<1>7. QED
  BY <1>1, <1>2, <1>3, <1>4, <1>5, <1>6, Zenon DEF CatalogNext

\* For any accounts, models and listings, however refreshes, withdrawals and
\* rebuilds of two generations interleave: an account the cache says supports
\* a model has its provider's contract for it, and the model is a live one
\* (catalog/cache.rs: update_from_account, prune_unused).
THEOREM SupportHasContractHolds == CatalogSpec => []SupportHasContract
<1>1. CatalogInit => CatalogInv
  <2> SUFFICES ASSUME CatalogInit PROVE CatalogInv
    OBVIOUS
  <2>1. NoRows.models \subseteq Models
    BY Zenon DEF NoRows
  <2>2. Seeded(NoRows) \in CacheRecords /\ Backed(Seeded(NoRows))
    BY <2>1, SeededIsBacked, Zenon
  <2>3. QED
    BY <2>1, <2>2, Zenon DEF CatalogInit, CatalogInv
<1>2. CatalogInv /\ [CatalogNext]_catalogVars => CatalogInv'
  BY CatalogStep
<1>3. CatalogInv => SupportHasContract
  <2> SUFFICES ASSUME CatalogInv, NEW s \in Services, NEW m \in Models,
                      NEW a \in cache[s].support[m]
               PROVE  <<m, ProviderOf(a)>> \in cache[s].contracts /\ m \in cache[s].models
    BY Zenon DEF SupportHasContract
  <2> DEFINE c == cache[s]
  <2>0. c \in CacheRecords
    BY Zenon DEF CatalogInv
  <2>a. c.support \in [Models -> SUBSET CatalogAccounts]
    <3> HIDE DEF c
    <3>1. QED
      BY <2>0, Zenon DEF CacheRecords
  <2>1. a \in CatalogAccounts
    BY <2>a, Zenon
  <2>2. m \in cache[s].keys[a]
    BY Zenon DEF CatalogInv, Backed
  <2>3. QED
    BY <2>1, <2>2, Zenon DEF CatalogInv, Backed
<1>4. QED
  BY <1>1, <1>2, <1>3, PTL DEF CatalogSpec
=============================================================================
