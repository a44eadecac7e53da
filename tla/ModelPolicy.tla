----------------------------- MODULE ModelPolicy ----------------------------
(***************************************************************************)
(* Model and tool policy (model_policy.rs, tool_policy.rs): profiles,      *)
(* their rules and recommendations, assignments, per-user overrides and    *)
(* instance denials, changed by administrators' pages and commands, and    *)
(* read by every request through a per-user snapshot cache.                *)
(*                                                                         *)
(* Each change is one transaction.  The triggers of migrations 0058, 0063  *)
(* and 0065 raise policy_state.revision with it.  A request reads the      *)
(* revision, looks in the cache, and otherwise reads the whole policy in a *)
(* second transaction before it stores it: other requests, pages and       *)
(* commands run in between.  A page is rendered from one state and         *)
(* submitted in another, with the profile version it was rendered from.    *)
(*                                                                         *)
(* One model is told apart by its two rule keys, with and without its      *)
(* provider; one tool stands for the known tools.  Names and audit rows    *)
(* are left out, and so are refused actors: see IdentityAccess.            *)
(***************************************************************************)
EXTENDS Naturals, FiniteSets

CONSTANTS
    Members,                \* users of role member
    Profiles,               \* profile ids
    NoProfile,
    ProfilePages,           \* browser tabs and commands that change a profile they read before
    Readers,                \* requests that look up the policy at once
    POLICY_CACHE_CAPACITY,
    MaxRevision             \* bound on policy_state.revision

VARIABLES
    profiles,     \* policy_profiles with their rules
    memberActive, \* users.state = 'active'
    assigned,     \* user_profile_assignments
    override,     \* user_policy_overrides and user_tool_overrides
    denied,       \* instance_model_denials and instance_tool_denials
    memberDefault,\* policy_state.default_member_profile_id
    revision,     \* policy_state.revision
    snapshots,    \* ModelPolicyService::cache
    readers,      \* ModelPolicyService::snapshot in progress
    form          \* the profile a page was rendered from

policyRows == <<profiles, memberActive, assigned, override, denied, memberDefault>>
policyVars == <<policyRows, revision, snapshots, readers, form>>

Effects == {"allow", "deny"}
RuleKeys == {"model", "model/provider"}
NoRules == [k \in RuleKeys \cup {"tool"} |-> "none"]
Nothing == [kind |-> "none"]

NewProfile(effect) ==
    [kind |-> "profile", version |-> 1, default_effect |-> effect,
     preferred |-> FALSE, rules |-> NoRules]

PolicyInit ==
    /\ profiles = [p \in Profiles |-> Nothing]
    /\ memberActive = [u \in Members |-> TRUE]
    /\ assigned = [u \in Members |-> NoProfile]
    /\ override = [u \in Members |-> NoRules]
    /\ denied = {}
    /\ memberDefault = NoProfile
    /\ revision = 1
    /\ snapshots = [u \in Members |-> Nothing]
    /\ readers = [r \in Readers |-> Nothing]
    /\ form = [g \in ProfilePages |-> Nothing]

-----------------------------------------------------------------------------
(* What a policy decides. *)

\* The rows ModelPolicyService::snapshot reads for an active member.
PolicyOf(u) ==
    LET p == assigned[u]
    IN  IF ~memberActive[u] THEN Nothing
        ELSE [kind |-> "policy",
              profile |-> IF p = NoProfile THEN Nothing
                          ELSE [kind |-> "profile",
                                default_effect |-> profiles[p].default_effect,
                                preferred |-> profiles[p].preferred,
                                rules |-> [k \in RuleKeys |-> profiles[p].rules[k]]],
              overrides |-> [k \in RuleKeys |-> override[u][k]],
              denials |-> denied \cap RuleKeys]

\* exact_effect: the qualified rule, then the plain one.
ExactEffect(rules, qualified) ==
    IF qualified /\ rules["model/provider"] # "none"
      THEN rules["model/provider"] ELSE rules["model"]

\* ModelPolicySnapshot::allows, for a model reference with or without its provider.
PolicyAllows(policy, qualified) ==
    LET own == ExactEffect(policy.overrides, qualified)
        profiled == ExactEffect(policy.profile.rules, qualified)
    IN  /\ "model" \notin policy.denials
        /\ qualified => "model/provider" \notin policy.denials
        /\ IF own # "none" THEN own = "allow"
           ELSE /\ policy.profile # Nothing
                /\ IF profiled # "none" THEN profiled = "allow"
                                        ELSE policy.profile.default_effect = "allow"

\* The references (with their provider or without) a policy lets a member use.
Permitted(policy) ==
    {qualified \in BOOLEAN : policy # Nothing /\ PolicyAllows(policy, qualified)}

-----------------------------------------------------------------------------
(* Changes. *)

\* The triggers raise the revision with every row written: once or twice in a
\* transaction, of which only that it grows matters.
Revise ==
    /\ revision < MaxRevision
    /\ revision' = revision + 1
    /\ UNCHANGED <<snapshots, readers>>

Exists(p) == profiles[p] # Nothing

create_profile(p, effect) ==
    /\ ~Exists(p)
    /\ profiles' = [profiles EXCEPT ![p] = NewProfile(effect)]
    /\ Revise
    /\ UNCHANGED <<memberActive, assigned, override, denied, memberDefault, form>>

\* The compare-and-swap of a submitted page.
update_profile(g, effect) ==
    /\ form[g] # Nothing
    /\ LET p == form[g].profile
       IN  IF Exists(p) /\ profiles[p].version = form[g].version
             THEN /\ profiles' = [profiles EXCEPT ![p].default_effect = effect,
                                                  ![p].version = @ + 1]
                  /\ Revise
             ELSE UNCHANGED <<profiles, revision, snapshots, readers>>
    /\ form' = [form EXCEPT ![g] = Nothing]
    /\ UNCHANGED <<memberActive, assigned, override, denied, memberDefault>>

delete_profile(g) ==
    /\ form[g] # Nothing
    /\ LET p == form[g].profile
           used == memberDefault = p \/ \E u \in Members : assigned[u] = p
       IN  IF ~used /\ Exists(p) /\ profiles[p].version = form[g].version
             THEN profiles' = [profiles EXCEPT ![p] = Nothing] /\ Revise
             ELSE UNCHANGED <<profiles, revision, snapshots, readers>>
    /\ form' = [form EXCEPT ![g] = Nothing]
    /\ UNCHANGED <<memberActive, assigned, override, denied, memberDefault>>

\* A rule row and the profile row it belongs to.
set_profile_rule(p, k, effect) ==
    /\ Exists(p) /\ k \in RuleKeys
    /\ profiles' = [profiles EXCEPT ![p].rules[k] = effect, ![p].version = @ + 1]
    /\ Revise
    /\ UNCHANGED <<memberActive, assigned, override, denied, memberDefault, form>>

remove_profile_rule(p, k) ==
    /\ Exists(p) /\ k \in RuleKeys /\ profiles[p].rules[k] # "none"
    /\ profiles' = [profiles EXCEPT ![p].rules[k] = "none", ![p].version = @ + 1]
    /\ Revise
    /\ UNCHANGED <<memberActive, assigned, override, denied, memberDefault, form>>

\* The tool rule of a profile; the version check is the command's option.
set_tool_profile_rule(p, effect, expected) ==
    /\ Exists(p) /\ expected \in {0, profiles[p].version}
    /\ profiles[p].rules["tool"] # effect
    /\ profiles' = [profiles EXCEPT ![p].rules["tool"] = effect, ![p].version = @ + 1]
    /\ Revise
    /\ UNCHANGED <<memberActive, assigned, override, denied, memberDefault, form>>

\* A recommended model must not be denied by the profile or the instance at that moment.
set_profile_preference(p, preferred) ==
    /\ Exists(p)
    /\ preferred =>
         LET rule == profiles[p].rules["model"]
         IN  /\ (IF rule = "none" THEN profiles[p].default_effect ELSE rule) = "allow"
             /\ "model" \notin denied
    /\ profiles' = [profiles EXCEPT ![p].preferred = preferred, ![p].version = @ + 1]
    /\ Revise
    /\ UNCHANGED <<memberActive, assigned, override, denied, memberDefault, form>>

assign_profile(u, p) ==
    /\ Exists(p)
    /\ assigned' = [assigned EXCEPT ![u] = p]
    /\ Revise
    /\ UNCHANGED <<profiles, memberActive, override, denied, memberDefault, form>>

set_default_member_profile(p) ==
    /\ p # NoProfile => Exists(p)
    /\ memberDefault # p
    /\ memberDefault' = p
    /\ Revise
    /\ UNCHANGED <<profiles, memberActive, assigned, override, denied, form>>

\* set_user_override and remove_user_override, and the tool rule of a user.
set_user_override(u, k, effect) ==
    /\ override[u][k] # "none" \/ effect # "none"
    /\ override' = [override EXCEPT ![u][k] = effect]
    /\ Revise
    /\ UNCHANGED <<profiles, memberActive, assigned, denied, memberDefault, form>>

set_instance_denial(k, isDenied) ==
    /\ (k \in denied) # isDenied
    /\ denied' = IF isDenied THEN denied \cup {k} ELSE denied \ {k}
    /\ Revise
    /\ UNCHANGED <<profiles, memberActive, assigned, override, memberDefault, form>>

\* Defect: a change of a user's state does not raise the policy revision.
SetMemberStateUnrevised(u) ==
    /\ memberActive' = [memberActive EXCEPT ![u] = ~@]
    /\ UNCHANGED <<profiles, assigned, override, denied, memberDefault,
                   revision, snapshots, readers, form>>

\* An administrator disables or enables a member; the trigger is on users.
SetMemberState(u) ==
    /\ memberActive' = [memberActive EXCEPT ![u] = ~@]
    /\ Revise
    /\ UNCHANGED <<profiles, assigned, override, denied, memberDefault, form>>

\* list_profiles and list_profile_rules render the page of a profile.
RenderForm(g, p) ==
    /\ Exists(p)
    /\ form' = [form EXCEPT ![g] = [kind |-> "form", profile |-> p,
                                    version |-> profiles[p].version, row |-> profiles[p]]]
    /\ UNCHANGED <<policyRows, revision, snapshots, readers>>

-----------------------------------------------------------------------------
(* ModelPolicyService::snapshot. *)

ReadRevision(r, u) ==
    /\ readers[r] = Nothing
    /\ readers' = [readers EXCEPT ![r] = [kind |-> "check", user |-> u, revision |-> revision]]
    /\ UNCHANGED <<policyRows, revision, snapshots, form>>

\* A hit answers the request; a miss goes on to read the policy.
CheckSnapshot(r) ==
    /\ readers[r].kind = "check"
    /\ LET s == snapshots[readers[r].user]
       IN  readers' = [readers EXCEPT ![r] =
             IF s # Nothing /\ s.revision = readers[r].revision
               THEN Nothing ELSE [kind |-> "load", user |-> readers[r].user]]
    /\ UNCHANGED <<policyRows, revision, snapshots, form>>

\* The second transaction; a member who is not active has no policy.
LoadSnapshot(r) ==
    /\ readers[r].kind = "load"
    /\ LET u == readers[r].user
       IN  readers' = [readers EXCEPT ![r] =
             IF ~memberActive[u] THEN Nothing
             ELSE [kind |-> "store", user |-> u, revision |-> revision, policy |-> PolicyOf(u)]]
    /\ UNCHANGED <<policyRows, revision, snapshots, form>>

StoreSnapshot(r) ==
    /\ readers[r].kind = "store"
    /\ LET u == readers[r].user
           cached == {v \in Members : snapshots[v] # Nothing}
           stored == [kind |-> "snapshot", revision |-> readers[r].revision,
                      policy |-> readers[r].policy]
       IN  IF Cardinality(cached) >= POLICY_CACHE_CAPACITY /\ u \notin cached
             THEN \E v \in cached :
                    snapshots' = [snapshots EXCEPT ![v] = Nothing, ![u] = stored]
             ELSE snapshots' = [snapshots EXCEPT ![u] = stored]
    /\ readers' = [readers EXCEPT ![r] = Nothing]
    /\ UNCHANGED <<policyRows, revision, form>>

-----------------------------------------------------------------------------
(* Who makes the changes. *)

\* eggpool users policy: create, rule, assign, prefer.
ProfileCommand(p) ==
    \/ \E effect \in Effects : create_profile(p, effect)
    \/ \E k \in RuleKeys, effect \in Effects : set_profile_rule(p, k, effect)
    \/ \E u \in Members : assign_profile(u, p)
    \/ \E preferred \in BOOLEAN : set_profile_preference(p, preferred)

\* eggpool users tool-policy: profile-rule, user-rule, instance-deny, instance-allow.
ToolPolicyCommand ==
    \/ \E p \in Profiles, effect \in Effects \cup {"none"}, expected \in 0..MaxRevision :
         set_tool_profile_rule(p, effect, expected)
    \/ \E u \in Members, effect \in Effects \cup {"none"} : set_user_override(u, "tool", effect)
    \/ \E isDenied \in BOOLEAN : set_instance_denial("tool", isDenied)

\* eggpool users defaults: set, clear; and the page that does the same.
DefaultsCommand == \E p \in Profiles \cup {NoProfile} : set_default_member_profile(p)

\* The handlers of the profiles page.
ProfilePage(g, p) ==
    \/ RenderForm(g, p)
    \/ \E effect \in Effects : update_profile(g, effect)
    \/ delete_profile(g)
    \/ \E k \in RuleKeys : remove_profile_rule(p, k)

\* The handlers of the users page.
UserPolicyPage(u) ==
    \E k \in RuleKeys, effect \in Effects \cup {"none"} : set_user_override(u, k, effect)

PolicyReader(r) ==
    \/ \E u \in Members : ReadRevision(r, u)
    \/ CheckSnapshot(r) \/ LoadSnapshot(r) \/ StoreSnapshot(r)

PolicyNext ==
    \/ \E p \in Profiles : ProfileCommand(p)
    \/ ToolPolicyCommand
    \/ DefaultsCommand
    \/ \E g \in ProfilePages, p \in Profiles : ProfilePage(g, p)
    \/ \E u \in Members : UserPolicyPage(u) \/ SetMemberState(u)
    \* For models the service offers this, though no command or page does yet.
    \/ \E k \in RuleKeys, isDenied \in BOOLEAN : set_instance_denial(k, isDenied)
    \/ \E r \in Readers : PolicyReader(r)

PolicySpec == PolicyInit /\ [][PolicyNext]_policyVars

-----------------------------------------------------------------------------

\* A snapshot the cache would hand out for the present revision decides as the
\* database does: every change that could alter a member's policy, a change of
\* the member's own state included, has raised the revision
\* (ModelPolicyService::snapshot and the triggers on the policy tables).
CachedPolicyIsCurrent ==
    \A u \in Members :
        (snapshots[u] # Nothing /\ snapshots[u].revision = revision)
            => /\ Permitted(snapshots[u].policy) = Permitted(PolicyOf(u))
               /\ PolicyOf(u) # Nothing
               /\ snapshots[u].policy.profile = PolicyOf(u).profile

\* A page that passes the version check was rendered from the profile it
\* changes: "A stale browser form gets a conflict instead of silently
\* overwriting a newer administrator edit" (model_policy.rs, update_profile).
StaleFormsConflict ==
    \A g \in ProfilePages :
        (/\ form[g] # Nothing
         /\ Exists(form[g].profile)
         /\ profiles[form[g].profile].version = form[g].version)
            => profiles[form[g].profile] = form[g].row

=============================================================================
