--------------------------- MODULE IdentityAccess ---------------------------
(***************************************************************************)
(* Local users, their personal API tokens and their browser sessions       *)
(* (identity.rs, web_session.rs), as the server's middleware, its sign-in  *)
(* and administration pages, and the "eggpool users" commands change them. *)
(*                                                                         *)
(* Every mutation is one database transaction, but what it acts for is     *)
(* older: a browser request carries the principal its session had when the *)
(* middleware read it (the fence), a command carries the administrator it  *)
(* looked up, and an operation that hashes a password waits for one of the *)
(* HASH_CONCURRENCY workers in between.  A caller may go away while its    *)
(* worker runs; the worker keeps its slot until it is done.                *)
(*                                                                         *)
(* Passwords are abstracted to whether the worker accepts them, names and  *)
(* ids to one value per user, auth_epoch to whether it changed since a     *)
(* fence was taken; audit rows and cookies are left out.  The throttles on *)
(* failed sign-ins and failed tokens only refuse a request, as a request   *)
(* that is never sent: they are left out too.                              *)
(***************************************************************************)
EXTENDS Naturals, Sequences, FiniteSets

CONSTANTS
    Users,                    \* user names, one id each
    NoUser,
    Sessions,                 \* session ids that can be issued
    Tokens,                   \* personal tokens that can be issued
    Pages,                    \* browser requests under way at once
    UserCommands,             \* "eggpool users" commands under way at once
    HASH_CONCURRENCY,
    FAILED_TOKEN_CAPACITY

ASSUME IdentityAssumption ==
    /\ NoUser \notin Users
    /\ HASH_CONCURRENCY \in Nat \ {0}
    /\ FAILED_TOKEN_CAPACITY \in Nat \ {0}

VARIABLES
    access,      \* user_access_state.state
    users,       \* users rows; role "none" is no row
    sessions,    \* web_sessions rows; live is neither revoked nor expired
    credentials, \* user_credentials rows
    refused,     \* FAILED_TOKEN_DIGESTS, oldest first
    callers      \* what each caller is doing

identityVars == <<access, users, sessions, credentials, refused, callers>>

IdentityCallers == Pages \cup UserCommands

NoRow == [user |-> NoUser, live |-> FALSE]
NoFence == [user |-> NoUser]
NoCall == [at |-> "idle"]

IdentityInit ==
    /\ access = "legacy_unmigrated"
    /\ users = [u \in Users |->
                  [role |-> "none", active |-> FALSE, must_change |-> FALSE]]
    /\ sessions = [s \in Sessions |-> NoRow]
    /\ credentials = [t \in Tokens |-> NoRow]
    /\ refused = <<>>
    /\ callers = [c \in IdentityCallers |-> NoCall]

-----------------------------------------------------------------------------
(* The rows a transaction reads. *)

UserExists(u) == users[u].role # "none"

IsActiveAdmin(u) == u # NoUser /\ users[u].role = "admin" /\ users[u].active

\* The principal of a session, and the fence made of it.
PrincipalOf(s) ==
    LET u == sessions[s].user
    IN  [user |-> u, session |-> s, role |-> users[u].role,
         must_change |-> users[u].must_change, same_epoch |-> TRUE]

\* SessionFence::validates_current_session.
ValidatesCurrentSession(fence, actor) ==
    /\ actor = fence.user
    /\ sessions[fence.session] = [user |-> actor, live |-> TRUE]
    /\ users[actor] = [role |-> fence.role, active |-> TRUE, must_change |-> fence.must_change]
    /\ fence.same_epoch

\* SessionFence::validates_actor.
ValidatesActor(fence, actor, require_admin) ==
    /\ ~fence.must_change
    /\ require_admin => fence.role = "admin"
    /\ ValidatesCurrentSession(fence, actor)

\* The actor check of every administrator mutation.
ActorIsAdmin(w) ==
    IF w.fence = NoFence THEN IsActiveAdmin(w.actor)
                         ELSE ValidatesActor(w.fence, w.actor, TRUE)

\* The check of a token operation: one's own tokens, or anyone's for an administrator.
ActorOwnsToken(w) ==
    /\ IF w.fence = NoFence
         THEN w.actor = NoUser
         ELSE ValidatesActor(w.fence, w.actor, w.actor # w.target)
    /\ users[w.target].active

\* Every credential and session of a user is revoked in the same transaction.
AllRevoked(rows, u) == [r \in DOMAIN rows |->
                       IF rows[r].user = u THEN [rows[r] EXCEPT !.live = FALSE] ELSE rows[r]]

\* Ids are random and never reused: which unissued one comes next does not matter.
HasUnissued(rows) == \E r \in DOMAIN rows : rows[r] = NoRow
NextRowId(rows) == CHOOSE r \in DOMAIN rows : rows[r] = NoRow

WithIssued(rows, u) == [rows EXCEPT ![NextRowId(rows)] = [user |-> u, live |-> TRUE]]

-----------------------------------------------------------------------------
(* IdentityCallers: a request or a command starts, hashes, and reaches its         *)
(* transaction.                                                            *)

Call(op, actor, target, fence) ==
    [at |-> IF op \in {"create", "reset_user", "reset", "change", "login", "bootstrap"}
              THEN "hash" ELSE "commit",
     op |-> op, actor |-> actor, target |-> target, fence |-> fence]

CallStarts(c, w) ==
    /\ callers[c] = NoCall
    /\ callers' = [callers EXCEPT ![c] = w]
    /\ UNCHANGED <<access, users, sessions, credentials, refused>>

CallDone(c) == callers' = [callers EXCEPT ![c] = NoCall]

\* The caller is done and the user's auth_epoch has gone up: older fences no longer match.
CallDoneBumping(c, u) ==
    callers' = [d \in IdentityCallers |->
                  IF d = c THEN NoCall
                  ELSE IF callers[d].at \in {"hash", "hashing", "commit"} /\ callers[d].fence.user = u
                    THEN [callers[d] EXCEPT !.fence.same_epoch = FALSE]
                    ELSE callers[d]]

CallAt(c, op) == callers[c].at = "commit" /\ callers[c].op = op

\* policy_actor_id: the active administrator a command acts as.
ActsAsAdmin(op, actor) ==
    op \in {"create", "disable", "enable", "enable_managed"} /\ IsActiveAdmin(actor)

\* A users command: whom it acts as is looked up before its transaction.
StartCommand(c, op, actor, target) ==
    /\ \/ ActsAsAdmin(op, actor)
       \/ op \in {"bootstrap", "reset", "issue", "revoke_all"} /\ actor = NoUser
    /\ CallStarts(c, Call(op, actor, target, NoFence))

\* What each page handler asks of the session before it starts its mutation.
admin_only(p) == p.role = "admin" /\ ~p.must_change

CreateUserPage(p, op) == op = "create" /\ admin_only(p)

UserStatePage(p, op) == op \in {"disable", "enable"} /\ admin_only(p)

ResetUserPage(p, op) == op = "reset_user" /\ admin_only(p)

PersonalTokenPage(p, op, target) ==
    op \in {"issue", "revoke"} /\ target = p.user /\ ~p.must_change

AdminTokenPage(p, op) == op \in {"issue", "revoke_all"} /\ admin_only(p)

PasswordPage(p, op, target) == op = "change" /\ target = p.user

LogoutPage(p, op, target) == op = "logout" /\ target = p.user

\* The middleware finds the session's principal and the request reaches its handler.
StartPage(c, s, op, target) ==
    LET p == PrincipalOf(s)
    IN  /\ sessions[s].live /\ users[p.user].active
        /\ access # "legacy_unmigrated"
        /\ \/ CreateUserPage(p, op)
           \/ UserStatePage(p, op)
           \/ ResetUserPage(p, op)
           \/ PersonalTokenPage(p, op, target)
           \/ AdminTokenPage(p, op)
           \/ PasswordPage(p, op, target)
           \/ LogoutPage(p, op, target)
        /\ CallStarts(c, Call(op, p.user, target, p))

\* login_submit up to the password check; the account row is read before the hash.
StartLogin(c, u) ==
    /\ access \in {"admin_initialized", "managed"}
    /\ CallStarts(c, Call("login", IF users[u].active THEN u ELSE NoUser, u, NoFence))

\* run_hash_worker takes a slot for its blocking task.
TakeHashSlot(c) ==
    /\ callers[c].at = "hash"
    /\ Cardinality({d \in IdentityCallers : callers[d].at \in {"hashing", "orphan"}}) < HASH_CONCURRENCY
    /\ callers' = [callers EXCEPT ![c].at = "hashing"]
    /\ UNCHANGED <<access, users, sessions, credentials, refused>>

HashDone(c) ==
    /\ callers[c].at = "hashing"
    /\ callers' = [callers EXCEPT ![c].at = "commit"]
    /\ UNCHANGED <<access, users, sessions, credentials, refused>>

\* The caller disconnects; a worker that already runs keeps its slot.
CallerGoes(c) ==
    /\ callers[c].at \in {"hash", "hashing"}
    /\ callers' = [callers EXCEPT ![c] = IF @.at = "hashing" THEN [at |-> "orphan"] ELSE NoCall]
    /\ UNCHANGED <<access, users, sessions, credentials, refused>>

OrphanDone(c) ==
    /\ callers[c].at = "orphan"
    /\ CallDone(c)
    /\ UNCHANGED <<access, users, sessions, credentials, refused>>

-----------------------------------------------------------------------------
(* The transactions. *)

\* A mutation that its checks refuse changes nothing.
RefusesCall(c, allowed) ==
    /\ ~allowed
    /\ CallDone(c)
    /\ UNCHANGED <<access, users, sessions, credentials>>

bootstrap_admin(c) ==
    /\ CallAt(c, "bootstrap")
    /\ LET u == callers[c].target
           fresh == \A v \in Users : ~UserExists(v)
       IN  \/ /\ fresh
              /\ access' = "admin_initialized"
              /\ users' = [users EXCEPT ![u].role = "admin", ![u].active = TRUE]
              /\ HasUnissued(credentials) /\ credentials' = WithIssued(credentials, u)
              /\ CallDone(c) /\ UNCHANGED sessions
           \/ RefusesCall(c, fresh)
    /\ UNCHANGED refused

\* transition_to_managed.
ManagedAccess ==
    IF access = "admin_initialized" /\ \E u \in Users : IsActiveAdmin(u)
      THEN "managed" ELSE access

create_member(c) ==
    /\ CallAt(c, "create")
    /\ LET w == callers[c]
           allowed == ActorIsAdmin(w) /\ ~UserExists(w.target) /\ ManagedAccess = "managed"
       IN  \/ /\ allowed
              /\ access' = ManagedAccess
              /\ users' = [users EXCEPT ![w.target] =
                             [role |-> "member", active |-> TRUE, must_change |-> TRUE]]
              /\ CallDone(c) /\ UNCHANGED <<sessions, credentials>>
           \/ RefusesCall(c, allowed)
    /\ UNCHANGED refused

enable_managed(c) ==
    /\ CallAt(c, "enable_managed") /\ CallDone(c)
    /\ access' = IF IsActiveAdmin(callers[c].actor) THEN ManagedAccess ELSE access
    /\ UNCHANGED <<users, sessions, credentials, refused>>

set_user_enabled(c, enabled) ==
    /\ CallAt(c, IF enabled THEN "enable" ELSE "disable")
    /\ LET w == callers[c]
           u == w.target
           last == Cardinality({v \in Users : IsActiveAdmin(v)}) <= 1
           allowed == /\ ActorIsAdmin(w) /\ UserExists(u) /\ users[u].active # enabled
                      /\ enabled \/ users[u].role # "admin" \/ ~last
       IN  \/ /\ allowed
              /\ users' = [users EXCEPT ![u].active = enabled]
              /\ CallDoneBumping(c, u)
              /\ credentials' = IF enabled THEN credentials ELSE AllRevoked(credentials, u)
              /\ sessions' = IF enabled THEN sessions ELSE AllRevoked(sessions, u)
              /\ UNCHANGED access
           \/ RefusesCall(c, allowed)
    /\ UNCHANGED refused

\* A password is replaced: everything issued under the old one goes with it.
ReplacesPassword(c, u, must_change) ==
    /\ users' = [users EXCEPT ![u].must_change = must_change]
    /\ CallDoneBumping(c, u)
    /\ credentials' = AllRevoked(credentials, u)
    /\ sessions' = AllRevoked(sessions, u)
    /\ UNCHANGED access

admin_reset_password(c) ==
    /\ CallAt(c, "reset_user")
    /\ LET w == callers[c]
           allowed == ActorIsAdmin(w) /\ users[w.target].active
       IN  (allowed /\ ReplacesPassword(c, w.target, TRUE)) \/ RefusesCall(c, allowed)
    /\ UNCHANGED refused

reset_password(c) ==
    /\ CallAt(c, "reset")
    /\ LET w == callers[c]
           allowed == /\ w.fence # NoFence => ValidatesCurrentSession(w.fence, w.fence.user)
                      /\ users[w.target].active
       IN  (allowed /\ ReplacesPassword(c, w.target, FALSE)) \/ RefusesCall(c, allowed)
    /\ UNCHANGED refused

\* password_change: the current password is checked, then the new one is hashed.
password_change(c) ==
    /\ CallAt(c, "change")
    /\ \/ callers' = [callers EXCEPT ![c] = [@ EXCEPT !.op = "reset", !.at = "hash"]]
       \/ CallDone(c)
    /\ UNCHANGED <<access, users, sessions, credentials, refused>>

issue_api_token(c) ==
    /\ CallAt(c, "issue")
    /\ LET w == callers[c]
       IN  \/ /\ ActorOwnsToken(w)
              /\ HasUnissued(credentials) /\ credentials' = WithIssued(credentials, w.target)
              /\ CallDone(c) /\ UNCHANGED <<access, users, sessions>>
           \/ RefusesCall(c, ActorOwnsToken(w))
    /\ UNCHANGED refused

revoke_user_credential(c) ==
    /\ CallAt(c, "revoke")
    /\ LET w == callers[c]
       IN  \/ /\ ActorOwnsToken(w)
              /\ \E t \in Tokens :
                    /\ credentials[t] = [user |-> w.target, live |-> TRUE]
                    /\ credentials' = [credentials EXCEPT ![t].live = FALSE]
              /\ CallDone(c) /\ UNCHANGED <<access, users, sessions>>
           \/ RefusesCall(c, FALSE)
    /\ UNCHANGED refused

\* revoke_api_tokens of a command, revoke_user_api_tokens of a page.
revoke_api_tokens(c) ==
    /\ CallAt(c, "revoke_all")
    /\ LET w == callers[c]
           allowed == IF w.fence = NoFence THEN UserExists(w.target)
                      ELSE ActorIsAdmin(w) /\ users[w.target].active
       IN  \/ /\ allowed
              /\ credentials' = AllRevoked(credentials, w.target)
              /\ CallDone(c) /\ UNCHANGED <<access, users, sessions>>
           \/ RefusesCall(c, allowed)
    /\ UNCHANGED refused

\* The rest of login_submit: an accepted password of an active account gets a session.
login_submit(c) ==
    /\ CallAt(c, "login") /\ CallDone(c)
    /\ LET w == callers[c]
       IN  \/ /\ w.actor # NoUser
              /\ IF users[w.target].active
                   THEN HasUnissued(sessions) /\ sessions' = WithIssued(sessions, w.target)
                   ELSE UNCHANGED sessions
           \/ UNCHANGED sessions
    /\ UNCHANGED <<access, users, credentials, refused>>

logout_submit(c) ==
    /\ CallAt(c, "logout") /\ CallDone(c)
    /\ sessions' = [sessions EXCEPT ![callers[c].fence.session].live = FALSE]
    /\ UNCHANGED <<access, users, credentials, refused>>

\* A session reaches its seven days, or twelve hours without use.
SessionExpires(s) ==
    /\ sessions[s].live
    /\ sessions' = [sessions EXCEPT ![s].live = FALSE]
    /\ UNCHANGED <<access, users, credentials, refused, callers>>

\* The first start on a database this process created.
mark_fresh_uninitialized ==
    /\ access = "legacy_unmigrated"
    /\ \A u \in Users : ~UserExists(u)
    /\ access' = "fresh_uninitialized"
    /\ UNCHANGED <<users, sessions, credentials, refused, callers>>

-----------------------------------------------------------------------------
(* A personal token presented to an agent surface. *)

TokenIsLive(t) == credentials[t].live /\ users[credentials[t].user].active

RecentlyRefused(t) == \E i \in 1..Len(refused) : refused[i] = t

\* A digest is in the list once: an older place of it goes first.
remember_failed_token(t) ==
    LET place == CHOOSE i \in 1..Len(refused) : refused[i] = t
        others == IF RecentlyRefused(t)
                    THEN SubSeq(refused, 1, place - 1)
                           \o SubSeq(refused, place + 1, Len(refused))
                    ELSE refused
        room == IF Len(others) = FAILED_TOKEN_CAPACITY THEN Tail(others) ELSE others
    IN  refused' = Append(room, t)

\* Defect: a verification that failed for another reason is remembered too.
verify_remembers_errors(t) ==
    /\ credentials[t] # NoRow
    /\ access # "legacy_unmigrated"
    /\ remember_failed_token(t)
    /\ UNCHANGED <<access, users, sessions, credentials, callers>>

\* verify_api_token_principal of a token that is refused: by the list, or by
\* the database when the list was looked at before the token was put there.
verify_api_token(t) ==
    /\ credentials[t] # NoRow
    /\ access # "legacy_unmigrated"
    /\ \/ RecentlyRefused(t) /\ UNCHANGED refused
       \/ ~TokenIsLive(t) /\ remember_failed_token(t)
    /\ UNCHANGED <<access, users, sessions, credentials, callers>>

\* FAILED_TOKEN_TTL ends for the oldest refusal.
RefusalExpires ==
    /\ refused # <<>>
    /\ refused' = Tail(refused)
    /\ UNCHANGED <<access, users, sessions, credentials, callers>>

-----------------------------------------------------------------------------

CallerCommits(c) ==
    \/ bootstrap_admin(c) \/ create_member(c) \/ enable_managed(c)
    \/ \E enabled \in BOOLEAN : set_user_enabled(c, enabled)
    \/ admin_reset_password(c) \/ reset_password(c) \/ password_change(c)
    \/ issue_api_token(c) \/ revoke_user_credential(c) \/ revoke_api_tokens(c)
    \/ login_submit(c) \/ logout_submit(c)

CommandOps == {"bootstrap", "create", "disable", "enable", "enable_managed",
               "reset", "issue", "revoke_all"}
PageOps == {"create", "disable", "enable", "reset_user", "issue", "revoke_all",
            "change", "logout", "revoke"}

IdentityNext ==
    \/ mark_fresh_uninitialized
    \/ \E c \in UserCommands, op \in CommandOps, actor \in Users \cup {NoUser}, target \in Users :
          StartCommand(c, op, actor, target)
    \/ \E c \in Pages, s \in Sessions, op \in PageOps, target \in Users :
          sessions[s].live /\ StartPage(c, s, op, target)
    \/ \E c \in Pages, u \in Users : StartLogin(c, u)
    \/ \E c \in IdentityCallers :
          \/ TakeHashSlot(c) \/ HashDone(c) \/ CallerGoes(c) \/ OrphanDone(c)
          \/ CallerCommits(c)
    \/ \E s \in Sessions : SessionExpires(s)
    \/ \E t \in Tokens : verify_api_token(t)
    \/ RefusalExpires

IdentitySpec == IdentityInit /\ [][IdentityNext]_identityVars

-----------------------------------------------------------------------------

\* A personal token that the failed-token cache refuses without asking the
\* database is one the database would refuse too: no sequence of disabling,
\* enabling, resetting and issuing makes a token that failed valid again
\* (identity.rs, verify_api_token_principal and set_user_enabled).
RefusalsArePermanent ==
    \A i \in 1..Len(refused) : ~TokenIsLive(refused[i])

\* Once an administrator exists, one who can sign in always remains, whatever
\* commands and pages disable users at the same time (set_user_enabled).
AnAdminRemains ==
    access \in {"admin_initialized", "managed"} => \E u \in Users : IsActiveAdmin(u)

=============================================================================
