----------------------------- MODULE BudgetRules -----------------------------
(***************************************************************************)
(* Budget rules (user_budget.rs, instance_budget.rs): administrators set,  *)
(* replace and remove rules while requests are admitted, retried and       *)
(* settled under whatever rules the database holds at that moment.  Every  *)
(* action is one transaction of the single writer.                         *)
(*                                                                         *)
(* Two owners keep rules, reservations and usage side by side: one user    *)
(* and the instance.  They differ where the code does: a user's request    *)
(* always leaves a reservation, the instance's only when a rule matched at *)
(* admission.  A limit of 0 stands for an absent one (the code refuses     *)
(* limits below 1).  Token amounts are small numbers, a price is per       *)
(* PriceUnit tokens.  The audit rows and versions are not read back by the *)
(* budget code and are left out; a refused mutation (an actor that is no   *)
(* administrator, a disabled user, an invalid limit) changes nothing.      *)
(***************************************************************************)
EXTENDS Integers, FiniteSets, FiniteSetsExt

CONSTANTS
    BudgetRequests,  \* logical requests
    BudgetModels,    \* exact model ids
    AnyModel,        \* a rule's model_id = None
    BudgetKeys,        \* [owner, model, window] rows the administrators write
    RuleLimits,      \* [requests, tokens, cost, concurrent, hard] they choose from
    NoRule,          \* no row under the key
    BudgetProofs,    \* [single, tariff] facts a request can carry; 0 and -1: None
    EstimateTokens,  \* the estimator's projection for one attempt
    EstimateCost,
    PriceUnit,       \* MICRODOLLARS_PER_MILLION_TOKENS
    DaysPerMonth,
    LastDay,
    AttemptLimit,
    MaxRuleChanges

Owners == {"user", "instance"}
Windows == {"day", "month"}
Days == 1 .. LastDay

ASSUME BudgetAssumption ==
    /\ AnyModel \notin BudgetModels /\ NoRule \notin RuleLimits
    /\ BudgetKeys \subseteq [owner: Owners, model: BudgetModels \union {AnyModel},
                           window: Windows]
    /\ RuleLimits \subseteq [requests: Nat, tokens: Nat, cost: Nat,
                             concurrent: Nat, hard: BOOLEAN]
    /\ BudgetProofs \subseteq [single: Nat, tariff: Nat \union {-1}]
    /\ PriceUnit \in Nat \ {0} /\ DaysPerMonth \in Nat \ {0}

VARIABLES
    ruleTable,     \* user_budget_rules and instance_budget_rules
    untouched,     \* ghost: the windows in which nothing of the rule's scope
                   \*   had been admitted when the rule got its present limits
    holds,         \* the two reservation tables, by owner and request
    charged,       \* the two usage tables, by owner, model, window and start
    spend,         \* the request's attempts: pc, model, proof, attempt usage rows
    today,
    ruleChanges

budgetVars == <<ruleTable, untouched, holds, charged, spend, today, ruleChanges>>

NoHoldRow == [status |-> "none", tokens |-> 0, cost |-> 0, day |-> 1]
NoProof == [single |-> 0, tariff |-> -1]
NoUsage == [requests |-> 0, tokens |-> 0, cost |-> 0]
Unbounded == -1   \* the None of a bound that cannot be proved

(* date('now') and strftime('%Y-%m-01', 'now') of the admission.           *)
WindowStart(window, day) ==
    IF window = "day" THEN day ELSE (day - 1) \div DaysPerMonth + 1

InScope(key, model) == key.model \in {AnyModel, model}

-----------------------------------------------------------------------------
(* Holds.                                                                  *)

(* None when no usable output cap was declared: nothing bounds an attempt. *)
single_attempt_worst_tokens(proof) ==
    IF proof.single > 0 THEN proof.single ELSE Unbounded

(* Rounded up; an unknown tariff prices nothing.                           *)
tariff_cost_microdollars(tokens, tariff) ==
    IF tariff < 0 THEN Unbounded
    ELSE (tokens * tariff + PriceUnit - 1) \div PriceUnit

(* The amounts hold_for_admission (n = 2) and hold_for_retry (n = 1)       *)
(* reserve: a proven bound where a hard rule asks for one, the estimate    *)
(* elsewhere, and no hold when a hard rule cannot be bounded.              *)
HoldFor(n, proof, hardToken, hardCost) ==
    LET single == single_attempt_worst_tokens(proof)
        price == tariff_cost_microdollars(n * single, proof.tariff)
    IN  IF \/ (hardToken \/ hardCost) /\ single = Unbounded
           \/ hardCost /\ price = Unbounded
        THEN [tokens |-> Unbounded, cost |-> Unbounded]
        ELSE [tokens |-> IF hardToken THEN n * single ELSE EstimateTokens,
              cost |-> IF hardCost THEN price ELSE EstimateCost]

hold_for_admission(proof, hardToken, hardCost) ==
    HoldFor(2, proof, hardToken, hardCost)

hold_for_retry(proof, hardToken, hardCost) ==
    HoldFor(1, proof, hardToken, hardCost)

-----------------------------------------------------------------------------
(* The rule check.                                                         *)

load_matching_rules(owner, model) ==
    {k \in BudgetKeys : k.owner = owner /\ InScope(k, model)
                      /\ ruleTable[k] # NoRule}

HardOn(keys, limit) ==
    \E k \in keys : ruleTable[k].hard /\ ruleTable[k][limit] > 0

(* What the rule's scope and window have been charged.                     *)
UsedUnder(key, start) ==
    LET models == {m \in BudgetModels : InScope(key, m)}
        row(m) == charged[key.owner][m, key.window, start]
    IN  [requests |-> MapThenSumSet(LAMBDA m : row(m).requests, models),
         tokens |-> MapThenSumSet(LAMBDA m : row(m).tokens, models),
         cost |-> MapThenSumSet(LAMBDA m : row(m).cost, models)]

ActiveUnder(key) ==
    {r \in BudgetRequests : /\ holds[key.owner][r].status = "active"
                            /\ InScope(key, spend[r].model)}

(* The holds of the rule's window; concurrency counts those of any window. *)
HeldUnder(key, start) ==
    LET live == {r \in ActiveUnder(key) :
                   WindowStart(key.window, holds[key.owner][r].day) = start}
    IN  [requests |-> Cardinality(live),
         tokens |-> MapThenSumSet(LAMBDA r : holds[key.owner][r].tokens, live),
         cost |-> MapThenSumSet(LAMBDA r : holds[key.owner][r].cost, live)]

exceeds(limit, first, second, third) ==
    limit > 0 /\ first + second + third > limit

(* One rule against one hold: hard limits count the proven hold, estimated *)
(* ones the estimate.  isNew is 1 for an admission and 0 for a retry.      *)
RuleExceeded(key, day, hold, isNew) ==
    LET rule == ruleTable[key]
        start == WindowStart(key.window, day)
        used == UsedUnder(key, start)
        held == HeldUnder(key, start)
    IN  \/ exceeds(rule.requests, used.requests, held.requests, isNew)
        \/ exceeds(rule.tokens, used.tokens, held.tokens,
                   IF rule.hard THEN hold.tokens ELSE EstimateTokens)
        \/ exceeds(rule.cost, used.cost, held.cost,
                   IF rule.hard THEN hold.cost ELSE EstimateCost)
        \/ exceeds(rule.concurrent, Cardinality(ActiveUnder(key)), isNew, 0)

rules_exceeded(keys, day, hold, isNew) ==
    \E k \in keys : RuleExceeded(k, day, hold, isNew)

(* check_initial: the hold of an admission under the owner's rules.        *)
AdmissionUnder(owner, model, proof) ==
    LET keys == load_matching_rules(owner, model) IN
    hold_for_admission(proof, HardOn(keys, "tokens"), HardOn(keys, "cost"))

(* user_budget::check_initial refuses what cannot be bounded and what a    *)
(* rule has no room for.                                                   *)
AdmissionRefused(owner, model, proof) ==
    LET keys == load_matching_rules(owner, model)
        hold == AdmissionUnder(owner, model, proof)
    IN  hold.tokens = Unbounded \/ rules_exceeded(keys, today, hold, 1)

(* instance check_initial returns no permit when no rule matches.          *)
Reserves(owner, model) ==
    owner = "instance" => load_matching_rules(owner, model) # {}

(* check_retry: the rules of now, the window of the reservation.           *)
RetryUnder(owner, r) ==
    LET keys == load_matching_rules(owner, spend[r].model) IN
    hold_for_retry(spend[r].proof, HardOn(keys, "tokens"), HardOn(keys, "cost"))

(* Defect: the retry is checked against the window of today.              *)
RetryRefusedToday(owner, r) ==
    LET keys == load_matching_rules(owner, spend[r].model)
        hold == RetryUnder(owner, r)
    IN  IF holds[owner][r].status = "active"
        THEN \/ hold.tokens = Unbounded
             \/ rules_exceeded(keys, today, hold, 0)
        ELSE owner = "user"

RetryRefused(owner, r) ==
    LET keys == load_matching_rules(owner, spend[r].model)
        hold == RetryUnder(owner, r)
    IN  IF holds[owner][r].status = "active"
        THEN \/ hold.tokens = Unbounded
             \/ rules_exceeded(keys, holds[owner][r].day, hold, 0)
        ELSE owner = "user"

-----------------------------------------------------------------------------
(* Administrators.                                                         *)

ValidRuleLimits(limits) ==
    0 < Max({limits.requests, limits.tokens, limits.cost, limits.concurrent})

(* Ghost: the windows of the key in which no request of its scope has been *)
(* admitted.                                                               *)
UntouchedWindows(key) ==
    {WindowStart(key.window, d) : d \in Days}
      \ {WindowStart(key.window, spend[r].day) :
            r \in {r \in BudgetRequests : /\ spend[r].pc # "idle"
                                          /\ InScope(key, spend[r].model)}}

RuleWrite(key, row, windows) ==
    /\ ruleChanges < MaxRuleChanges
    /\ ruleTable' = [ruleTable EXCEPT ![key] = row]
    /\ untouched' = [untouched EXCEPT ![key] = windows]
    /\ ruleChanges' = ruleChanges + 1
    /\ UNCHANGED <<holds, charged, spend, today>>

(* UserBudgetService::set_rule and InstanceBudgetService::set_rule, called *)
(* by the command line and by the dashboard: an upsert that replaces the   *)
(* rule as a whole.                                                        *)
set_user_rule(key, limits) ==
    /\ key.owner = "user" /\ ValidRuleLimits(limits)
    /\ RuleWrite(key, limits, UntouchedWindows(key))

set_instance_rule(key, limits) ==
    /\ key.owner = "instance" /\ ValidRuleLimits(limits)
    /\ RuleWrite(key, limits, UntouchedWindows(key))

remove_user_rule(key) ==
    /\ key.owner = "user" /\ ruleTable[key] # NoRule
    /\ RuleWrite(key, NoRule, {})

remove_instance_rule(key) ==
    /\ key.owner = "instance" /\ ruleTable[key] # NoRule
    /\ RuleWrite(key, NoRule, {})

-----------------------------------------------------------------------------
(* Requests.                                                               *)

(* Requests of the legacy key have no user and meet only the instance.     *)
OwnersOf(attributed) == IF attributed THEN Owners ELSE {"instance"}

insert_reservation(owner, model, proof) ==
    LET hold == AdmissionUnder(owner, model, proof) IN
    [status |-> "active", tokens |-> hold.tokens, cost |-> hold.cost,
     day |-> today]

(* publish_transaction of a first attempt: both checks, then the rows.  A  *)
(* refusal writes nothing.                                                 *)
AdmitRequest(r, model, proof, attributed) ==
    /\ spend[r].pc = "idle"
    /\ \A o \in OwnersOf(attributed) : ~AdmissionRefused(o, model, proof)
    /\ holds' = [o \in Owners |->
         IF o \in OwnersOf(attributed) /\ Reserves(o, model)
         THEN [holds[o] EXCEPT ![r] = insert_reservation(o, model, proof)]
         ELSE holds[o]]
    /\ spend' = [spend EXCEPT ![r] =
         [@ EXCEPT !.pc = "attempt", !.model = model, !.proof = proof,
                   !.attributed = attributed, !.attempts = 1, !.day = today]]
    /\ UNCHANGED <<ruleTable, untouched, charged, today, ruleChanges>>

(* What a provider may bill for one attempt: the proven worst case, and    *)
(* one token where nothing was proved.                                     *)
Billable(proof) == 0 .. Max({1, proof.single})
Price(proof, tokens) ==
    IF proof.tariff < 0 THEN 0 ELSE tariff_cost_microdollars(tokens, proof.tariff)

(* record_attempt_usage: an attempt of unknown usage leaves its mark.      *)
record_attempt_usage(call, tokens, known) ==
    IF known
    THEN [call EXCEPT !.tokens = @ + tokens, !.cost = @ + Price(call.proof, tokens)]
    ELSE [call EXCEPT !.blind = TRUE]

(* Unknown usage costs the whole hold.                                     *)
ChargedFor(hold, call) ==
    [requests |-> 1,
     tokens |-> IF call.blind THEN Max({hold.tokens, call.tokens}) ELSE call.tokens,
     cost |-> IF call.blind THEN Max({hold.cost, call.cost}) ELSE call.cost]

(* The fold of a settled request into its day and its month.               *)
FoldCharge(owner, r, call) ==
    LET hold == holds[owner][r]
        add == ChargedFor(hold, call)
        rows == {<<call.model, w, WindowStart(w, hold.day)>> : w \in Windows}
    IN  [k \in DOMAIN charged[owner] |->
           IF k \in rows
           THEN [f \in DOMAIN add |-> charged[owner][k][f] + add[f]]
           ELSE charged[owner][k]]

(* A request that ended: its rows are not read again.                      *)
Closed(call, pc) ==
    [call EXCEPT !.pc = pc, !.proof = NoProof, !.attempts = 0, !.tokens = 0,
                 !.cost = 0, !.blind = FALSE]

(* record_attempt_and_maybe_settle, for both owners in one transaction:    *)
(* the last attempt settles what is still active.                          *)
FinishAttempt(r, tokens, known, terminal) ==
    LET call == record_attempt_usage(spend[r], tokens, known)
        settled == {o \in Owners : terminal /\ holds[o][r].status = "active"}
    IN  /\ spend[r].pc = "attempt"
        /\ spend' = [spend EXCEPT ![r] =
             IF terminal THEN Closed(call, "done") ELSE [call EXCEPT !.pc = "retrying"]]
        /\ charged' = [o \in Owners |->
             IF o \in settled THEN FoldCharge(o, r, call) ELSE charged[o]]
        /\ holds' = [o \in Owners |->
             IF o \in settled
             THEN [holds[o] EXCEPT ![r] = [NoHoldRow EXCEPT !.status = "settled"]]
             ELSE holds[o]]
        /\ UNCHANGED <<ruleTable, untouched, today, ruleChanges>>

extend_reservation(owner, r) ==
    LET hold == RetryUnder(owner, r) IN
    [holds[owner] EXCEPT ![r].tokens = @ + hold.tokens, ![r].cost = @ + hold.cost]

(* publish_transaction of a further attempt.                               *)
RetryRequest(r) ==
    /\ spend[r].pc = "retrying" /\ spend[r].attempts < AttemptLimit
    /\ \A o \in OwnersOf(spend[r].attributed) : ~RetryRefused(o, r)
    /\ holds' = [o \in Owners |->
         IF holds[o][r].status = "active" THEN extend_reservation(o, r) ELSE holds[o]]
    /\ spend' = [spend EXCEPT ![r].pc = "attempt", ![r].attempts = @ + 1]
    /\ UNCHANGED <<ruleTable, untouched, charged, today, ruleChanges>>

(* A refused retry ends the request; its holds stay until the next start   *)
(* reconciles them.  The user's extension commits when only the instance   *)
(* refuses.                                                                *)
RefuseRetry(r) ==
    LET attributed == spend[r].attributed IN
    /\ spend[r].pc = "retrying" /\ spend[r].attempts < AttemptLimit
    /\ \E o \in OwnersOf(attributed) : RetryRefused(o, r)
    /\ holds' = IF attributed /\ ~RetryRefused("user", r)
                THEN [holds EXCEPT !["user"] = extend_reservation("user", r)]
                ELSE holds
    /\ spend' = [spend EXCEPT ![r] = Closed(@, "gone")]
    /\ UNCHANGED <<ruleTable, untouched, charged, today, ruleChanges>>

PassDay ==
    /\ today < LastDay
    /\ today' = today + 1
    /\ UNCHANGED <<ruleTable, untouched, holds, charged, spend, ruleChanges>>

-----------------------------------------------------------------------------
BudgetInit ==
    /\ ruleTable = [k \in BudgetKeys |-> NoRule]
    /\ untouched = [k \in BudgetKeys |-> {}]
    /\ holds = [o \in Owners |-> [r \in BudgetRequests |-> NoHoldRow]]
    /\ charged = [o \in Owners |-> [k \in BudgetModels \X Windows \X Days |-> NoUsage]]
    /\ spend = [r \in BudgetRequests |->
         [pc |-> "idle", model |-> AnyModel, proof |-> NoProof,
          attributed |-> FALSE, attempts |-> 0, tokens |-> 0, cost |-> 0,
          blind |-> FALSE, day |-> 1]]
    /\ today = 1
    /\ ruleChanges = 0

BudgetNext ==
    \/ \E k \in BudgetKeys :
         \/ remove_user_rule(k) \/ remove_instance_rule(k)
         \/ \E l \in RuleLimits : set_user_rule(k, l) \/ set_instance_rule(k, l)
    \/ \E r \in BudgetRequests :
         \/ \E m \in BudgetModels, p \in BudgetProofs, a \in BOOLEAN :
              AdmitRequest(r, m, p, a)
         \/ \E t \in Billable(spend[r].proof), terminal \in BOOLEAN :
              FinishAttempt(r, t, TRUE, terminal) \/ FinishAttempt(r, 0, FALSE, terminal)
         \/ RetryRequest(r)
         \/ RefuseRetry(r)
    \/ PassDay

-----------------------------------------------------------------------------
(* A hard rule is a ceiling through every history of rule changes: in each *)
(* window that began after the rule got its present limits, what was       *)
(* charged and what live holds reserve stays within the hard token and     *)
(* cost limits and the request limit, with retries, unknown usage,         *)
(* midnight during a request, other rules coming and going, and providers  *)
(* billing no more than the proven worst case.                             *)
HardCapsHold ==
    \A k \in BudgetKeys : ruleTable[k] # NoRule =>
      \A start \in untouched[k] :
        LET rule == ruleTable[k]
            used == UsedUnder(k, start)
            held == HeldUnder(k, start)
        IN  /\ ~exceeds(rule.requests, used.requests, held.requests, 0)
            /\ rule.hard =>
                 /\ ~exceeds(rule.tokens, used.tokens, held.tokens, 0)
                 /\ ~exceeds(rule.cost, used.cost, held.cost, 0)

(* "no retry, alternate model, identity switch, or legacy-key request      *)
(* bypasses it": while an instance ceiling matches, an attempt that starts *)
(* is one the ceiling has a hold for.                                      *)
NoRetryBypassesCeiling ==
    [][\A r \in BudgetRequests :
         /\ spend[r].pc # "attempt" /\ spend'[r].pc = "attempt"
         /\ load_matching_rules("instance", spend'[r].model) # {}
         => holds'["instance"][r].status = "active"]_budgetVars

=============================================================================
