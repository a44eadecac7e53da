-------------------------- MODULE RequestTranslation --------------------------
(***************************************************************************)
(* One request through the finite wire runtime: a client body on one of    *)
(* three surfaces is decoded to the canonical form, translated to the      *)
(* surface of the selected provider (or passed through when the surfaces   *)
(* agree), answered, and the answer is translated back.  Sources:          *)
(* eggpool-wire/src/{decode,adaptation,fidelity,codecs,additional_codecs}  *)
(* and src/wire/runtime.rs.                                                *)
(*                                                                         *)
(* A body is abstracted to what it says: a sequence of messages, each a    *)
(* role and a sequence of block kinds, and a set of request controls.  An  *)
(* encoder is modelled by the set of things of the canonical request that  *)
(* its output says in the target's grammar; texts, numbers, media bytes,   *)
(* ids and the JSON they are written in are left out.                      *)
(***************************************************************************)
EXTENDS Naturals, Sequences, SequencesExt, FiniteSets, FiniteSetsExt

CONSTANTS
    MaxTurns,       \* messages of a request
    MaxControls     \* controls a request sets at once

VARIABLES
    request,    \* the canonical request with its client surface and native facts
    attempt,    \* the wire attempt: target, rewrite, loss policy and its result
    plan,       \* what plan_request_translation says of request and target
    answer      \* the provider's blocks and what the client received of them

translationVars == <<request, attempt, plan, answer>>

ClientSurfaces == {"chat", "responses", "messages"}

\* The Gemini surfaces exist upstream only.
TargetSurfaces == ClientSurfaces \union {"interactions", "generate"}

OpenaiTargets == {"chat", "responses"}

GeminiTargets == {"interactions", "generate"}

\* A canonical content block: its kind, the tool kind, and whether it is a
\* block with the marker or detail that only some targets can write.
BlockOf(kind, tool, extra) == [kind |-> kind, tool |-> tool, extra |-> extra]

Plain(kind) == BlockOf(kind, "Function", "none")

Turn(role, content) == [role |-> role, content |-> content]

\* The text of a Chat "tool" message becomes a ToolResult; the calls of an
\* assistant message follow its text.
ChatTurns ==
    {Turn("System", <<Plain("Text")>>),
     Turn("User", <<Plain("Text")>>),
     Turn("User", <<Plain("Text"), BlockOf("Image", "Function", "detail")>>),
     Turn("User", <<Plain("Audio")>>),
     Turn("Assistant", <<Plain("Text"), Plain("ToolCall")>>),
     Turn("Tool", <<Plain("ToolResult")>>)}

\* Every call and output item of a Responses input is a message of its own;
\* native items are left to the preservation summary.
ResponsesTurns ==
    {Turn("System", <<Plain("Text")>>),
     Turn("Developer", <<Plain("Text")>>),
     Turn("User", <<BlockOf("Text", "Function", "breakpoint"), Plain("Document")>>),
     Turn("Assistant", <<BlockOf("ToolCall", "Freeform", "none")>>),
     Turn("Tool", <<BlockOf("ToolResult", "Freeform", "none")>>)}

\* Content blocks of an Anthropic message: a user message may hold tool results
\* beside text, an assistant message thinking beside tool uses.
MessagesTurns ==
    {Turn("System", <<Plain("Text")>>),
     Turn("User", <<BlockOf("Text", "Function", "cache_control")>>),
     Turn("User", <<Plain("ToolResult"), Plain("Text")>>),
     Turn("Assistant", <<Plain("Reasoning"), Plain("ToolCall")>>)}

DecodedTurns ==
    [chat |-> ChatTurns, responses |-> ResponsesTurns, messages |-> MessagesTurns]

\* The message-level tool_call_id: only a Chat or Responses tool message has one.
HasCallId(message) == message.role = "Tool"

\* What a client of each surface may ask for besides its messages.  The
\* reasoning intents are those decode_reasoning returns.
ReasoningIntents == {"effort", "budget", "adaptive", "toggle", "disabled"}

\* A Responses client may also declare freeform tools and client tool search.
ResponsesTools == {"freeform", "search"}

ControlsOf(client) ==
    {"effort", "toggle", "disabled", "json_object", "json_schema", "metadata",
     "parallel_tool_calls", "tool_choice", "tools"}
        \union (IF client = "messages"
                THEN {"budget", "adaptive", "tool_cache", "cache_control"} ELSE {})
        \union (IF client = "responses" THEN ResponsesTools ELSE {})

\* Native Responses material that the canonical form does not hold.
NativeFacts(client) ==
    IF client = "responses" THEN {"none", "item", "definition", "extension"} ELSE {"none"}

DecodedRequests ==
    UNION {[client   : {c},
            messages : {s \in UNION {[1 .. n -> DecodedTurns[c]] : n \in 1 .. MaxTurns} :
                            c = "messages" => \A i \in 2 .. Len(s) : s[i].role # "System"},
            controls : {s \in UNION {kSubset(k, ControlsOf(c)) : k \in 0 .. MaxControls} :
                            /\ Cardinality(s \intersect ReasoningIntents) =< 1
                            /\ ~({"json_object", "json_schema"} \subseteq s)},
            native   : NativeFacts(c)] : c \in ClientSurfaces}

Blocks(r) == UNION {Range(r.messages[i].content) : i \in DOMAIN r.messages}

(***************************************************************************)
(* request_notices: what the adaptation layer says will not be carried.    *)
(***************************************************************************)

\* Is the requested reasoning control one the target can express?
ReasoningSupported(intent, target) ==
    CASE target \in OpenaiTargets     -> intent \in {"effort", "disabled"}
      [] target = "messages"          -> intent \in {"budget", "adaptive", "disabled"}
      [] target = "interactions"      -> intent \in {"effort", "disabled"}
      [] target = "generate"          -> intent \in {"budget", "disabled"}

\* reasoning_notices
ReasoningNotices(r, target) ==
    {"reasoning" : i \in {x \in r.controls \intersect ReasoningIntents :
                              ~ReasoningSupported(x, target)}}

\* structured_notices
StructuredNotices(r, target) ==
    {c \in r.controls \intersect {"json_object", "json_schema"} :
        target = "messages" \/ (c = "json_schema" /\ target = "interactions")}

\* tool_notices
ToolNotices(r, target) ==
    {c \in r.controls : c \in {"freeform", "search"} /\ target # "responses"}
        \union {"call_ids" : b \in {x \in Blocks(r) :
                    x.kind \in {"ToolCall", "ToolResult"} /\ target = "generate"}}
        \union {"order" : m \in {x \in Range(r.messages) :
                                    /\ target = "chat"
                                    /\ \E b, d \in Range(x.content) :
                                           b.kind = "Text" /\ d.kind = "ToolCall"}}

\* media_notices: audio nowhere, documents not on Interactions, image detail on
\* the OpenAI surfaces only.
MediaNotices(r, target) ==
    {b.kind : b \in {x \in Blocks(r) :
                         x.kind = "Audio" \/ (x.kind = "Document" /\ target = "interactions")}}
        \union {b.extra : b \in {x \in Blocks(r) :
                         x.extra = "detail" /\ target \notin OpenaiTargets}}

\* cache_notices: a request-level marker is always in the wrong place.
CacheNotices(r, target) ==
    (r.controls \intersect {"cache_control"})
        \union {b.extra : b \in {x \in Blocks(r) :
                    \/ (x.extra = "cache_control" /\ target # "messages")
                    \/ (x.extra = "breakpoint" /\ target \in GeminiTargets)}}
        \union {c \in r.controls : c = "tool_cache" /\ target # "messages"}

RequestNotices(r, target) ==
    ReasoningNotices(r, target) \union StructuredNotices(r, target)
        \union ToolNotices(r, target) \union MediaNotices(r, target)
        \union CacheNotices(r, target)
        \union {c \in r.controls : c = "metadata" /\ target \notin OpenaiTargets}
        \union {c \in r.controls : c = "parallel_tool_calls" /\ target = "messages"}

\* native_summary_notices: native items and tools cannot leave Responses.
NativeBlocked(r, target) == target # "responses" /\ r.native \in {"item", "definition"}

NativeNotices(r, target) ==
    {n \in {r.native} : n = "extension" /\ target # "responses"}

(***************************************************************************)
(* The encoders.  CarriesBlock says of a block of a message whether it is  *)
(* in the encoded body, CarriesControl the same of a request control.      *)
(***************************************************************************)

\* validate_request_blocks of codecs.rs and of additional_codecs.rs
BlocksRejected(r, target) ==
    \E b \in Blocks(r) :
        b.kind = "Audio" \/ (b.kind = "Document" /\ target = "interactions")

\* Metadata of a Responses client has no place in an encoded Responses body.
MetadataRejected(r, target) ==
    target = "responses" /\ r.client = "responses" /\ "metadata" \in r.controls

EncoderNotices(r, target) ==
    RequestNotices(r, target)
        \union {c \in r.controls : c = "metadata" /\ target = "responses"}

EncoderRejects(r, target) == BlocksRejected(r, target) \/ MetadataRejected(r, target)

\* Only the first system message reaches the encoders that look for one.
FirstSystem(r, i) == \A j \in 1 .. i - 1 : r.messages[j].role # "System"

HoldsResults(message) == \E b \in Range(message.content) : b.kind = "ToolResult"

\* The block kinds of message i that the Responses encoder writes: a message
\* with tool results is written as those results, and reasoning is not input.
ResponsesCarries(r, i) ==
    CASE r.messages[i].role = "System" -> IF FirstSystem(r, i) THEN {"Text"} ELSE {}
      [] HoldsResults(r.messages[i]) -> {"ToolResult"}
      [] OTHER -> {"Text", "Image", "Document", "Refusal", "ToolCall"}

\* Chat content parts, calls and tool results.
ChatCarries == {"Text", "Image", "Document", "Reasoning", "Refusal", "ToolCall", "ToolResult"}

\* Anthropic content blocks; system and developer messages are joined.
MessagesCarries == {"Text", "Image", "Document", "Reasoning", "Refusal", "ToolCall", "ToolResult"}

\* Gemini parts; the system instruction is the first system message.
GeminiCarries(r, i) ==
    IF r.messages[i].role = "System" /\ ~FirstSystem(r, i) THEN {}
    ELSE {"Text", "Image", "Document", "Reasoning", "Refusal", "ToolCall", "ToolResult"}

\* Is block b of message i in the body that encode_request writes?
CarriesBlock(r, target, i, b) ==
    b.kind \in CASE target = "chat" -> ChatCarries
                 [] target = "messages" -> MessagesCarries
                 [] target = "responses" -> ResponsesCarries(r, i)
                 [] target \in GeminiTargets -> GeminiCarries(r, i)

\* Does a tool result still name the call it answers?  The Chat encoder writes
\* the id of the message, not that of the block.
CarriesCallId(r, target, i) == target = "chat" => HasCallId(r.messages[i])

\* The request controls each encoder writes.
ChatControls ==
    {"effort", "disabled", "json_object", "json_schema", "metadata",
     "parallel_tool_calls", "tool_choice", "tools"}

MessagesControls == {"budget", "adaptive", "disabled", "tools", "tool_choice", "tool_cache"}

ResponsesControls ==
    {"effort", "disabled", "json_object", "json_schema", "tool_choice", "tools"}
        \union ResponsesTools

InteractionsControls == {"effort", "disabled", "json_object", "tools"}

GenerateControls ==
    {"budget", "disabled", "json_object", "json_schema", "tool_choice", "tools"}

CarriedControls ==
    [chat |-> ChatControls, messages |-> MessagesControls, responses |-> ResponsesControls,
     interactions |-> InteractionsControls, generate |-> GenerateControls]

\* Image detail and cache markers, by the block kinds each encoder puts them on.
CarriesExtra(target, block) ==
    CASE block.extra = "none" -> TRUE
      [] block.extra = "detail" -> target \in OpenaiTargets
      [] block.extra = "cache_control" -> target = "messages"
      [] block.extra = "breakpoint" -> target \in {"responses", "messages"}

(***************************************************************************)
(* The planner and the runtime.                                            *)
(***************************************************************************)

\* Defect: the planner trusts the notices and does not try the encoder.
PlannedNoDryRun(r, target) ==
    IF NativeBlocked(r, target) \/ BlocksRejected(r, target) THEN "unsupported"
    ELSE IF RequestNotices(r, target) \union NativeNotices(r, target) = {} THEN "exact"
    ELSE "adapted"

\* plan_request_translation: blocked by an error of the notices, of the native
\* summary or of a dry run of the encoder, otherwise graded by the notices.
Planned(r, target) ==
    IF NativeBlocked(r, target) \/ EncoderRejects(r, target) THEN "unsupported"
    ELSE IF EncoderNotices(r, target) \union NativeNotices(r, target) = {} THEN "exact"
    ELSE "adapted"

NoAttempt == [target |-> "none", rewrite |-> FALSE, reject |-> FALSE,
              result |-> "none", notices |-> {}]

NoAnswer == [items |-> {}, delivered |-> {}, notices |-> {}, result |-> "none"]

TranslationInit ==
    /\ request \in DecodedRequests
    /\ attempt = NoAttempt
    /\ plan = "none"
    /\ answer = NoAnswer

\* plan_canonical_request_translation for a target.
PlanFor(target) ==
    /\ attempt.target = "none"
    /\ attempt' = [attempt EXCEPT !.target = target]
    /\ plan' = Planned(request, target)
    /\ UNCHANGED <<request, answer>>

\* prepare_admitted_request: a Responses body for a Responses target is kept,
\* with the model rewritten; another native body is kept unless the model is
\* rewritten; everything else is encoded under the loss policy.
PrepareRequest(rewrite, reject) ==
    LET target  == attempt.target
        native  == request.client = target /\ (target = "responses" \/ ~rewrite)
        notices == EncoderNotices(request, target) \union NativeNotices(request, target)
        prepared(result, noted) ==
            attempt' = [attempt EXCEPT !.rewrite = rewrite, !.reject = reject,
                                       !.result = result, !.notices = noted]
    IN  /\ target # "none" /\ attempt.result = "none"
        /\ IF native THEN prepared("native", {})
           ELSE IF NativeBlocked(request, target) \/ EncoderRejects(request, target)
           THEN prepared("unsupported", {})
           ELSE IF reject /\ notices # {} THEN prepared("loss_rejected", {})
           ELSE prepared("encoded", notices)
        /\ UNCHANGED <<request, plan, answer>>

(***************************************************************************)
(* The answer: the items a provider of each surface may return, as its     *)
(* decoder reads them; Undecodable are those the decoder refuses.          *)
(***************************************************************************)

ChatItems == {"Text", "Reasoning", "Refusal", "ToolCall", "Image", "choices"}

MessagesItems == {"Text", "Reasoning", "ToolCall", "Image", "redacted"}

ResponsesItems == {"Text", "Reasoning", "Refusal", "ToolCall", "Image", "ToolResult", "native"}

InteractionsItems == {"Text", "Reasoning", "ToolCall", "ToolResult", "native"}

GenerateItems == {"Text", "Reasoning", "ToolCall", "ToolResult", "Image"}

ProviderItems ==
    [chat |-> ChatItems, messages |-> MessagesItems, responses |-> ResponsesItems,
     interactions |-> InteractionsItems, generate |-> GenerateItems]

\* A second choice, redacted thinking, an item of a type the decoder lacks.
Undecodable == {"choices", "redacted", "native"}

\* encode_openai_response
ChatOutput(items) == [body |-> items, notices |-> {}]

\* encode_anthropic_response: a refusal is written as text, with a notice.
MessagesOutput(items) ==
    [body |-> items \ {"Refusal"}, notices |-> items \intersect {"Refusal"}]

\* encode_responses_response
ResponsesOutput(items) == [body |-> items, notices |-> {}]

ClientOutput(client, items) ==
    CASE client = "chat" -> ChatOutput(items)
      [] client = "messages" -> MessagesOutput(items)
      [] client = "responses" -> ResponsesOutput(items)

\* decode_finite_response: the answer decodes and is encoded for the client
\* under the loss policy; a native answer is passed on as it came, but only
\* once it has decoded.
ReceiveAnswer(items) ==
    LET out    == ClientOutput(request.client, items)
        native == request.client = attempt.target
        outcome(result, body, notices) ==
            answer' = [items |-> items, delivered |-> body, notices |-> notices,
                       result |-> result]
    IN  /\ attempt.result \in {"native", "encoded"} /\ answer.result = "none"
        /\ IF items \intersect Undecodable # {} THEN outcome("malformed", {}, {})
           ELSE IF native THEN outcome("success", items, {})
           ELSE IF "ToolResult" \in items THEN outcome("unencodable", {}, {})
           ELSE IF attempt.reject /\ out.notices # {} THEN outcome("loss_rejected", {}, {})
           ELSE outcome("success", out.body, out.notices)
        /\ UNCHANGED <<request, attempt, plan>>

\* A provider error, a body that is too large or is not JSON, or (found by
\* classify_freeform_output) a call of a wrapped tool whose arguments are not
\* the wrapper: the attempt fails.
FailAnswer ==
    /\ attempt.result \in {"native", "encoded"} /\ answer.result = "none"
    /\ answer' = [answer EXCEPT !.result = "failed"]
    /\ UNCHANGED <<request, attempt, plan>>

TranslationNext ==
    \/ \E target \in TargetSurfaces : PlanFor(target)
    \/ \E rewrite, reject \in BOOLEAN : PrepareRequest(rewrite, reject)
    \/ /\ attempt.target # "none"
       /\ \E k \in 1 .. 2 :
              \E items \in kSubset(k, ProviderItems[attempt.target]) : ReceiveAnswer(items)
    \/ FailAnswer

(***************************************************************************)
(* Properties.                                                             *)
(***************************************************************************)

\* Encoders and notices are written in different files and must agree: a
\* reasoning, structured-output, metadata, cache or image control that an
\* encoded body lacks is named by a notice, so that the loss policy and the
\* client's warnings cover it.
OmissionsAreNoted ==
    attempt.result = "encoded" =>
        /\ \A c \in request.controls \ {"parallel_tool_calls", "tool_choice"} :
               \/ c \in CarriedControls[attempt.target]
               \/ c \in attempt.notices
               \/ c \in ReasoningIntents /\ "reasoning" \in attempt.notices
        /\ \A b \in Blocks(request) :
               \/ CarriesExtra(attempt.target, b)
               \/ b.extra \in attempt.notices
               \/ b.extra = "breakpoint" /\ attempt.target = "chat"

\* The planner's verdict is the encoder's: what it calls unsupported is refused
\* before dispatch, what it calls exact is encoded without a notice even under
\* the reject policy, and what it calls adapted is encoded with one.
PlanAgreesWithEncoder ==
    /\ attempt.result = "unsupported" => plan = "unsupported"
    /\ attempt.result = "loss_rejected" => plan = "adapted"
    /\ attempt.result = "encoded" =>
           plan = IF attempt.notices = {} THEN "exact" ELSE "adapted"

\* A client that gets a successful answer gets all of it, on every pair of
\* surfaces: an item of the provider's answer is in the body, or a notice says
\* that it was rewritten.
AnswersAreWhole ==
    answer.result = "success" => answer.items \subseteq answer.delivered \union answer.notices

\* "Exact" means that the target grammar carries every canonical field: every
\* block, every control, and the call that a tool result answers.
ExactCarriesEverything ==
    (plan = "exact" /\ attempt.result = "encoded") =>
        /\ request.controls \subseteq CarriedControls[attempt.target]
        /\ \A i \in DOMAIN request.messages :
               /\ HoldsResults(request.messages[i]) => CarriesCallId(request, attempt.target, i)
               /\ \A b \in Range(request.messages[i].content) :
                      CarriesBlock(request, attempt.target, i, b)
=============================================================================
