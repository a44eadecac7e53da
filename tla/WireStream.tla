------------------------------ MODULE WireStream ------------------------------
(* One translated stream: the provider's SSE frames are decoded into canonical
   events, chunk by chunk, and encoded for the client's surface.

   A frame is what decode_stream_event tells apart; its text is one unit long.
   A tool call sits in a slot: the provider's index, its call id and its item id
   all follow from the slot.  Output frames keep their kind and the output item
   they name.  Framing itself (bytes to frames), usage counts and identifiers
   other than those of calls are left out. *)
EXTENDS Naturals, Sequences, SequencesExt, FiniteSets, FiniteSetsExt

CONSTANTS
    Slots,                        \* positions of tool calls in the answer
    MaxFrames,                    \* bound: frames of a stream
    MAX_TRANSLATED_ITEM_BYTES,
    MAX_TRANSLATED_STREAM_BYTES,
    MAX_ACTIVE_TOOL_CALLS

VARIABLES
    decoder,    \* StreamEventDecoder: adapter, evidence, counters, identity state
    events,     \* canonical events of the chunk being decoded
    encoder,    \* ClientStreamEncoder: terminal state and Responses lifecycle
    sent,       \* frames handed to the client
    relay       \* "open", or how the relay ended

wireVars == <<decoder, events, encoder, sent, relay>>

NoId == <<"none", 0>>
CallId(s) == <<"call", s>>
ItemId(s) == <<"item", s>>
NoSlot == 0
NoText == [item |-> 0, bytes |-> 0]

Adapters == {"chat", "responses", "messages", "interactions", "generate_content"}
Surfaces == {"chat", "responses", "messages"}
ToolKinds == {"Function", "Freeform", "DeferredSearch"}

WireInit ==
    /\ decoder \in [adapter: Adapters, evidence: {"none"}, malformed: {0}, frames: {0},
                    items: {{}}, completed: {{}}, synthetic: {1}]
    /\ events = <<>>
    /\ encoder \in [surface: Surfaces, kind: ToolKinds, emitted: {FALSE},
                    deferred: {FALSE}, created: {FALSE}, message: {NoText},
                    reasoning: {NoText}, tools: {{}}, byIndex: {[s \in Slots |-> NoId]},
                    next: {1}, retained: {0}, failed: {FALSE}, out: {<<>>}]
    /\ encoder.surface # "responses" => encoder.kind = "Function"
    /\ sent = <<>>
    /\ relay = "open"

Event(type) == [type |-> type, call |-> NoId, slot |-> NoSlot, full |-> FALSE]
ToolEvent(type, call, slot) == [Event(type) EXCEPT !.call = call, !.slot = slot]

\* The frames of each dialect, with the slot they speak of.
FrameNames == [chat |-> {"text", "reasoning", "finish", "usage", "done", "error"},
               responses |-> {"created", "text", "reasoning", "completed", "incomplete",
                              "failed", "error"},
               messages |-> {"start", "text", "reasoning", "message_delta",
                             "message_stop", "error"},
               interactions |-> {"created", "text", "reasoning", "completed",
                                 "incomplete", "error"},
               generate_content |-> {"text", "reasoning", "function_call", "usage",
                                     "completed", "incomplete", "error"}]
SlotFrameNames == [chat |-> {"tool", "arguments"},
                   responses |-> {"tool", "arguments", "stop"},
                   messages |-> {"tool", "arguments", "stop"},
                   interactions |-> {"tool", "arguments", "stop"},
                   generate_content |-> {}]
Frames(adapter) == (FrameNames[adapter] \X {NoSlot}) \cup (SlotFrameNames[adapter] \X Slots)

\* decode_openai_chat: [DONE] is no event; arguments come by index.
ChatEvents(name, s) ==
    CASE name = "text" -> <<Event("TextDelta")>>
      [] name = "reasoning" -> <<Event("ReasoningDelta")>>
      [] name = "tool" -> <<ToolEvent("ToolCallStart", CallId(s), s)>>
      [] name = "arguments" -> <<ToolEvent("ToolCallArgumentsDelta", NoId, s)>>
      [] name = "finish" -> <<Event("ResponseComplete")>>
      [] name = "usage" -> <<Event("Usage")>>
      [] name = "done" -> <<>>
      [] name = "error" -> <<Event("Error")>>

\* decode_openai_responses: arguments and stops come by item, which the decoder
\* resolves to the call it was added with; a second stop of a call is dropped.
ResponsesEvents(name, s) ==
    CASE name = "created" -> <<Event("ResponseStart")>>
      [] name = "text" -> <<Event("TextDelta")>>
      [] name = "reasoning" -> <<Event("ReasoningDelta")>>
      [] name = "tool" -> <<ToolEvent("ToolCallStart", CallId(s), NoSlot)>>
      [] name = "arguments" -> <<ToolEvent("ToolCallArgumentsDelta",
                IF s \in decoder.items THEN CallId(s) ELSE ItemId(s), NoSlot)>>
      [] name = "stop" -> IF s \in decoder.completed THEN <<>>
                ELSE <<[ToolEvent("ToolCallStop", CallId(s), NoSlot) EXCEPT !.full = TRUE]>>
      [] name = "completed" -> <<Event("Usage"), Event("ResponseComplete")>>
      [] name \in {"incomplete", "failed"} -> <<Event("Usage"), Event("ResponseIncomplete")>>
      [] name = "error" -> <<Event("Error")>>

\* decode_anthropic: the stop reason and message_stop are both terminal events.
MessagesEvents(name, s) ==
    CASE name = "start" -> <<Event("ResponseStart"), Event("Usage")>>
      [] name = "text" -> <<Event("TextDelta")>>
      [] name = "reasoning" -> <<Event("ReasoningDelta")>>
      [] name = "tool" -> <<ToolEvent("ToolCallStart", CallId(s), s)>>
      [] name = "arguments" -> <<ToolEvent("ToolCallArgumentsDelta", NoId, s)>>
      [] name = "stop" -> <<ToolEvent("ContentStop", NoId, s)>>
      [] name = "message_delta" -> <<Event("Usage"), Event("ResponseComplete")>>
      [] name = "message_stop" -> <<Event("ResponseComplete")>>
      [] name = "error" -> <<Event("Error")>>

\* decode_interactions: steps are blocks; the status decides the terminal.
InteractionsEvents(name, s) ==
    CASE name = "created" -> <<Event("ResponseStart")>>
      [] name = "text" -> <<Event("TextDelta")>>
      [] name = "reasoning" -> <<Event("ReasoningDelta")>>
      [] name = "tool" -> <<ToolEvent("ToolCallStart", CallId(s), s)>>
      [] name = "arguments" -> <<ToolEvent("ToolCallArgumentsDelta", NoId, s)>>
      [] name = "stop" -> <<ToolEvent("ContentStop", NoId, s)>>
      [] name = "completed" -> <<Event("Usage"), Event("ResponseComplete")>>
      [] name = "incomplete" -> <<Event("Usage"), Event("ResponseIncomplete")>>
      [] name = "error" -> <<Event("Error")>>

\* decode_generate_content: a whole call in one part, under an id made up here;
\* an error frame has no event of its own.
GenerateEvents(name) ==
    CASE name = "text" -> <<Event("TextDelta")>>
      [] name = "reasoning" -> <<Event("ReasoningDelta")>>
      [] name = "function_call" ->
             <<ToolEvent("ToolCallStart", <<"synthetic", decoder.synthetic>>, NoSlot),
               ToolEvent("ToolCallArgumentsDelta", <<"synthetic", decoder.synthetic>>, NoSlot)>>
      [] name = "usage" -> <<Event("Usage")>>
      [] name = "completed" -> <<Event("ResponseComplete")>>
      [] name = "incomplete" -> <<Event("ResponseIncomplete")>>
      [] name = "error" -> <<>>

\* decode_stream_event_into.
DecodedAs(name, s) ==
    CASE decoder.adapter = "chat" -> ChatEvents(name, s)
      [] decoder.adapter = "responses" -> ResponsesEvents(name, s)
      [] decoder.adapter = "messages" -> MessagesEvents(name, s)
      [] decoder.adapter = "interactions" -> InteractionsEvents(name, s)
      [] decoder.adapter = "generate_content" -> GenerateEvents(name)

\* observe_terminal: the first terminal frame is the evidence; an error wins.
Evidence(name) ==
    IF name = "error" THEN "error"
    ELSE IF decoder.evidence # "none" THEN decoder.evidence
    ELSE CASE decoder.adapter = "chat" /\ name = "done" -> "success"
           [] decoder.adapter = "messages" /\ name = "message_stop" -> "success"
           [] decoder.adapter \notin {"chat", "messages"} /\ name = "completed" -> "success"
           [] name \in {"incomplete", "failed"} -> "incomplete"
           [] OTHER -> "none"

-----------------------------------------------------------------------------
(* The Responses encoder keeps the items it has opened.                    *)

Emit(enc, kind, item) == [enc EXCEPT !.out = Append(@, [kind |-> kind, item |-> item])]

\* ensure_created: the first event of any kind opens the response.
EnsureCreated(enc) ==
    IF enc.created THEN enc ELSE [Emit(enc, "created", 0) EXCEPT !.created = TRUE]

\* close_message / close_reasoning.
CloseText(enc, which) ==
    IF enc[which] = NoText THEN enc
    ELSE [Emit(enc, "item_done", enc[which].item) EXCEPT
              ![which] = NoText, !.retained = @ - enc[which].bytes]

Reindexed(enc) == [Emit(enc, "item_added", enc.next) EXCEPT !.next = @ + 1]

Fail(enc) == [enc EXCEPT !.failed = TRUE]

\* check_append for one unit on an item that holds so many.
Exceeds(enc, bytes) ==
    bytes + 1 > MAX_TRANSLATED_ITEM_BYTES \/ enc.retained + 1 > MAX_TRANSLATED_STREAM_BYTES

\* A text or a reasoning delta: the other kind is closed, an item is opened.
AppendText(enc, which, other) ==
    LET closed == CloseText(enc, other)
        opened == IF closed[which] # NoText THEN closed
                  ELSE [Reindexed(closed) EXCEPT ![which] = [item |-> closed.next, bytes |-> 0]]
    IN  IF Exceeds(opened, opened[which].bytes) THEN Fail(opened)
        ELSE [Emit(opened, "delta", opened[which].item) EXCEPT
                  ![which].bytes = @ + 1, !.retained = @ + 1]

HasTool(enc, call) == \E t \in enc.tools : t.call = call
ToolOf(enc, call) == CHOOSE t \in enc.tools : t.call = call

OpenTool(enc, call, slot, kind) ==
    IF Cardinality(enc.tools) >= MAX_ACTIVE_TOOL_CALLS THEN Fail(enc)
    ELSE [Reindexed(enc) EXCEPT !.tools = @ \cup
              {[call |-> call, item |-> enc.next, slot |-> slot, bytes |-> 0, kind |-> kind]}]

StartTool(enc, e) ==
    LET closed == CloseText(CloseText(enc, "message"), "reasoning")
        opened == OpenTool(closed, e.call, e.slot, enc.kind)
    IN  IF HasTool(closed, e.call) THEN closed
        ELSE IF e.slot = NoSlot THEN opened
        ELSE [opened EXCEPT !.byIndex[e.slot] = e.call]

\* The call a delta belongs to: its own id, the index's, or a made-up one.
DeltaCall(enc, e) ==
    CASE e.call # NoId -> e.call
      [] e.call = NoId /\ enc.byIndex[e.slot] # NoId -> enc.byIndex[e.slot]
      [] OTHER -> <<"eggpool", e.slot>>

AppendArguments(enc, e) ==
    LET call == DeltaCall(enc, e)
        opened == IF HasTool(enc, call) THEN enc ELSE OpenTool(enc, call, e.slot, "Function")
        tool == ToolOf(opened, call)
        grown == [opened EXCEPT !.tools = (@ \ {tool}) \cup {[tool EXCEPT !.bytes = @ + 1]},
                                !.retained = @ + 1]
    IN  CASE opened.failed -> opened
          [] ~opened.failed /\ Exceeds(opened, tool.bytes) -> Fail(opened)
          [] ~opened.failed /\ ~Exceeds(opened, tool.bytes) /\ tool.kind = "DeferredSearch" -> grown
          [] OTHER -> Emit(grown, "delta", tool.item)

\* close_tool: arguments given with the stop replace the collected ones; those
\* of a freeform or search tool must parse, and valid says whether they do.
CloseTool(enc, call, valid) ==
    IF ~HasTool(enc, call) \/ enc.failed THEN enc
    ELSE LET tool == ToolOf(enc, call)
             freed == [enc EXCEPT !.tools = @ \ {tool}, !.retained = @ - tool.bytes]
             last == IF tool.kind = "DeferredSearch" THEN freed
                     ELSE Emit(freed, "arguments_done", tool.item)
         IN  IF tool.kind # "Function" /\ ~valid THEN Fail(freed)
             ELSE Emit(last, "item_done", tool.item)

\* Defect: a terminal event leaves the open tool calls open.
CloseAllTexts(enc, valid) == CloseText(CloseText(enc, "message"), "reasoning")

\* What a terminal event closes: the message, the reasoning, every tool call.
CloseAll(enc, valid) ==
    FoldSet(LAMBDA t, acc : CloseTool(acc, t.call, valid),
            CloseText(CloseText(enc, "message"), "reasoning"), enc.tools)

Terminal(enc, kind) ==
    IF enc.failed THEN enc ELSE [Emit(enc, kind, 0) EXCEPT !.emitted = TRUE]

\* encode_responses.
EncodeResponses(started, e, valid) ==
    LET enc == EnsureCreated(started) IN
    CASE e.type \in {"ResponseStart", "Usage"} -> enc
      [] e.type = "TextDelta" -> AppendText(enc, "message", "reasoning")
      [] e.type = "ReasoningDelta" -> AppendText(enc, "reasoning", "message")
      [] e.type = "ToolCallStart" -> StartTool(enc, e)
      [] e.type = "ToolCallArgumentsDelta" -> AppendArguments(enc, e)
      [] e.type = "ToolCallStop" -> CloseTool(enc, e.call, valid)
      [] e.type = "ContentStop" ->
             IF \E t \in enc.tools : t.slot = e.slot
             THEN CloseTool(enc, (CHOOSE t \in enc.tools : t.slot = e.slot).call, valid)
             ELSE enc
      [] e.type = "ResponseComplete" -> Terminal(CloseAll(enc, valid), "terminator")
      [] e.type = "ResponseIncomplete" -> Terminal(CloseAll(enc, valid), "terminator")
      [] e.type = "Error" -> Terminal(CloseAll(enc, valid), "terminator")

\* encode_chat: [DONE] on the first complete event; an incomplete one or an
\* error is a chunk like the others.
EncodeChat(enc, e) ==
    IF e.type = "ResponseComplete"
    THEN [Emit(enc, "terminator", 0) EXCEPT !.emitted = TRUE]
    ELSE Emit(enc, "chunk", 0)

\* encode_messages: the stop waits for the usage, and goes out with it.
EncodeMessages(enc, e) ==
    CASE e.type = "ResponseComplete" -> [enc EXCEPT !.deferred = TRUE]
      [] e.type = "Usage" /\ enc.deferred ->
             [Emit(Emit(enc, "message_delta", 0), "terminator", 0) EXCEPT
                  !.deferred = FALSE, !.emitted = TRUE]
      [] OTHER -> Emit(enc, "chunk", 0)

\* ClientStreamEncoder::encode: nothing follows the terminator.
Encoded(enc, e, valid) ==
    CASE enc.failed \/ enc.emitted -> enc
      [] ~enc.failed /\ ~enc.emitted /\ enc.surface = "responses" -> EncodeResponses(enc, e, valid)
      [] ~enc.failed /\ ~enc.emitted /\ enc.surface = "chat" -> EncodeChat(enc, e)
      [] OTHER -> EncodeMessages(enc, e)

\* flush: a deferred Messages stop goes out at the end of the stream.
Flushed(enc) ==
    IF enc.surface = "messages" /\ enc.deferred /\ ~enc.emitted
    THEN [Emit(Emit(enc, "message_delta", 0), "terminator", 0) EXCEPT
              !.deferred = FALSE, !.emitted = TRUE]
    ELSE enc

-----------------------------------------------------------------------------
InChunk == events # <<>>

\* A frame of the chunk at hand, or of the next one.  After a clean terminal
\* the relay pulls no further chunk.
DecodeFrame ==
    /\ relay = "open" /\ decoder.frames < MaxFrames
    /\ InChunk \/ decoder.evidence = "none" \/ decoder.malformed > 0
    /\ \E f \in Frames(decoder.adapter) :
           LET name == f[1] s == f[2] IN
           /\ events' = events \o DecodedAs(name, s)
           /\ decoder' = [decoder EXCEPT
                  !.frames = @ + 1,
                  !.evidence = Evidence(name),
                  !.items = IF name \in {"tool", "stop"} THEN @ \cup {s} ELSE @,
                  !.completed = IF name = "stop" THEN @ \cup {s} ELSE @,
                  !.synthetic = IF name = "function_call" THEN @ + 1 ELSE @]
    /\ UNCHANGED <<encoder, sent, relay>>

\* A frame that does not parse costs the whole chunk.
MalformedFrame ==
    /\ relay = "open" /\ decoder.frames < MaxFrames
    /\ InChunk \/ decoder.evidence = "none" \/ decoder.malformed > 0
    /\ decoder' = [decoder EXCEPT !.frames = @ + 1, !.malformed = @ + 1]
    /\ events' = <<>>
    /\ UNCHANGED <<encoder, sent, relay>>

\* decode_chunk: the chunk's events are encoded and forwarded together, or a
\* translation error ends the relay and the chunk is not sent.
EncodeChunk(valid) ==
    LET after == FoldLeft(LAMBDA enc, e : Encoded(enc, e, valid), encoder, events) IN
    /\ relay = "open" /\ InChunk
    /\ events' = <<>>
    /\ encoder' = [after EXCEPT !.out = <<>>]
    /\ IF after.failed THEN relay' = "translation_error" /\ UNCHANGED sent
       ELSE sent' = sent \o after.out /\ UNCHANGED relay
    /\ UNCHANGED decoder

\* store_forwarded_terminal, or store_eof when the body ends.
EndStream(atEof) ==
    /\ relay = "open" /\ ~InChunk
    /\ atEof \/ (decoder.evidence # "none" /\ decoder.malformed = 0)
    /\ encoder' = [Flushed(encoder) EXCEPT !.out = <<>>]
    /\ sent' = sent \o Flushed(encoder).out
    /\ relay' = IF decoder.malformed > 0 THEN "malformed"
                ELSE IF decoder.evidence = "none" THEN "eof" ELSE decoder.evidence
    /\ UNCHANGED <<decoder, events>>

WireNext ==
    \/ DecodeFrame
    \/ MalformedFrame
    \/ \E valid \in BOOLEAN : EncodeChunk(valid)
    \/ \E atEof \in BOOLEAN : EndStream(atEof)

-----------------------------------------------------------------------------
Positions(kind, item) == {i \in DOMAIN sent : sent[i] = [kind |-> kind, item |-> item]}

\* "Responses owns lifecycle state so translated streams contain complete
\* message, reasoning, and function-call items": whatever the provider's order,
\* an item is added once, its deltas come between its added and its done frame,
\* and no item is still open when the terminal frame goes out.
ItemsAreComplete ==
    encoder.surface = "responses" => \A i \in DOMAIN sent :
        LET item == sent[i].item IN
        /\ item # 0 => /\ Cardinality(Positions("item_added", item)) = 1
                       /\ Cardinality(Positions("item_done", item)) <= 1
                       /\ \A a \in Positions("item_added", item) : a <= i
                       /\ \A d \in Positions("item_done", item) : i <= d
        /\ sent[i].kind = "terminator" =>
               \A j \in 1..i : sent[j].kind = "item_added" =>
                   \E d \in Positions("item_done", sent[j].item) : d < i

\* "The encoder therefore owns exactly one terminator per stream": never two,
\* and nothing follows it, whichever frames the provider repeats or reorders.
NothingAfterTerminator ==
    \A i \in DOMAIN sent : sent[i].kind = "terminator" => i = Len(sent)

\* The retained bytes that the stream limit is charged with are those of the
\* items still open.
RetainedBytesAreHeld ==
    ~encoder.failed =>
        encoder.retained = MapThenSumSet(LAMBDA t : t.bytes, encoder.tools)
                           + encoder.message.bytes + encoder.reasoning.bytes

\* "exactly one terminator per stream": a stream that is stored as complete or
\* incomplete has closed the client's stream too.
TerminatorReachesClient ==
    relay \in {"success", "incomplete"} => encoder.emitted
=============================================================================
