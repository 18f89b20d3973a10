---------------------------- MODULE MessagesHandler ----------------------------
(***************************************************************************)
(* One request for messages from its arrival to its answer:                *)
(* src/src/anthropic/handlers.rs (/v1/messages and /cc/v1/messages), the    *)
(* web searches of websearch.rs and the loop of websearch_loop.rs that      *)
(* searches on the model's behalf and asks again.                           *)
(*                                                                         *)
(* A request takes one of five routes: a search alone, the search loop, a   *)
(* stream, a buffered stream, a whole answer.  The provider's call is       *)
(* CallRetry's: here it ends with an answer and the slot that goes with     *)
(* it, or with an error.  What the model sends are events; how a stream is  *)
(* turned into the client's events is SseStream's.  What is followed here   *)
(* is what surrounds it: who holds the slot, what was recorded, which tool  *)
(* calls reach the client, and what a client that goes away leaves behind.  *)
(***************************************************************************)
EXTENDS Naturals, SequencesExt

CONSTANTS
  Payloads,               \* requests: tools, stream, buffered, thinking, valid,
                          \* and whether a provider is configured
  MAX_WEB_SEARCH_ROUNDS,
  MaxEvents               \* bound on the events of one upstream answer

VARIABLES
  payload,       \* the request
  pc,            \* where the handler waits
  round,         \* round_idx of the loop
  history,       \* messages the loop appends to the payload
  presentation,  \* blocks of the searches of finished rounds
  got,           \* what was decoded of the upstream answer under way
  searched,      \* results of this round's searches, in the order of its calls
  credits,       \* total_credits of the loop
  slot,          \* a SlotGuard is held
  usage,         \* what UsageRecordHook recorded
  traces,        \* what RequestTracer stored
  answer,        \* the response: <<>> or one record
  metered,       \* credits upstream metered for this request
  client         \* "there" or "gone"

conversation == <<round, history, presentation, searched, credits>>
reported == <<usage, traces, answer>>
vars == <<payload, pc, conversation, got, slot, reported, metered, client>>

Nothing == [text |-> <<>>, tools |-> <<>>, thought |-> FALSE, credits |-> 0,
            override |-> "none", events |-> 0]

-----------------------------------------------------------------------------
(* Routing.                                                                *)

\* A native search tool alone, or among others.
Route(p) ==
  IF p.tools = {"web_search"} THEN "search"
  ELSE IF "web_search" \in p.tools THEN "loop"
  ELSE IF ~p.stream THEN "whole"
  ELSE IF p.buffered THEN "buffered" ELSE "stream"

route == Route(payload)
Traced == route \in {"stream", "buffered", "whole"}

\* map_provider_error.
StatusOf ==
  [busy |-> 429, context |-> 400, input |-> 400, validation |-> 400, other |-> 502]

-----------------------------------------------------------------------------
(* Tool calls and what the client is shown.                                *)

Input(tool) == IF tool.whole THEN tool.input ELSE "{}"
IsSearch(tool) == tool.name = "web_search"

\* partition_tool_uses: the calls the client is to run.
ClientTools(tools) == {t \in Range(tools) : ~IsSearch(t)}

\* should_search_round: searches only, and rounds left.
ShouldSearchRound(tools) ==
  tools # <<>> /\ ClientTools(tools) = {} /\ round < MAX_WEB_SEARCH_ROUNDS

ToolBlock(tool) == [type |-> "tool_use", name |-> tool.name, input |-> Input(tool)]
SearchBlocks(found) ==
  <<[type |-> "server_tool_use", name |-> "web_search", input |-> "query"],
    [type |-> "web_search_tool_result", name |-> "web_search", input |-> found]>>
Text == [type |-> "text", name |-> "", input |-> ""]

\* A call leaked into the text is one of the client's tools'.
Reclaimed(x, known) == x.type = "tool_use" /\ x.name \in known \ {"web_search"}

\* Mutant of TextBlocks: a call leaked into the text is kept beside the call.
EveryTextBlock(x, tools, known) == <<IF Reclaimed(x, known) THEN x ELSE Text>>

\* The blocks of a piece of text: a call leaked into it is a tool call, unless
\* the same call was made as such.
TextBlocks(x, tools, known) ==
  IF ~Reclaimed(x, known) THEN <<Text>>
  ELSE IF \E t \in ClientTools(tools) : t.name = x.name /\ Input(t) = x.input THEN <<>>
  ELSE <<x>>

\* Mutant of CallBlocks: the last round's searches go out as calls.
RawCallBlocks(tool, found) == <<ToolBlock(tool)>>

CallBlocks(tool, found) ==
  IF IsSearch(tool) THEN SearchBlocks(found) ELSE <<ToolBlock(tool)>>

\* build_flush_content.
BuildFlushContent(shown, text, tools, found, known) ==
  shown \o FlattenSeq([i \in DOMAIN text |-> TextBlocks(text[i], tools, known)])
        \o FlattenSeq([i \in DOMAIN tools |-> CallBlocks(tools[i], found[i])])

IsClientCall(block) == block.type = "tool_use" /\ block.name # "web_search"

\* resolve_flush_stop_reason.
FlushStopReason(override, tools, content) ==
  IF override # "none" THEN override
  ELSE IF (\E i \in DOMAIN content : IsClientCall(content[i])) \/ ClientTools(tools) # {}
       THEN "tool_use" ELSE "end_turn"

\* build_non_stream_content and the finished tool calls: a thought is a
\* block of its own, or the text when thinking is off and there is no other.
WholeContent(p) ==
  LET thought == [type |-> "thinking", name |-> "", input |-> ""]
      finished == SelectSeq(got.tools, LAMBDA t : t.stopped)
  IN  (IF p.thinking /\ got.thought THEN <<thought>> ELSE <<>>)
      \o (IF got.text # <<>> \/ (got.thought /\ ~p.thinking) THEN <<Text>> ELSE <<>>)
      \o [i \in DOMAIN finished |-> ToolBlock(finished[i])]

WholeStopReason ==
  IF got.override = "none" /\ got.tools # <<>> THEN "tool_use"
  ELSE IF got.override = "none" THEN "end_turn" ELSE got.override

-----------------------------------------------------------------------------
(* Endings: one usage record, a trace on the traced routes, the response.  *)

Answer(status, content, reason) ==
  <<[status |-> status, content |-> content, reason |-> reason]>>

Finish(outcome, credit, status, content, reason) ==
  /\ pc' = "done"
  /\ slot' = FALSE
  /\ usage' = Append(usage, [status |-> IF outcome = "success" THEN "success" ELSE "error",
                             credits |-> credit])
  /\ traces' = IF Traced THEN Append(traces, outcome) ELSE traces
  /\ answer' = Answer(status, content, reason)
  /\ UNCHANGED <<payload, conversation, got, metered, client>>

Init ==
  /\ payload \in Payloads
  /\ pc = "received"
  /\ round = 0 /\ history = <<>> /\ presentation = <<>> /\ searched = <<>> /\ credits = 0
  /\ got = Nothing
  /\ slot = FALSE
  /\ usage = <<>> /\ traces = <<>> /\ answer = <<>>
  /\ metered = 0
  /\ client = "there"

-----------------------------------------------------------------------------
(* post_messages and post_messages_cc.                                     *)

\* A request that goes no further: no provider, no query to search for, a
\* model or messages that cannot be converted.  The tracer is made later.
Refuse ==
  /\ pc = "received" /\ ~(payload.provider /\ payload.valid)
  /\ pc' = "done"
  /\ usage' = Append(usage, [status |-> "error", credits |-> 0])
  /\ answer' = Answer(IF payload.provider THEN 400 ELSE 503, <<>>, "none")
  /\ UNCHANGED <<payload, conversation, got, slot, traces, metered, client>>

Accept ==
  /\ pc = "received" /\ payload.provider /\ payload.valid
  /\ pc' = IF route = "search" THEN "searching" ELSE "calling"
  /\ UNCHANGED <<payload, conversation, got, slot, reported, metered, client>>

\* handle_websearch_request: the results, or none when the search failed; the
\* status is that of the response, which is 200.
SearchAlone(found) ==
  /\ pc = "searching" /\ route = "search"
  /\ Finish("success", 0, 200, <<Text>> \o SearchBlocks(found) \o <<Text>>, "end_turn")

-----------------------------------------------------------------------------
(* The upstream call and its answer.                                       *)

\* call_api, call_api_stream: the response comes with a slot.
CallSucceeds ==
  /\ pc = "calling"
  /\ pc' = "reading"
  /\ slot' = TRUE
  /\ got' = Nothing
  /\ answer' = IF route \in {"stream", "buffered"} THEN Answer(200, <<>>, "none") ELSE answer
  /\ UNCHANGED <<payload, conversation, usage, traces, metered, client>>

CallFails(e) ==
  /\ pc = "calling"
  /\ Finish("error", 0, StatusOf[e], <<>>, "none")

\* One event of the answer.
Upstream(change) ==
  /\ pc = "reading" /\ got.events < MaxEvents
  /\ got' = [change EXCEPT !.events = @ + 1]
  /\ UNCHANGED <<payload, pc, conversation, slot, reported, client>>

AssistantResponse ==
  /\ Upstream([got EXCEPT !.text = Append(@, Text)])
  /\ UNCHANGED metered

\* The model writes a call as text.
LeakedCall(name) ==
  /\ Upstream([got EXCEPT !.text =
                 Append(@, [type |-> "tool_use", name |-> name, input |-> "args"])])
  /\ UNCHANGED metered

ReasoningContent ==
  /\ Upstream([got EXCEPT !.thought = TRUE])
  /\ UNCHANGED metered

\* The pieces of a tool call: its input is whole after the last.
ToolUseStarts(name) ==
  /\ Upstream([got EXCEPT !.tools =
                 Append(@, [name |-> name, input |-> "args", whole |-> FALSE, stopped |-> FALSE])])
  /\ UNCHANGED metered

ToolUseEnds(i) ==
  /\ i \in DOMAIN got.tools /\ ~got.tools[i].stopped
  /\ Upstream([got EXCEPT !.tools[i].whole = TRUE, !.tools[i].stopped = TRUE])
  /\ UNCHANGED metered

Metering ==
  /\ Upstream([got EXCEPT !.credits = @ + 1])
  /\ metered' = metered + 1

ContextUsage ==
  /\ Upstream([got EXCEPT !.override = "model_context_window_exceeded"])
  /\ UNCHANGED metered

ContentLengthExceeded ==
  /\ Upstream([got EXCEPT !.override = "max_tokens"])
  /\ UNCHANGED metered

\* The connection breaks.  A stream, buffered or not, has a status of 200: it
\* is closed with what there is, and recorded as an error.
StreamBreaks ==
  /\ pc = "reading" /\ route \in {"stream", "buffered"}
  /\ Finish("interrupted", got.credits, 200, <<>>, "closed")

\* Mutant of WholeBreaks: it returns without its pair of calls.
BreaksUnrecorded ==
  /\ pc = "reading" /\ route = "whole"
  /\ pc' = "done" /\ slot' = FALSE
  /\ answer' = Answer(502, <<>>, "none")
  /\ UNCHANGED <<payload, conversation, got, usage, traces, metered, client>>

WholeBreaks ==
  /\ pc = "reading" /\ route = "whole"
  /\ Finish("interrupted", 0, 502, <<>>, "none")

\* What the round decoded is not used, nor are its credits and those of the
\* rounds before it recorded.
RoundBreaks ==
  /\ pc = "reading" /\ route = "loop"
  /\ Finish("error", 0, 502, <<>>, "none")

StreamEnds ==
  /\ pc = "reading" /\ route \in {"stream", "buffered"}
  /\ Finish("success", got.credits, 200, <<>>, "closed")

WholeEnds ==
  /\ pc = "reading" /\ route = "whole"
  /\ Finish("success", got.credits, 200, WholeContent(payload), WholeStopReason)

-----------------------------------------------------------------------------
(* run_web_search_loop.                                                    *)

\* Mutant of RoundDecoded: the guard is kept for the searches of the round.
RoundDecodedWithGuard ==
  /\ pc = "reading" /\ route = "loop"
  /\ credits' = credits + got.credits
  /\ searched' = <<>>
  /\ pc' = "searching"
  /\ UNCHANGED <<slot, payload, round, history, presentation, got, reported, metered, client>>

\* run_round ends with its guard.
RoundDecoded ==
  /\ pc = "reading" /\ route = "loop"
  /\ slot' = FALSE
  /\ credits' = credits + got.credits
  /\ searched' = <<>>
  /\ pc' = "searching"
  /\ UNCHANGED <<payload, round, history, presentation, got, reported, metered, client>>

\* The next call of the round: a search, or a client's tool, passed over.
SearchNext(found) ==
  LET i == Len(searched) + 1
  IN  /\ pc = "searching" /\ route = "loop" /\ i \in DOMAIN got.tools
      /\ searched' = Append(searched, IF IsSearch(got.tools[i]) THEN found ELSE "none")
      /\ UNCHANGED <<payload, pc, round, history, presentation, credits, got, slot, reported,
                     metered, client>>

SearchFails(e) ==
  LET i == Len(searched) + 1
  IN  /\ pc = "searching" /\ route = "loop" /\ i \in DOMAIN got.tools
      /\ IsSearch(got.tools[i])
      /\ Finish("error", credits, StatusOf[e], <<>>, "none")

AllSearched ==
  pc = "searching" /\ route = "loop" /\ Len(searched) = Len(got.tools)

\* append_search_round: the calls and their results go back upstream.
AppendSearchRound ==
  /\ AllSearched /\ ShouldSearchRound(got.tools)
  /\ history' = history \o <<[role |-> "assistant", calls |-> Len(got.tools)],
                             [role |-> "user", calls |-> Len(searched)]>>
  /\ presentation' = presentation \o
       FlattenSeq([i \in DOMAIN got.tools |-> SearchBlocks(searched[i])])
  /\ round' = round + 1
  /\ pc' = "calling"
  /\ UNCHANGED <<payload, searched, credits, got, slot, reported, metered, client>>

Flush ==
  LET content == BuildFlushContent(presentation, got.text, got.tools, searched, payload.tools)
  IN  /\ AllSearched /\ ~ShouldSearchRound(got.tools)
      /\ Finish("success", credits, 200, content,
                FlushStopReason(got.override, got.tools, content))

-----------------------------------------------------------------------------
\* The client goes away: the handler's future, or its stream, is dropped
\* where it waits, and the guard with it.
ClientLeaves ==
  /\ client = "there" /\ pc \in {"calling", "reading", "searching"}
  /\ client' = "gone"
  /\ pc' = "dropped"
  /\ slot' = FALSE
  /\ UNCHANGED <<payload, conversation, got, reported, metered>>

Found == {"results", "none"}
Errors == DOMAIN StatusOf

Events ==
  \/ AssistantResponse \/ ReasoningContent \/ Metering \/ ContextUsage \/ ContentLengthExceeded
  \/ \E name \in payload.tools : LeakedCall(name) \/ ToolUseStarts(name)
  \/ \E i \in DOMAIN got.tools : ToolUseEnds(i)

Ends ==
  \/ Refuse \/ Accept \/ CallSucceeds
  \/ StreamBreaks \/ WholeBreaks \/ RoundBreaks \/ StreamEnds \/ WholeEnds
  \/ RoundDecoded \/ AppendSearchRound \/ Flush
  \/ \E e \in Errors : CallFails(e) \/ SearchFails(e)
  \/ \E found \in Found : SearchAlone(found) \/ SearchNext(found)

Next == Events \/ Ends \/ ClientLeaves

Spec == Init /\ [][Next]_vars

-----------------------------------------------------------------------------
(* Properties.                                                             *)

\* Whatever way a request ends, its client there, exactly one usage record
\* and on the traced routes exactly one trace say so, and they agree with
\* each other: every early return has its own pair of calls.
OneRecordOneTrace ==
  /\ Len(usage) = (IF pc = "done" THEN 1 ELSE 0)
  /\ pc = "done" /\ Traced /\ payload.provider /\ payload.valid =>
       /\ Len(traces) = 1
       /\ (usage[1].status = "success") = (traces[1] = "success")
  /\ pc = "done" /\ usage[1].status = "success" => answer[1].status = 200

\* No request waits for a credential, to call or to search, while it holds the
\* slot of one: with every slot held that way nobody would get any.
NoHoldAndWait == pc \in {"calling", "searching"} => ~slot

\* A search the model asks for is never handed to the client, in whatever
\* round and whether it came as a call or leaked into text; and what goes back
\* upstream has one result for each call.
SearchStaysInside ==
  /\ \A a \in {answer[i] : i \in DOMAIN answer} : route = "loop" =>
       \A i \in DOMAIN a.content :
         a.content[i].type = "tool_use" => a.content[i].name # "web_search"
  /\ \A i \in 1 .. Len(history) \div 2 :
       /\ history[2 * i - 1].role = "assistant" /\ history[2 * i].role = "user"
       /\ history[2 * i - 1].calls = history[2 * i].calls

\* The loop's answer holds each call the client is to run once, also when the
\* model leaked it into its text as well, and stops for a tool exactly when
\* there is one, unless upstream gave another reason: the client neither runs
\* a command twice nor waits for a call that does not come.
LoopCallsFit ==
  (pc = "done" /\ route = "loop" /\ answer[1].status = 200) =>
    LET content == answer[1].content
        Times(s, b) == Cardinality({i \in DOMAIN s : s[i] = b})
        made == [i \in DOMAIN got.tools |-> ToolBlock(got.tools[i])]
    IN  /\ \A t \in ClientTools(got.tools) :
             Times(content, ToolBlock(t)) = Times(made, ToolBlock(t))
        /\ got.override = "none" =>
             (answer[1].reason = "tool_use" <=>
                \E i \in DOMAIN content : IsClientCall(content[i]))
=============================================================================
