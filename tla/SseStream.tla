------------------------------ MODULE SseStream ------------------------------
(***************************************************************************)
(* StreamContext of stream.rs: it turns the events of Kiro into those of   *)
(* the Messages API.  Text arrives in chunks cut anywhere; thinking and    *)
(* tool calls arrive as events of their own or hidden in the text.  The    *)
(* context is a record, that of SseStateManager with fields of its own,    *)
(* and each function of the code an operator from context to context that  *)
(* adds to `out` what the function returns.  A client reads one event at   *)
(* a time.                                                                 *)
(***************************************************************************)
EXTENDS ResponseText, SseStateManager

CONSTANTS
  Scripts,               \* what may come: [text, events], a bound on the other events
  ToolIds,               \* of tool calls that arrive as events
  MixesThinking,         \* may a model think both in tags and in events?
  MAX_INVOKE_HOLD_CELLS  \* 262144 bytes in the code

ASSUME ScriptsAssumption == \A s \in Scripts : s.text \in Seq(STRING) /\ s.events \in Nat

VARIABLES
  ctx,      \* the StreamContext
  rest,     \* the text the model has not said yet
  given,    \* the text it has said
  calls,    \* by tool id, the pieces of input it has sent, up to the last
  native,   \* events other than text still to come, at most
  client    \* what the client has read: [phase, blocks, reason]

streamVars == <<ctx, rest, given, calls, native, client>>

Context(thinking) ==
  LET own ==
        [thinkingEnabled |-> thinking, thinkingBuffer |-> <<>>, sniffBuffer |-> <<>>,
         inThinkingBlock |-> FALSE, thinkingExtracted |-> FALSE, stripNewline |-> FALSE,
         thinkingIndex |-> 0, textIndex |-> 0, signature |-> "placeholder",
         toolIndices |-> [id \in ToolIds |-> 0], fence |-> NoFence, guard |-> NoRepeat]
  IN [f \in DOMAIN own \cup DOMAIN ManagerInit |->
        IF f \in DOMAIN own THEN own[f] ELSE ManagerInit[f]]

-----------------------------------------------------------------------------
(* Text on its way out. *)

StartBlock(c, kind) == ContentBlockStart(c, NextBlockIndex(c), kind)

\* A text block that was stopped meanwhile is replaced by a new one.
OpenTextBlock(c) ==
  IF IsBlockOpenOfType(c, c.textIndex, "text") THEN c
  ELSE StartBlock([c EXCEPT !.textIndex = NextBlockIndex(c)], "text")

Shown(c, text) == ContentBlockDelta(c, c.textIndex, "text_delta", text)

\* The guard against repetition comes first; what it holds back is not shown.
EmitFiltered(c, filtered) ==
  LET Show(c1) == IF filtered.kept = <<>> THEN c1 ELSE Shown(OpenTextBlock(c1), filtered.kept)
  IN Show([c EXCEPT !.guard = filtered.guard, !.fence = AdvanceFence(@, filtered.kept)])

EmitText(c, text) == EmitFiltered(c, RepeatGuardFilter(c.guard, text))

\* A tool call found in the text becomes a block of its own, whole at once.
SynthesizeToolUse(c) ==
  LET Block(c1, i) ==
        ContentBlockStop(
          ContentBlockDelta(ContentBlockStart(c1, i, "tool_use"),
                            i, "input_json_delta", <<"parsed">>), i)
  IN Block([c EXCEPT !.hasTool = TRUE], NextBlockIndex(c))

\* No call in b: all but the last `keep` cells is text.
SniffText(c, b, keep) ==
  [EmitText(c, Upto(b, Len(b) - keep)) EXCEPT !.sniffBuffer = From(b, Len(b) - keep + 1)]

\* Is what stands before a call in b a reason to take it for one?
IsLeak(c, before) == LooksLikeRealLeak(before) /\ ~ AdvanceFence(c.fence, before).open

\* A call that is not closed yet, with what stands before it (a leak, as of IsLeak).
SniffHalfCall(c, before, held, flush) ==
  IF flush \/ Len(held) > MAX_INVOKE_HOLD_CELLS THEN EmitText(EmitText(c, before), held)
  ELSE [EmitText(c, before) EXCEPT !.sniffBuffer = held]

\* A call in b from start to end: taken, or text.
SniffCall(c, b, start, end, before) ==
  IF IsLeak(c, before) /\ NameKnown(b, start) THEN SynthesizeToolUse(EmitText(c, before))
  ELSE EmitText(c, Upto(b, end))

\* One round of the loop that looks for calls: past the first call of r.b, if
\* there is one.  What may be the beginning of a call is kept for later, unless
\* this is the end.
Sniff(r, flush) ==
  LET c == r.c  b == r.b
      Over(c1) == [c |-> c1, b |-> <<>>, over |-> TRUE]
      Call(start, end, before) ==
        IF end # 0
        THEN [c |-> SniffCall(c, b, start, end, before), b |-> From(b, end + 1), over |-> FALSE]
        ELSE IF IsLeak(c, before)
        THEN Over(SniffHalfCall(c, Upto(b, start - 1), From(b, start), flush))
        ELSE Over(EmitText(c, b))
      StartAt(start) ==
        IF start = 0 THEN Over(SniffText(c, b, IF flush THEN 0 ELSE PartialInvokeTag(b)))
        ELSE Call(start, FindInvokeBlockEnd(b, start),
                  StripTrailingStrayTokens(Upto(b, start - 1)))
  IN IF r.over THEN r ELSE StartAt(FindInvokeStart(b))

\* Each call has a cell, so there is a round for each and one for what follows.
DrainSniffBuffer(c, flush) ==
  LET Round(r) == Sniff(r, flush)
  IN Repeated(Len(c.sniffBuffer) + 1,
              [c |-> [c EXCEPT !.sniffBuffer = <<>>], b |-> c.sniffBuffer, over |-> FALSE],
              Round).c

TextDelta(c, text) ==
  IF text = <<>> THEN c ELSE DrainSniffBuffer([c EXCEPT !.sniffBuffer = @ \o text], FALSE)

-----------------------------------------------------------------------------
(* Thinking.  Its deltas and signatures do not pass the state manager. *)

ThinkingDelta(c, text) ==
  IF c.thinkingIndex = 0 THEN c
  ELSE Emit(c, DeltaEvent(c.thinkingIndex, "thinking_delta", text))
ThinkingText(c, text) == IF text = <<>> THEN c ELSE ThinkingDelta(c, text)
SignatureDelta(c) == Emit(c, DeltaEvent(c.thinkingIndex, "signature_delta", <<>>))

\* Mutant: stopped without a signature.
EndThinkingUnsigned(c) ==
  IF c.thinkingIndex = 0 THEN c
  ELSE ContentBlockStop(ThinkingDelta(c, <<>>), c.thinkingIndex)

EndThinkingBlock(c) ==
  IF c.thinkingIndex = 0 THEN c
  ELSE ContentBlockStop(SignatureDelta(ThinkingDelta(c, <<>>)), c.thinkingIndex)

StartThinkingBlock(c) ==
  StartBlock([c EXCEPT !.thinkingIndex = NextBlockIndex(c)], "thinking")

\* Mutant: any thinking block counts as open.
ThinkingBlockSeen(c) == c.thinkingIndex # 0

IsThinkingBlockOpen(c) == IsBlockOpenOfType(c, c.thinkingIndex, "thinking")

CloseOpenThinkingBlock(c) ==
  IF IsThinkingBlockOpen(c) THEN EndThinkingBlock([c EXCEPT !.signature = "placeholder"])
  ELSE c

CloseOpenTextBlock(c) ==
  LET c1 == [c EXCEPT !.textIndex = 0]
  IN IF IsBlockOpenOfType(c, c.textIndex, "text") THEN ContentBlockStop(c1, c.textIndex)
     ELSE c1

\* The end of the thinking at position end of the buffer, of a tag that `skip`
\* cells stand for; what follows it stays in the buffer.
LeaveThinking(c, end, skip) ==
  [EndThinkingBlock(ThinkingText(c, Upto(c.thinkingBuffer, end - 1))) EXCEPT
     !.inThinkingBlock = FALSE, !.thinkingExtracted = TRUE,
     !.thinkingBuffer = From(@, end + skip)]

\* Where the thinking must be over: the end tag needs no empty line behind it.
LeaveThinkingAtBufferEnd(c) ==
  LET Rest(c1) == TextDelta([c1 EXCEPT !.thinkingBuffer = <<>>], TrimStart(c1.thinkingBuffer))
  IN Rest(LeaveThinking(c, FindEndTagAtBufferEnd(c.thinkingBuffer), 2))

StripNewline(c) ==
  LET b == c.thinkingBuffer
  IN IF ~ c.stripNewline \/ b = <<>> THEN c
     ELSE [c EXCEPT !.stripNewline = FALSE,
                    !.thinkingBuffer = IF b[1] = "n" THEN From(b, 2) ELSE b]

\* Mutant: two cells too few are kept back, as if no empty line followed a tag.
SafeTooMuch(b, tag) == Upto(b, Len(b) + 2 - tag)

\* All but the last cells of the buffer, which may be the beginning of a tag.
Safe(b, tag) == Upto(b, Len(b) - tag)

\* Before the thinking: what surely precedes a tag is text, unless it is blank.
BeforeThinking(c, safe) ==
  IF IsBlank(safe) THEN c
  ELSE [TextDelta(c, safe) EXCEPT !.thinkingBuffer = From(@, Len(safe) + 1)]

EnterThinking(c, start) ==
  StartThinkingBlock(
    [BeforeThinking(c, Upto(c.thinkingBuffer, start - 1)) EXCEPT
       !.inThinkingBlock = TRUE, !.stripNewline = TRUE,
       !.thinkingBuffer = From(c.thinkingBuffer, start + 2)])

\* Within the thinking: what surely precedes an end tag is thinking.
InThinking(c, thought) ==
  [ThinkingText(c, thought) EXCEPT !.thinkingBuffer = From(@, Len(thought) + 1)]

\* The loop over the buffer goes forwards: before the thinking, in it, behind it.
ContentBehind(c) == TextDelta([c EXCEPT !.thinkingBuffer = <<>>], c.thinkingBuffer)

ContentInside(c) ==
  LET Inside(c1, end) ==
        IF end # 0 THEN ContentBehind(LeaveThinking(c1, end, 4))
        ELSE InThinking(c1, Safe(c1.thinkingBuffer, Len(EndTag) + 2))
      Stripped(c1) == Inside(c1, FindEndTag(c1.thinkingBuffer))
  IN Stripped(StripNewline(c))

ContentAhead(c) ==
  LET StartAt(start) ==
        IF start # 0 THEN ContentInside(EnterThinking(c, start))
        ELSE BeforeThinking(c, Safe(c.thinkingBuffer, Len(StartTag)))
  IN StartAt(FindStartTag(c.thinkingBuffer))

ContentWithThinking(c) ==
  IF c.inThinkingBlock THEN ContentInside(c)
  ELSE IF c.thinkingExtracted THEN ContentBehind(c)
  ELSE ContentAhead(c)

\* Thinking that came as an event ends where anything else begins.
EndNativeThinking(c) == IF c.inThinkingBlock THEN c ELSE CloseOpenThinkingBlock(c)

AssistantResponse(c, text) ==
  LET Read(c1) == IF c.thinkingEnabled
                  THEN ContentWithThinking([c1 EXCEPT !.thinkingBuffer = @ \o text])
                  ELSE TextDelta(c1, text)
  IN Read(EndNativeThinking(c))

-----------------------------------------------------------------------------
(* The other events. *)

\* What was held back as a possible tag is text after all.
FlushThinkingBuffer(c) ==
  TextDelta([c EXCEPT !.thinkingBuffer = <<>>],
            IF IsBlank(c.thinkingBuffer) THEN <<>> ELSE c.thinkingBuffer)

EnsureThinkingBlock(c) ==
  IF IsThinkingBlockOpen(c) THEN c
  ELSE StartThinkingBlock([CloseOpenTextBlock(FlushThinkingBuffer(c)) EXCEPT
                             !.thinkingExtracted = TRUE])

RedactedThinking(c) ==
  LET Block(c1) == ContentBlockStop(StartBlock(c1, "redacted_thinking"), NextBlockIndex(c1))
  IN Block(CloseOpenTextBlock(CloseOpenThinkingBlock(c)))

\* r: [text, signature, redacted], of which a part may be missing.
TakeThought(c, r) ==
  IF r.text = <<>> THEN c ELSE ThinkingDelta(EnsureThinkingBlock(c), r.text)

ReasoningContent(c, r) ==
  LET Signed == IF r.signature THEN [c EXCEPT !.signature = "upstream"] ELSE c
      Redacted(c1) == IF r.redacted THEN RedactedThinking(c1) ELSE c1
  IN IF c.thinkingEnabled THEN Redacted(TakeThought(Signed, r)) ELSE TextDelta(c, r.text)

\* A tool call ends the thinking, and what was held back is text.
LeaveThinkingForTool(c) ==
  IF c.inThinkingBlock /\ FindEndTagAtBufferEnd(c.thinkingBuffer) # 0
  THEN LeaveThinkingAtBufferEnd(c) ELSE c

FlushForTool(c) ==
  IF c.thinkingEnabled /\ ~ c.inThinkingBlock /\ ~ c.thinkingExtracted
  THEN TextDelta([c EXCEPT !.thinkingBuffer = <<>>], c.thinkingBuffer) ELSE c

ToolInput(c, i, input) ==
  IF input = <<>> THEN c ELSE ContentBlockDelta(c, i, "input_json_delta", input)

ToolUse(c, id, input, stop) ==
  LET Stopped(c1, i) == IF stop THEN ContentBlockStop(c1, i) ELSE c1
      Block(c1, i) ==
        Stopped(ToolInput(ContentBlockStart([c1 EXCEPT !.toolIndices[id] = i], i, "tool_use"),
                          i, input), i)
      Indexed(c1) ==
        Block(c1, IF c1.toolIndices[id] # 0 THEN c1.toolIndices[id] ELSE NextBlockIndex(c1))
  IN Indexed(FlushForTool(LeaveThinkingForTool(EndNativeThinking([c EXCEPT !.hasTool = TRUE]))))

InitialEvents(c) ==
  IF c.thinkingEnabled THEN MessageStart(c) ELSE OpenTextBlock(MessageStart(c))

\* Thinking that is all there is: the answer gets an empty text, and the reason
\* that its tokens were used up.
OnlyThinking(c) == c.thinkingEnabled /\ c.thinkingIndex # 0 /\ ~ HasNonThinkingBlocks(c)

FillOnlyThinking(c) ==
  IF OnlyThinking(c) THEN TextDelta([c EXCEPT !.reason = "max_tokens"], <<"space">>) ELSE c

\* What was held back is text or thinking after all.
FinishThinking(c) ==
  IF c.thinkingBuffer = <<>> THEN c
  ELSE IF ~ c.inThinkingBlock THEN TextDelta(c, c.thinkingBuffer)
  ELSE IF FindEndTagAtBufferEnd(c.thinkingBuffer) # 0 THEN LeaveThinkingAtBufferEnd(c)
  ELSE EndThinkingBlock(ThinkingDelta(c, c.thinkingBuffer))

GenerateFinalEvents(c) ==
  FinalEvents(DrainSniffBuffer(
    FillOnlyThinking([FinishThinking(EndNativeThinking(c)) EXCEPT !.thinkingBuffer = <<>>]),
    TRUE))

-----------------------------------------------------------------------------
(* The stream: create_sse_stream hands each event of the upstream to the   *)
(* context and what comes out of it to the client.                         *)

Received(k, event) ==
  CASE event.type = "message_start" -> [k EXCEPT !.phase = "content"]
    [] event.type = "content_block_start" ->
         [k EXCEPT !.blocks = Append(@, [kind |-> event.kind, open |-> TRUE, deltas |-> 0,
                                         content |-> <<>>, signed |-> FALSE])]
    [] event.type = "content_block_delta" ->
         [k EXCEPT !.blocks[event.index].deltas = @ + 1,
                   !.blocks[event.index].content = @ \o event.content,
                   !.blocks[event.index].signed = @ \/ event.kind = "signature_delta"]
    [] event.type = "content_block_stop" -> [k EXCEPT !.blocks[event.index].open = FALSE]
    [] event.type = "message_delta" -> [k EXCEPT !.phase = "summed", !.reason = event.reason]
    [] event.type = "message_stop" -> [k EXCEPT !.phase = "ended"]

InitStream ==
  /\ \E thinking \in BOOLEAN : ctx = InitialEvents(Context(thinking))
  /\ \E s \in Scripts : rest = s.text /\ native = s.events
  /\ calls = [id \in ToolIds |-> [pieces |-> 0, done |-> FALSE]] /\ given = <<>>
  /\ client = [phase |-> "none", blocks |-> <<>>, reason |-> "none"]

Send ==
  /\ ctx.out # <<>>
  /\ ctx' = [ctx EXCEPT !.out = Tail(@)]
  /\ client' = Received(client, Head(ctx.out))
  /\ UNCHANGED <<rest, given, calls, native>>

Idle == ctx.out = <<>> /\ ~ ctx.ended

Say(n) ==
  /\ Idle
  /\ ctx' = AssistantResponse(ctx, Upto(rest, n))
  /\ rest' = From(rest, n + 1) /\ given' = given \o Upto(rest, n)
  /\ UNCHANGED <<calls, native, client>>

\* Events other than text do not come within a tag, only between two cells that
\* are none, and behind what ends a tag.
BetweenTags == ~ \E i \in DOMAIN given : i = Len(given) /\ given[i] \in Opens
Native == Idle /\ BetweenTags /\ native > 0 /\ native' = native - 1

CallTool(id, piece, stop) ==
  /\ Native /\ ~ calls[id].done
  /\ ctx' = ToolUse(ctx, id, IF piece THEN <<"json">> ELSE <<>>, stop)
  /\ calls' = [calls EXCEPT ![id] = [pieces |-> IF piece THEN @.pieces + 1 ELSE @.pieces,
                                     done |-> stop]]
  /\ UNCHANGED <<rest, given, client>>

TagsIn(text) == \E i \in DOMAIN text : text[i] = "<think"

Reason(r) ==
  /\ Native /\ (MixesThinking \/ ~ TagsIn(given \o rest))
  /\ ctx' = ReasoningContent(ctx, r)
  /\ given' = IF ctx.thinkingEnabled THEN given ELSE given \o r.text
  /\ UNCHANGED <<rest, calls, client>>

\* contextUsageEvent at 100 %, and ContentLengthExceededException.
Limit(reason) ==
  /\ Native
  /\ ctx' = [ctx EXCEPT !.reason = reason]
  /\ UNCHANGED <<rest, given, calls, client>>

\* The upstream ends, or breaks off: the final events are the same.
StreamEnds ==
  /\ Idle
  /\ ctx' = GenerateFinalEvents(ctx)
  /\ UNCHANGED <<rest, given, calls, native, client>>

Done == ctx.ended /\ ctx.out = <<>> /\ UNCHANGED streamVars

Reasonings ==
  {[text |-> <<"t">>, signature |-> FALSE, redacted |-> FALSE],
   [text |-> <<>>, signature |-> TRUE, redacted |-> FALSE],
   [text |-> <<>>, signature |-> FALSE, redacted |-> TRUE]}

NextStream ==
  \/ Send \/ StreamEnds \/ Done
  \/ \E n \in 1 .. Len(rest) : Say(n)
  \/ \E id \in ToolIds, piece, stop \in BOOLEAN : CallTool(id, piece, stop)
  \/ \E r \in Reasonings : Reason(r)
  \/ \E reason \in {"model_context_window_exceeded", "max_tokens"} : Limit(reason)

StreamSpec == InitStream /\ [][NextStream]_streamVars

-----------------------------------------------------------------------------
(* Properties. *)

StreamTypeOK ==
  /\ ctx.thinkingIndex \in 0 .. Len(ctx.blocks) /\ ctx.textIndex \in 0 .. Len(ctx.blocks)
  /\ ctx.inThinkingBlock => ctx.thinkingEnabled /\ ctx.thinkingIndex # 0
  /\ ctx.signature \in {"placeholder", "upstream"}
  /\ ctx.guard.run \in Nat /\ ctx.fence.open \in BOOLEAN
  /\ client.phase \in {"none", "content", "summed", "ended"}

\* The client sees a stream as AnthropicStream describes it, whatever comes from
\* upstream and wherever it is cut (the rules of SseStateManager).
Sse == INSTANCE AnthropicStream WITH
         phase <- client.phase,
         blocks <- [i \in DOMAIN client.blocks |->
                      [kind |-> client.blocks[i].kind, open |-> client.blocks[i].open,
                       deltas |-> client.blocks[i].deltas]]
ImplementsAnthropicStream == Sse!Spec

\* A text without newlines and stray words, each call in it a cell.
Words(b) == SelectSeq(b, LAMBDA cell : cell \notin Blank \cup {"call"})
Flattened(blocks, kind) ==
  FoldLeft(LAMBDA acc, b : acc \o (CASE b.kind = kind -> Words(b.content)
                                     [] b.kind = "tool_use" /\ b.content = <<"parsed">>
                                          -> <<"a call">>
                                     [] OTHER -> <<>>), <<>>, blocks)

\* Nothing in the text depends on where it is cut: no quoting, thinking that ends,
\* calls and tags at the beginning of lines, calls that are closed, few stray words.
Unambiguous(text) ==
  /\ "q" \notin ToSet(text)
  /\ \A i \in DOMAIN text : text[i] \in {"<think", "<inv"} /\ i > 1 => text[i - 1] = "n"
  /\ TagsIn(text) => /\ ExtractThinking(text).found
                     /\ "fence" \notin ToSet(Upto(text, FindStartTag(text)))
  /\ \A i, j \in DOMAIN text :
       i < j /\ InvokeAt(text, i) /\ InvokeAt(text, j) => "</inv>" \in {text[n] : n \in i .. j}
  /\ Cardinality({i \in DOMAIN text : text[i] = "call"}) < REPEAT_GUARD_TRIP_THRESHOLD

\* However the text is cut into chunks, the client reads the words, the thinking
\* and the calls that the extraction from the whole text finds, in their order.
StreamedAsWhole ==
  LET whole == IF ctx.thinkingEnabled THEN ExtractThinking(given)
               ELSE [thinking |-> <<>>, found |-> FALSE, text |-> given]
  IN client.phase = "ended" /\ Unambiguous(given) =>
       /\ Flattened(client.blocks, "text")
            = Flattened(ExtractInvokeContentBlocks(whole.text), "text")
       /\ whole.found =>
            SelectSeq(Flattened(client.blocks, "thinking"), LAMBDA cell : cell # "a call")
              = Words(whole.thinking)

\* A block of thinking that has content is signed before it is stopped, whoever
\* stops it: without a signature the client cannot send it back.
ThinkingSigned ==
  \A i \in DOMAIN client.blocks :
    LET b == client.blocks[i]
    IN b.kind = "thinking" /\ b.content # <<>> /\ ~ b.open => b.signed

\* The input of each tool call reaches its own block whole, whatever text, thinking
\* and other calls come between its pieces.
ToolInputsWhole ==
  client.phase = "ended" =>
    \A id \in ToolIds :
      ctx.toolIndices[id] # 0 =>
        client.blocks[ctx.toolIndices[id]].content = [n \in 1 .. calls[id].pieces |-> "json"]

\* The answer says it stopped for a tool exactly when it holds a call and no limit
\* was met, and never consists of thinking alone.
ReasonFits ==
  LET kinds == {client.blocks[i].kind : i \in DOMAIN client.blocks}
  IN client.phase = "ended" =>
       /\ client.reason = "tool_use" => "tool_use" \in kinds
       /\ "tool_use" \in kinds => client.reason # "end_turn"
       /\ kinds # {"thinking"}

\* The client never reads as many equal stray lines in a row as trip the guard.
FloodStopped ==
  LET all == FoldLeft(LAMBDA acc, b : IF b.kind = "text" THEN acc \o b.content ELSE acc,
                      <<>>, client.blocks)
      alone(j) == j \notin DOMAIN all \/ all[j] \in Blank
      marked == [j \in DOMAIN all |->
                   IF all[j] = "call" /\ alone(j - 1) /\ alone(j + 1) THEN "stray" ELSE all[j]]
      inked == SelectSeq(marked, LAMBDA cell : cell \notin Blank)
      T == REPEAT_GUARD_TRIP_THRESHOLD
  IN \A i \in 0 .. Len(inked) - T : \E j \in 1 .. T : inked[i + j] # "stray"
=============================================================================
