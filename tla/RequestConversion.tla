-------------------------- MODULE RequestConversion --------------------------
(* converter.rs: a request of the Messages API becomes a Kiro conversation.   *)
(*                                                                            *)
(* A client writes a conversation message by message and sends it at any      *)
(* point (the variables asked and messages); convert_request answers with an  *)
(* error or with the converted conversation (converted).  What Kiro asks of a *)
(* conversation -- every tool use answered, every tool of the history         *)
(* declared, no empty content -- is the responsibility of this code, whatever *)
(* the client sends.                                                          *)
(*                                                                            *)
(* A text is a sequence of pieces, "nl" standing for a line break, a blank    *)
(* and the joins of several messages are pieces too.  A model name is the set *)
(* of the marks the code looks for in it.                                     *)
EXTENDS Naturals, Sequences, SequencesExt, FiniteSetsExt, TLC

CONSTANTS
    Models,             \* the model names: sets of marks
    Systems,            \* the system prompts: <<>> for none, or <<text>>
    Thinkings,          \* the thinking types asked for, "none" among them
    Efforts,            \* the efforts of output_config, "none" among them
    Declarations,       \* the lists of tools a request may declare
    UserContents,       \* the contents of a message of a user: sequences of blocks
    AssistantContents,  \* the contents of a message of the assistant
    Unsupported,        \* the pictures of a media type Kiro does not know
    ShortOf,            \* a tool name of more than 63 bytes -> its short name
    LowerOf,            \* a tool name -> the name in lower case
    MaxMessages         \* bound on the messages of a request

VARIABLES
    asked,      \* the request without its messages
    messages,   \* its messages
    converted   \* <<>> before it is sent, then <<the result>>

requestVars == <<asked, messages, converted>>

\* A list of blocks or of tools is a sequence of what is in it.
IsSequence(s) == s \in Seq(ToSet(s))

\* What a client may write are lists.
ASSUME ListsAssumption ==
    /\ \A c \in UserContents \cup AssistantContents : IsSequence(c)
    /\ \A tools \in Declarations : IsSequence(tools)

(* ------------------------------- loops ------------------------------------ *)

\* A loop over s: what is at hand after its last element.
Looped(s, first, Step(_, _)) ==
    LET at[k \in 0 .. Len(s)] == IF k = 0 THEN first ELSE Step(at[k - 1], s[k])
    IN at[Len(s)]

\* The elements of s that are in S, as Vec::retain leaves them.
Chosen(s, S) ==
    LET at[k \in 0 .. Len(s)] ==
            IF k = 0 THEN <<>>
            ELSE IF s[k] \in S THEN Append(at[k - 1], s[k]) ELSE at[k - 1]
    IN at[Len(s)]

(* ----------------------- models and thinking ------------------------------ *)

\* The versions tried for each family, in the order of the code.
SonnetMarks == <<"sonnet-5", "4-8", "4-6", "4-5">>
OpusMarks   == <<"4-8", "4-7", "4-5", "4-6">>

FirstMark(marks, model) ==
    LET hits == SelectSeq(marks, LAMBDA m : m \in model)
    IN IF hits = <<>> THEN "unsupported" ELSE Head(hits)

\* map_model: the family and the version of the upstream's model.
map_model(model) ==
    CASE "sonnet" \in model -> <<"sonnet", FirstMark(SonnetMarks, model)>>
      [] "sonnet" \notin model /\ "opus" \in model -> <<"opus", FirstMark(OpusMarks, model)>>
      [] model \cap {"sonnet", "opus"} = {} /\ "haiku" \in model -> <<"haiku", "4-5">>
      [] OTHER -> <<"none", "unsupported">>

SupportedModel(model) == map_model(model)[2] /= "unsupported"

\* override_thinking_from_model_name: a model called "...thinking" thinks.
OverrideThinking(request) ==
    LET opus46 == {"opus", "4-6"} \subseteq request.model
    IN IF "thinking" \notin request.model THEN request
       ELSE [request EXCEPT !.thinking = IF opus46 THEN "adaptive" ELSE "enabled",
                            !.effort = IF opus46 THEN "high" ELSE @]

ValidEfforts == {"low", "medium", "high", "max"}

\* build_additional_model_request_fields: the effort sent as a field.
EffortField(request) ==
    IF /\ map_model(request.model) = <<"opus", "4-6">>
       /\ request.thinking = "adaptive"
       /\ request.effort \in ValidEfforts
    THEN <<request.effort>>
    ELSE <<>>

\* generate_thinking_prefix: the piece that tells Kiro to think, if any.
ThinkingPrefix(request) ==
    CASE request.thinking = "enabled"  -> <<"thinking_mode enabled">>
      [] request.thinking = "adaptive" -> <<"thinking_mode adaptive">>
      [] OTHER -> <<>>

ThinkingTags == {"thinking_mode enabled", "thinking_mode adaptive"}

has_thinking_tags(text) == ToSet(text) \cap ThinkingTags /= {}

(* ------------------------------- schemas ---------------------------------- *)

\* A schema: the words Kiro refuses at its top, and those of each schema below
\* it that the normalisation reaches (through properties and items, however
\* deep); each of these is normalised alike.
normalize_property_schema(words) == words \ {"$schema", "exclusiveMinimum", "maximum"}

\* normalize_json_schema: at the top of a tool's schema only $schema goes.
normalize_json_schema(schema) ==
    [schema EXCEPT !.words = @ \ {"$schema"},
                   !.inner = {normalize_property_schema(s) : s \in @}]

(* -------------------------------- tools ----------------------------------- *)

\* shorten_tool_name, for the names that are too long.
SentName(name) == IF name \in DOMAIN ShortOf THEN ShortOf[name] ELSE name

\* Mutant of map_tool_names: the short names are not recorded.
ShortNamesForgotten(names) == <<>>

\* map_tool_name, of all the names of a request: each short name leads back to
\* the name it stands for.
map_tool_names(names) ==
    LET long == names \cap DOMAIN ShortOf
    IN [short \in {ShortOf[n] : n \in long} |-> CHOOSE n \in long : ShortOf[n] = short]

\* convert_tools, of one declaration.
ConvertedTool(tool) ==
    [name |-> SentName(tool.name), schema |-> normalize_json_schema(tool.schema)]

\* create_placeholder_tool: a tool the history uses and nobody declares.
create_placeholder_tool(name) ==
    [name |-> name, schema |-> [words |-> {"$schema"}, inner |-> {}]]

(* --------------------------- texts and pictures --------------------------- *)

\* Join with a separator, as Vec::join does.
Joined(parts, separator) ==
    IF parts = <<>> THEN <<>>
    ELSE Head(parts) \o FlattenSeq([i \in DOMAIN Tail(parts) |-> separator \o Tail(parts)[i]])

Blank(text) == ToSet(text) \subseteq {"nl", " "}

\* extract_kiro_image: a picture is lifted to the images of its message; where
\* pictures are deduplicated, a picture seen before leaves a note instead.
\* acc is [parts, images, results, seen].
TakePicture(acc, picture, dedup) ==
    IF picture \in Unsupported THEN acc
    ELSE IF dedup /\ picture \in acc.seen THEN [acc EXCEPT !.parts = Append(@, <<"image omitted">>)]
    ELSE [acc EXCEPT !.images = Append(@, picture),
                     !.seen = IF dedup THEN @ \cup {picture} ELSE @]

\* extract_tool_result_content: the text of a result, its pictures lifted;
\* inside is acc with the parts of the result alone.
TakeText(parts, content) ==
    IF parts = <<>> /\ \E i \in DOMAIN content : content[i].type = "image"
    THEN <<"image attached">> ELSE Joined(parts, <<"nl">>)

ResultTaken(acc, inside, block) ==
    [parts   |-> acc.parts,
     images  |-> inside.images,
     results |-> Append(acc.results, [id   |-> block.id,
                                      text |-> TakeText(inside.parts, block.content)]),
     seen    |-> inside.seen]

TakeResult(acc, block, dedup) ==
    LET Item(a, item) == IF item.type = "text" THEN [a EXCEPT !.parts = Append(@, item.text)]
                         ELSE TakePicture(a, item.picture, dedup)
    IN ResultTaken(acc, FoldLeft(Item, [acc EXCEPT !.parts = <<>>], block.content), block)

\* process_message_content_dedup: the texts, pictures and tool results of one
\* message, in the order of its blocks.
TakeBlock(acc, block, dedup) ==
    CASE block.type = "text" -> [acc EXCEPT !.parts = Append(@, block.text)]
      [] block.type = "image" -> TakePicture(acc, block.picture, dedup)
      [] block.type = "tool_result" -> TakeResult(acc, block, dedup)
      [] OTHER -> acc

ProcessContent(content, seen, dedup) ==
    LET Block(acc, block) == TakeBlock(acc, block, dedup)
    IN Looped(content, [parts |-> <<>>, images |-> <<>>, results |-> <<>>, seen |-> seen], Block)

(* -------------------------------- history --------------------------------- *)

UserTurn(content, images, results) ==
    [role |-> "user", content |-> content, images |-> images, results |-> results, uses |-> <<>>]

AssistantTurn(content, uses) ==
    [role |-> "assistant", content |-> content, images |-> <<>>, results |-> <<>>, uses |-> uses]

\* merge_user_messages: messages in a row become one turn; seen are the
\* pictures the history has shown already.
Merged(acc, read) ==
    [texts   |-> Append(acc.texts, Joined(read.parts, <<"nl">>)),
     images  |-> acc.images \o read.images,
     results |-> acc.results \o read.results,
     seen    |-> read.seen]

MergedUser(contents, seen) ==
    FoldLeft(LAMBDA acc, content : Merged(acc, ProcessContent(content, acc.seen, TRUE)),
             [texts |-> <<>>, images |-> <<>>, results |-> <<>>, seen |-> seen], contents)

\* The turn of messages that are merged: an empty text leaves no line.
MergedTurn(merged) ==
    UserTurn(Joined(SelectSeq(merged.texts, LAMBDA t : t /= <<>>), <<"nl">>),
             merged.images, merged.results)

\* convert_assistant_message: thinking is put in front of the text as a tagged
\* piece; a message of tool uses alone gets a blank.
TextWithThinking(thinking, texts, uses) ==
    CASE thinking /= <<>> /\ texts /= <<>> -> <<"<thinking>">> \o thinking \o <<"nl", "nl">> \o texts
      [] thinking /= <<>> /\ texts = <<>>  -> <<"<thinking>">> \o thinking
      [] thinking = <<>> /\ texts = <<>> /\ uses /= <<>> -> <<" ">>
      [] OTHER -> texts

ConvertedAssistant(content) ==
    LET Of(type) == Chosen(content, {b \in ToSet(content) : b.type = type})
        TextOf(blocks) == FlattenSeq([i \in DOMAIN blocks |-> blocks[i].text])
        Named(blocks) == [i \in DOMAIN blocks |->
                            [id |-> blocks[i].id, name |-> SentName(blocks[i].name)]]
    IN AssistantTurn(TextWithThinking(TextOf(Of("thinking")), TextOf(Of("text")), Of("tool_use")),
                     Named(Of("tool_use")))

\* merge_assistant_messages: one message stands as it is; several in a row
\* (a client that lost its connection) become one turn.
MergedText(texts, uses) ==
    IF texts = <<>> /\ uses /= <<>> THEN <<" ">> ELSE Joined(texts, <<"nl", "nl">>)

MergedTurns(turns, uses) ==
    IF Len(turns) = 1 THEN turns[1]
    ELSE AssistantTurn(MergedText(SelectSeq([i \in DOMAIN turns |-> turns[i].content],
                                            LAMBDA t : ~Blank(t)), uses), uses)

MergedAssistant(contents) ==
    LET WithUses(turns) == MergedTurns(turns, FlattenSeq([i \in DOMAIN turns |-> turns[i].uses]))
    IN WithUses([i \in DOMAIN contents |-> ConvertedAssistant(contents[i])])

\* The turn of the system prompt and its acknowledgement (build_history, 1).
SystemTurns(request) ==
    LET prefix == ThinkingPrefix(request)
        Pair(text) == <<UserTurn(text, <<>>, <<>>), AssistantTurn(<<"I will follow">>, <<>>)>>
    IN IF request.system = <<>> THEN IF prefix = <<>> THEN <<>> ELSE Pair(prefix)
       ELSE LET text == request.system[1]
            IN IF text = <<>> THEN <<>>
               ELSE LET system == text \o <<"nl", "chunked policy">>
                    IN IF prefix /= <<>> /\ ~has_thinking_tags(system)
                       THEN Pair(prefix \o <<"nl">> \o system)
                       ELSE Pair(system)

\* build_history, 2: acc is [turns, user, assistant, seen], with the messages
\* collected of the role that is speaking.
FlushAssistant(acc) ==
    IF acc.assistant = <<>> THEN acc
    ELSE [acc EXCEPT !.turns = Append(@, MergedAssistant(acc.assistant)), !.assistant = <<>>]

FlushUser(acc) ==
    IF acc.user = <<>> THEN acc
    ELSE LET With(merged) == [acc EXCEPT !.turns = Append(@, MergedTurn(merged)),
                                         !.user = <<>>, !.seen = merged.seen]
         IN With(MergedUser(acc.user, acc.seen))

\* Mutant of CollectMessage: what the assistant says does not close the user's turn.
CollectUnclosed(acc, message) ==
    CASE message.role = "user"      -> [FlushAssistant(acc) EXCEPT !.user = Append(@, message.content)]
      [] message.role = "assistant" -> [acc EXCEPT !.assistant = Append(@, message.content)]
      [] OTHER -> acc

CollectMessage(acc, message) ==
    CASE message.role = "user"      -> [FlushAssistant(acc) EXCEPT !.user = Append(@, message.content)]
      [] message.role = "assistant" -> [FlushUser(acc) EXCEPT !.assistant = Append(@, message.content)]
      [] OTHER -> acc

\* A user's message that closes the history is answered for the assistant.
Ended(acc) ==
    IF acc.user = <<>> THEN FlushAssistant(acc).turns
    ELSE Append(FlushUser(acc).turns, AssistantTurn(<<"OK">>, <<>>))

build_history(request, earlier) ==
    Ended(Looped(earlier,
                 [turns |-> SystemTurns(request), user |-> <<>>,
                  assistant |-> <<>>, seen |-> {}], CollectMessage))

(* ------------------------------- pairing ---------------------------------- *)

UsesOf(history) == FlattenSeq([i \in DOMAIN history |-> history[i].uses])
ResultsOf(history) == FlattenSeq([i \in DOMAIN history |-> history[i].results])
IdsOf(entries) == {entries[i].id : i \in DOMAIN entries}

\* A result of the last message is kept once if its use is still open.
TakeAnswer(acc, result) ==
    IF result.id \in acc.orphans
    THEN [kept |-> Append(acc.kept, result), orphans |-> acc.orphans \ {result.id}]
    ELSE acc

\* validate_tool_pairing: of the results of the last message, the first one of
\* each use that the history has not answered; the uses left are orphans.
validate_tool_pairing(history, results) ==
    Looped(results,
           [kept |-> <<>>, orphans |-> IdsOf(UsesOf(history)) \ IdsOf(ResultsOf(history))],
           TakeAnswer)

\* remove_orphaned_tool_uses
remove_orphaned_tool_uses(history, orphans) ==
    [i \in DOMAIN history |->
        [history[i] EXCEPT !.uses = Chosen(@, {u \in ToSet(@) : u.id \notin orphans})]]

\* collect_history_tool_names: each name once.
NamedOnce(names, use) == IF use.name \in ToSet(names) THEN names ELSE Append(names, use.name)

collect_history_tool_names(history) == Looped(UsesOf(history), <<>>, NamedOnce)

\* The placeholders of convert_request, 10: the names are compared with the
\* declared ones without regard to case.
MissingNames(history, tools) ==
    LET names == collect_history_tool_names(history)
        declared == {LowerOf[tools[i].name] : i \in DOMAIN tools}
    IN Chosen(names, {n \in ToSet(names) : LowerOf[n] \notin declared})

Placeholders(history, tools) ==
    LET Made(missing) == [i \in DOMAIN missing |-> create_placeholder_tool(missing[i])]
    IN Made(MissingNames(history, tools))

(* ------------------------------- requests --------------------------------- *)

Users(ms) == {i \in DOMAIN ms : ms[i].role = "user"}

\* convert_request, 2.5: what follows the last message of the user is dropped.
WithoutPrefill(ms) == SubSeq(ms, 1, Max(Users(ms)))

\* The names of the tools of a request, those of its history included.
NamesUsed(request, ms) ==
    {request.tools[i].name : i \in DOMAIN request.tools}
      \cup UNION {{b.name : b \in {c \in ToSet(ms[i].content) : c.type = "tool_use"}} :
                   i \in {j \in DOMAIN ms : ms[j].role = "assistant"}}

Failure(error) == [error |-> error]

\* What is sent: the last message read, the results paired with the history, and
\* the history without the uses that nothing answers.
Conversation(request, ms, tools, last, paired, history) ==
    [error    |-> "",
     history  |-> history,
     content  |-> Joined(last.parts, <<"nl">>),
     images   |-> last.images,
     results  |-> paired.kept,
     tools    |-> tools \o Placeholders(history, tools),
     known    |-> {t.name : t \in ToSet(request.tools) \cup ToSet(tools)},
     name_map |-> map_tool_names(NamesUsed(request, Front(ms))),
     effort   |-> EffortField(request)]

Answered(request, ms) ==
    LET Cut(last, built, paired) ==
            Conversation(request, ms,
                         [i \in DOMAIN request.tools |-> ConvertedTool(request.tools[i])],
                         last, paired, remove_orphaned_tool_uses(built, paired.orphans))
        Pair(last, built) == Cut(last, built, validate_tool_pairing(built, last.results))
    IN Pair(ProcessContent(ms[Len(ms)].content, {}, FALSE), build_history(request, Front(ms)))

convert_request(req, all) ==
    LET Checked(request) ==
            IF ~SupportedModel(request.model) THEN Failure("UnsupportedModel")
            ELSE IF Users(all) = {} THEN Failure("EmptyMessages")
            ELSE Answered(request, WithoutPrefill(all))
    IN Checked(OverrideThinking(req))

TypeOK ==
    /\ asked \in [model : Models, system : Systems, thinking : Thinkings,
                  effort : Efforts, tools : Declarations]
    /\ Len(messages) <= MaxMessages
    /\ \A i \in DOMAIN messages : messages[i].role \in {"user", "assistant", "system"}
    /\ Len(converted) <= 1

InitRequest ==
    /\ asked \in [model : Models, system : Systems, thinking : Thinkings,
                  effort : Efforts, tools : Declarations]
    /\ messages = <<>>
    /\ converted = <<>>

AddMessage(role, content) ==
    /\ converted = <<>>
    /\ Len(messages) < MaxMessages
    /\ messages' = Append(messages, [role |-> role, content |-> content])
    /\ UNCHANGED <<asked, converted>>

UserSays == \E c \in UserContents : AddMessage("user", c)
AssistantSaid == \E c \in AssistantContents : AddMessage("assistant", c)
\* Any other role is accepted and ignored.
OtherSaid == AddMessage("system", <<>>)

Convert ==
    /\ converted = <<>>
    /\ converted' = <<convert_request(asked, messages)>>
    /\ UNCHANGED <<asked, messages>>

NextRequest == UserSays \/ AssistantSaid \/ OtherSaid \/ Convert

RequestSpec == InitRequest /\ [][NextRequest]_requestVars

(* ------------------------------ properties -------------------------------- *)

IsSent == converted /= <<>> /\ converted[1].error = ""
Result == converted[1]

\* Each use that is sent has a result in the history or in the last message, and
\* the last message answers each open use once and nothing else.
UsesPaired ==
    IsSent =>
      /\ IdsOf(UsesOf(Result.history)) \subseteq IdsOf(ResultsOf(Result.history)) \cup IdsOf(Result.results)
      /\ IdsOf(Result.results) \subseteq IdsOf(UsesOf(Result.history)) \ IdsOf(ResultsOf(Result.history))
      /\ Cardinality(IdsOf(Result.results)) = Len(Result.results)

\* What was said up to the current message, without the roles that are ignored.
Spoken == SelectSeq(WithoutPrefill(messages), LAMBDA m : m.role /= "system")

\* The messages with a block of this type and id.
Having(type, id) ==
    {i \in DOMAIN Spoken : \E b \in ToSet(Spoken[i].content) : b.type = type /\ b.id = id}

NextOfUser(i) == Min({j \in Users(Spoken) : j > i})

\* The ids of the uses that the client asks for once and answers once, in the
\* user's next message.
AnsweredByClient ==
    {b.id : b \in UNION {{c \in ToSet(Spoken[i].content) :
        /\ c.type = "tool_use" /\ Having("tool_use", c.id) = {i}
        /\ Having("tool_result", c.id) = {NextOfUser(i)}} : i \in DOMAIN Spoken \ Users(Spoken)}}

\* The turns that are sent, the current message behind the history.
SentTurns == Append(Result.history, UserTurn(Result.content, Result.images, Result.results))

\* converter.rs:766, Kiro refuses a tool use without a result.  Whatever the
\* client cut out, repeated or left open elsewhere, no use is sent unanswered; and
\* a use that the client answered where it should is sent, with the result in the
\* turn right behind it.
UsesAnswered ==
    /\ UsesPaired
    /\ IsSent => \A id \in AnsweredByClient : \E k \in DOMAIN Result.history :
                    /\ id \in IdsOf(SentTurns[k].uses)
                    /\ id \in IdsOf(SentTurns[k + 1].results)

\* Kiro refuses a history that uses a tool the request does not declare: every
\* name left in the history after the orphans went is declared, in any case.
HistoryToolsDeclared ==
    IsSent => \A i \in DOMAIN UsesOf(Result.history) : \E j \in DOMAIN Result.tools :
               LowerOf[Result.tools[j].name] = LowerOf[UsesOf(Result.history)[i].name]

\* The messages that open a turn of the user before the current message.
UserRuns ==
    {i \in Users(Front(Spoken)) : i = 1 \/ Spoken[i - 1].role = "assistant"}

\* A conversation the user opens keeps its turns: however the client repeated
\* itself or which roles it mixed in, the history goes user, assistant, ..., has
\* one turn for each turn of the user, and leaves the floor to the user, whose
\* message is the current one.
TurnsKept ==
    (IsSent /\ messages[Min({i \in DOMAIN messages : messages[i].role /= "system"})].role = "user")
      => /\ Len(Result.history)
              = Len(SystemTurns(OverrideThinking(asked))) + 2 * Cardinality(UserRuns)
         /\ \A i \in DOMAIN Result.history :
              Result.history[i].role = IF i % 2 = 1 THEN "user" ELSE "assistant"

PicturesIn(content) ==
    {b.picture : b \in {c \in ToSet(content) : c.type = "image"}}
      \cup UNION {{r.picture : r \in {c \in ToSet(b.content) : c.type = "image"}} :
                   b \in {c \in ToSet(content) : c.type = "tool_result"}}

\* Leaving out repeated screenshots loses none: every picture the user sent in
\* a known format is in the history once or in the current message, be it in a
\* message or in a tool result, and the history shows none twice.
PicturesSentOnce ==
    LET shown == FlattenSeq([i \in DOMAIN Result.history |-> Result.history[i].images])
    IN IsSent =>
         /\ (UNION {PicturesIn(messages[i].content) : i \in Users(messages)}) \ Unsupported
              = ToSet(shown) \cup ToSet(Result.images)
         /\ IsInjective(shown)

\* What the model calls back is translated with the map of the request: every
\* name sent, declared or in the history, leads back to the client's name.
NamesRestored ==
    LET Restored(name) == IF name \in DOMAIN Result.name_map THEN Result.name_map[name] ELSE name
    IN IsSent =>
         /\ \A i \in DOMAIN asked.tools : Restored(Result.tools[i].name) = asked.tools[i].name
         /\ \A i \in DOMAIN UsesOf(Result.history) :
              Restored(UsesOf(Result.history)[i].name) \in NamesUsed(asked, messages)

\* A stronger reading of converter.rs:766: whatever the client sends, each use
\* that is sent has its result in the turn right behind it.  Only the ids are
\* compared, so a result may stand before its use, or turns behind it.
AnsweredRightBehind ==
    IsSent => \A k \in DOMAIN Result.history :
               IdsOf(Result.history[k].uses) \subseteq IdsOf(SentTurns[k + 1].results)

\* Expected by converter.rs:675 and :693, which promise to skip orphaned tool
\* results: a result in the history has a use.
ResultsHaveUses ==
    IsSent => IdsOf(ResultsOf(Result.history)) \subseteq IdsOf(UsesOf(Result.history))

\* Expected by converter.rs:1097: Kiro takes no empty content from the assistant.
AssistantContentFilled ==
    IsSent => \A i \in DOMAIN Result.history :
               Result.history[i].role = "assistant" => Result.history[i].content /= <<>>

\* Expected by converter.rs:943 and :947: thinking that is asked for is asked of
\* Kiro, with or without a system prompt.
ThinkingAsked ==
    (IsSent /\ ThinkingPrefix(OverrideThinking(asked)) /= <<>>)
      => /\ Result.history /= <<>>
         /\ has_thinking_tags(Result.history[1].content)

\* Expected by converter.rs:42: no tool is sent with a $schema, which Kiro refuses.
SchemasAccepted ==
    IsSent => \A i \in DOMAIN Result.tools : "$schema" \notin Result.tools[i].schema.words
==============================================================================
