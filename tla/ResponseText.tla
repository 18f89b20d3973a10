---------------------------- MODULE ResponseText ----------------------------
(***************************************************************************)
(* What stream.rs looks for in the text of a model: thinking blocks        *)
(* between tags, tool calls that were written as text, code fences and a   *)
(* stray word repeated without end.                                        *)
(*                                                                         *)
(* A text is a sequence of cells, all of the same weight.  A tag is cut    *)
(* into two cells, so that a chunk may end within one: <thinking> is       *)
(* "<think" "ing>", its end "</think" "ing/>"; a tool call is "<inv",      *)
(* "oke known>" or "oke other>" (the name is one of the request's tools,   *)
(* or not), anything, "</inv>".  The other cells are a word "w", a newline *)
(* "n", a quoting character "q", a "fence" of a code block and "call", one *)
(* of the stray words.  Spaces are left out.                               *)
(***************************************************************************)
EXTENDS Naturals, Sequences, SequencesExt, FiniteSetsExt

CONSTANT REPEAT_GUARD_TRIP_THRESHOLD   \* 32 in the code

StartTag == <<"<think", "ing>">>
EndTag == <<"</think", "ing/>">>
Blank == {"n", "space"}
Opens == {"<think", "</think", "<inv"}     \* ends after a '<'
Closes == {"ing>", "ing/>", "oke known>", "oke other>", "</inv>"}   \* holds a '>'
InvokeNames == {"oke known>", "oke other>"}

-----------------------------------------------------------------------------
(* Positions.  0 stands for None. *)

First(S) == IF S = {} THEN 0 ELSE Min(S)
Last0(S) == IF S = {} THEN 0 ELSE Max(S)
Upto(b, n) == SubSeq(b, 1, n)
From(b, n) == SubSeq(b, n, Len(b))

\* Step applied n times.
Repeated(n, first, Step(_)) ==
  LET at[k \in 0 .. n] == IF k = 0 THEN first ELSE Step(at[k - 1])
  IN at[n]

IsBlank(b) == \A i \in DOMAIN b : b[i] \in Blank
TrimStart(b) ==
  LET inked == {i \in DOMAIN b : b[i] \notin Blank}
  IN IF inked = {} THEN <<>> ELSE From(b, Min(inked))

\* '<', '>' and '`' are among the quoting characters: a cell before a tag quotes
\* it when it ends in one, a cell behind it when it begins with one.
QuotesBefore(b, i) == i > 1 /\ b[i - 1] \in Closes \cup {"q", "fence"}
QuotesAfter(b, i) == i <= Len(b) /\ b[i] \in Opens \cup {"</inv>", "q", "fence"}

At(b, i, tag) == i + Len(tag) - 1 <= Len(b) /\ SubSeq(b, i, i + Len(tag) - 1) = tag
Unquoted(b, i, tag) ==
  At(b, i, tag) /\ ~ QuotesBefore(b, i) /\ ~ QuotesAfter(b, i + Len(tag))

FindStartTag(b) == First({i \in DOMAIN b : Unquoted(b, i, StartTag)})

\* The end tag counts when an empty line follows it ...
FindEndTag(b) ==
  First({i \in DOMAIN b : Unquoted(b, i, EndTag) /\ At(b, i + 2, <<"n", "n">>)})

\* ... or, where the thinking must be over, when nothing follows it.
FindEndTagAtBufferEnd(b) ==
  First({i \in DOMAIN b : Unquoted(b, i, EndTag) /\ IsBlank(From(b, i + 2))})

-----------------------------------------------------------------------------
(* Tool calls written as text. *)

InvokeAt(b, i) == i < Len(b) /\ b[i] = "<inv" /\ b[i + 1] \in InvokeNames

FindInvokeStart(b) ==
  First({i \in DOMAIN b : InvokeAt(b, i) /\ ~ QuotesBefore(b, i)})

\* The last closing tag before the next call opens, if there is one.
FindInvokeBlockEnd(b, start) ==
  LET next == First({i \in DOMAIN b : i > start /\ InvokeAt(b, i)})
      boundary == IF next = 0 THEN Len(b) + 1 ELSE next
  IN Last0({i \in DOMAIN b : start < i /\ i < boundary /\ b[i] = "</inv>"})

NameKnown(b, start) == b[start + 1] = "oke known>"

\* What ends in a '<' that no '>' follows may be the beginning of a call.
PartialInvokeTag(b) ==
  LET lt == Last0({i \in DOMAIN b : b[i] \in Opens \cup {"</inv>"}})
  IN IF lt = 0 \/ \E i \in lt .. Len(b) : b[i] \in Closes THEN 0 ELSE Len(b) - lt + 1

\* The last line that is not empty, and the text without stray words in lines of
\* their own at its end.
LastLine(b) ==
  LET e == Last0({i \in DOMAIN b : b[i] # "n"})
  IN SubSeq(b, Last0({i \in 1 .. e : b[i] = "n"}) + 1, e)
StripTrailingStrayTokens(b) ==
  Upto(b, Max({e \in 0 .. Len(b) : /\ e \in {0, Len(b)} \/ b[e] = "n"
                                   /\ LastLine(Upto(b, e)) # <<"call">>}))

\* A call at the beginning of a line is one the model meant to make.
LooksLikeRealLeak(before) == before = <<>> \/ Last(before) = "n"

-----------------------------------------------------------------------------
(* Code fences.  A line that begins with a fence turns `open` over when it *)
(* ends; `partial` is how the unfinished line begins.                      *)

NoFence == [open |-> FALSE, partial |-> "empty"]

FenceStep(fence, cell) ==
  IF cell = "n"
  THEN [open |-> fence.open # (fence.partial = "fence"), partial |-> "empty"]
  ELSE IF fence.partial # "empty" THEN fence
       ELSE [fence EXCEPT !.partial = IF cell = "fence" THEN "fence" ELSE "text"]

AdvanceFence(fence, b) == FoldLeft(FenceStep, fence, b)

-----------------------------------------------------------------------------
(* The guard against repetition.  A segment is a line, or what a chunk     *)
(* holds of it.                                                            *)

NoRepeat == [line |-> "text", run |-> 0, tripped |-> FALSE]

Segment(b) == LET nl == First({i \in DOMAIN b : b[i] = "n"})
              IN IF nl = 0 THEN b ELSE Upto(b, nl)
IsStray(segment) == segment \in {<<"call">>, <<"call", "n">>}

Counted(guard, segment) ==
  IF IsStray(segment)
  THEN LET run == IF guard.line = "call" THEN guard.run + 1 ELSE 1
       IN [line |-> "call", run |-> run, tripped |-> run >= REPEAT_GUARD_TRIP_THRESHOLD]
  ELSE IF IsBlank(segment) THEN guard
       ELSE [line |-> "text", run |-> 0, tripped |-> FALSE]

\* What the guard lets through, and the guard behind it: segment by segment,
\* as long as it has not tripped.
TakeSegment(r) ==
  LET segment == Segment(r.left)
      after == Counted(r.guard, segment)
  IN IF r.guard.tripped \/ r.left = <<>> THEN r
     ELSE [guard |-> after, left |-> From(r.left, Len(segment) + 1),
           kept |-> IF after.tripped THEN r.kept ELSE r.kept \o segment]

RepeatGuardFilter(guard, b) ==
  Repeated(Len(b), [guard |-> guard, left |-> b, kept |-> <<>>], TakeSegment)
CollapseStrayTokenFloods(b) == RepeatGuardFilter(NoRepeat, b).kept

-----------------------------------------------------------------------------
(* The same on a whole text, where nothing is still to come. *)

ExtractThinking(text) ==
  LET start == FindStartTag(text)
      before == Upto(text, start - 1)
      rest == From(text, start + 2)
      exact == FindEndTag(rest)
      end == IF exact # 0 THEN exact ELSE FindEndTagAtBufferEnd(rest)
      after == IF exact # 0 THEN From(rest, end + 4) ELSE TrimStart(From(rest, end + 2))
      raw == Upto(rest, end - 1)
  IN IF start = 0 \/ end = 0 THEN [thinking |-> <<>>, found |-> FALSE, text |-> text]
     ELSE [thinking |-> IF raw # <<>> /\ raw[1] = "n" THEN From(raw, 2) ELSE raw,
           found |-> TRUE,
           text |-> (IF IsBlank(before) THEN <<>> ELSE before) \o after]

\* The blocks of a text: words, and the calls among them.
TextBlock(b) == IF b = <<>> THEN <<>> ELSE <<[kind |-> "text", content |-> b]>>
CallBlock == <<[kind |-> "tool_use", content |-> <<"parsed">>]>>

\* Past the next call of r.left, if there is one.
TakeInvoke(r) ==
  LET start == FindInvokeStart(r.left)
      end == IF start = 0 THEN 0 ELSE FindInvokeBlockEnd(r.left, start)
      before == Upto(r.left, start - 1)
      stripped == StripTrailingStrayTokens(before)
      chunk == Upto(r.left, end)
      after == From(r.left, end + 1)
  IN IF end = 0 THEN r
     ELSE IF /\ LooksLikeRealLeak(stripped)
             /\ ~ AdvanceFence(r.fence, before).open
             /\ NameKnown(r.left, start)
     THEN [blocks |-> r.blocks \o TextBlock(r.pending \o stripped) \o CallBlock,
           left |-> after, pending |-> <<>>, fence |-> AdvanceFence(r.fence, stripped)]
     ELSE [r EXCEPT !.left = after, !.pending = @ \o chunk,
                    !.fence = AdvanceFence(@, chunk)]

InvokeBlocks(text) ==
  Repeated(Len(text), [blocks |-> <<>>, left |-> text, pending |-> <<>>, fence |-> NoFence],
           TakeInvoke)

ExtractInvokeContentBlocks(text) ==
  LET r == InvokeBlocks(CollapseStrayTokenFloods(text))
  IN r.blocks \o TextBlock(r.pending \o r.left)
=============================================================================
