----------------------------- MODULE MCSseStream -----------------------------
(* Instances of SseStream. *)
EXTENDS SseStream

CONSTANTS MaxPieces, MaxEvents   \* bounds: pieces of a text, events among its cells

Line == <<"w", "n">>
Word == <<"w">>
Thought == <<"<think", "ing>", "n", "w", "</think", "ing/>", "n", "n">>
LastThought == <<"<think", "ing>", "w", "</think", "ing/>">>
HalfThought == <<"<think", "ing>">>
Call == <<"<inv", "oke known>", "w", "</inv>">>
OtherCall == <<"<inv", "oke other>", "</inv>", "n">>
HalfCall == <<"<inv", "oke known>">>
Fence == <<"fence", "n">>
Stray == <<"call", "n">>


LongPieces == {Line, Word, Thought, LastThought, Call, OtherCall, HalfCall, Fence, Stray}
MixedTexts == {<<>>, Word, Call, LastThought, Line \o Call, Stray \o Stray}

Joined(pieces, max) ==
  {FlattenSeq(s) : s \in UNION {[1 .. k -> pieces] : k \in 0 .. max}}
Script(texts, events) == {[text |-> t, events |-> events] : t \in texts}

AllScripts == Script(Joined(LongPieces, MaxPieces), 0) \cup Script(MixedTexts, MaxEvents)
Symmetry == Permutations(ToolIds)

-----------------------------------------------------------------------------
(* Statements of the sources that the code does not keep. *)

\* stream.rs:538-544: a call within a sentence is text under discussion and not
\* taken.  A chunk that begins with it looks like the beginning of the stream.
CallInSentence == Script({Word \o Call}, 0)
DiscussedCallsAreText == \A i \in DOMAIN client.blocks : client.blocks[i].kind # "tool_use"

\* stream.rs:795-801: the state manager keeps the order of the events.  Deltas of
\* thinking do not pass it.
OneThought == Script({Thought}, 1)

\* stream.rs:1960-1963: a signature comes before the end of each block of thinking.
\* One that is empty when the stream ends gets none.
NoThought == Script({HalfThought}, 0)
EveryThinkingSigned ==
  \A i \in DOMAIN client.blocks :
    LET b == client.blocks[i] IN b.kind = "thinking" /\ ~ b.open => b.signed

\* stream.rs:160-163: a quoted start tag is none.  The quote may already have been
\* passed on when the next chunk arrives.
QuotedTag == Script({<<"q", "<think", "ing>", "w">>}, 0)
QuotedIsText == \A i \in DOMAIN client.blocks : client.blocks[i].kind # "thinking"

Unkept == CallInSentence \cup OneThought \cup NoThought \cup QuotedTag
=============================================================================
