--------------------------- MODULE AnthropicStream ---------------------------
(***************************************************************************)
(* What a client of the Messages API may rely on in a streamed answer, as  *)
(* the comment on SseStateManager states it (stream.rs): message_start     *)
(* comes once and first, each content block is started, extended and       *)
(* stopped in this order, message_delta comes once and after the last      *)
(* block has stopped, message_stop is last.  Blocks are numbered in the    *)
(* order of their starts; several may be open at a time.                   *)
(***************************************************************************)
EXTENDS Naturals, Sequences

VARIABLES
  phase,     \* "none", "content", "summed", "ended"
  blocks     \* the blocks so far: [kind, open, deltas]

vars == <<phase, blocks>>

Kinds == {"text", "thinking", "redacted_thinking", "tool_use"}

TypeOK ==
  /\ phase \in {"none", "content", "summed", "ended"}
  /\ blocks \in Seq([kind : Kinds, open : BOOLEAN, deltas : Nat])

Init == phase = "none" /\ blocks = <<>>

MessageStart == phase = "none" /\ phase' = "content" /\ UNCHANGED blocks

ContentBlockStart(kind) ==
  /\ phase = "content"
  /\ blocks' = Append(blocks, [kind |-> kind, open |-> TRUE, deltas |-> 0])
  /\ UNCHANGED phase

\* Redacted thinking arrives whole, with the start of its block.
ContentBlockDelta(i) ==
  /\ phase = "content" /\ blocks[i].open /\ blocks[i].kind # "redacted_thinking"
  /\ blocks' = [blocks EXCEPT ![i].deltas = @ + 1]
  /\ UNCHANGED phase

ContentBlockStop(i) ==
  /\ phase = "content" /\ blocks[i].open
  /\ blocks' = [blocks EXCEPT ![i].open = FALSE]
  /\ UNCHANGED phase

MessageDelta ==
  /\ phase = "content" /\ \A i \in DOMAIN blocks : ~ blocks[i].open
  /\ phase' = "summed" /\ UNCHANGED blocks

MessageStop == phase = "summed" /\ phase' = "ended" /\ UNCHANGED blocks

Next ==
  \/ MessageStart \/ MessageDelta \/ MessageStop
  \/ \E kind \in Kinds : ContentBlockStart(kind)
  \/ \E i \in DOMAIN blocks : ContentBlockDelta(i) \/ ContentBlockStop(i)

Spec == Init /\ [][Next]_vars
=============================================================================
