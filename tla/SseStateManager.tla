--------------------------- MODULE SseStateManager ---------------------------
(***************************************************************************)
(* SseStateManager of stream.rs: it keeps the state of a streamed message  *)
(* and lets through only the events that fit it.  The state is a record    *)
(* with the fields of ManagerInit, to which users add their own; `out`     *)
(* holds the events let through and not yet sent.                          *)
(*                                                                         *)
(* Blocks are numbered from 1.  An index is taken right before the block   *)
(* is started, so the next index is the number of blocks plus one.  The    *)
(* code visits blocks in the order of a hash map, here in that of their    *)
(* numbers: no client can rely on either.                                  *)
(***************************************************************************)
EXTENDS Naturals, Sequences, SequencesExt

ManagerInit ==
  [started |-> FALSE, deltaSent |-> FALSE, ended |-> FALSE, hasTool |-> FALSE,
   reason |-> "none", blocks |-> <<>>, out |-> <<>>]

Emit(s, event) == [s EXCEPT !.out = Append(@, event)]

IsBlockOpenOfType(s, i, kind) ==
  i \in DOMAIN s.blocks /\ s.blocks[i].open /\ s.blocks[i].kind = kind

NextBlockIndex(s) == Len(s.blocks) + 1

HasNonThinkingBlocks(s) == \E i \in DOMAIN s.blocks : s.blocks[i].kind # "thinking"

StopReason(s) ==
  IF s.reason # "none" THEN s.reason ELSE IF s.hasTool THEN "tool_use" ELSE "end_turn"

MessageStart(s) ==
  IF s.started THEN s
  ELSE Emit([s EXCEPT !.started = TRUE], [type |-> "message_start"])

DeltaEvent(i, kind, content) ==
  [type |-> "content_block_delta", index |-> i, kind |-> kind, content |-> content]

ContentBlockDelta(s, i, kind, content) ==
  IF i \in DOMAIN s.blocks /\ s.blocks[i].open
  THEN Emit(s, DeltaEvent(i, kind, content)) ELSE s

ContentBlockStop(s, i) ==
  IF i \in DOMAIN s.blocks /\ s.blocks[i].open
  THEN Emit([s EXCEPT !.blocks[i].open = FALSE],
            [type |-> "content_block_stop", index |-> i])
  ELSE s

\* Stops every open block of one of the kinds.
StopAll(s, kinds) ==
  LET upto[i \in 0 .. Len(s.blocks)] ==
        IF i = 0 THEN s
        ELSE IF s.blocks[i].kind \in kinds THEN ContentBlockStop(upto[i - 1], i)
        ELSE upto[i - 1]
  IN upto[Len(s.blocks)]

\* A block is started once.
StartedBlock(s, i, kind) ==
  IF i \in DOMAIN s.blocks THEN s
  ELSE Emit([s EXCEPT !.blocks = Append(@, [kind |-> kind, open |-> TRUE])],
            [type |-> "content_block_start", index |-> i, kind |-> kind])

\* A tool call ends the text before it.
ContentBlockStart(s, i, kind) ==
  StartedBlock(IF kind = "tool_use" THEN StopAll([s EXCEPT !.hasTool = TRUE], {"text"}) ELSE s,
               i, kind)

AllKinds == {"text", "thinking", "redacted_thinking", "tool_use"}

SummedUp(s) ==
  IF s.deltaSent THEN s
  ELSE Emit([s EXCEPT !.deltaSent = TRUE], [type |-> "message_delta", reason |-> StopReason(s)])

EndedMessage(s) ==
  IF s.ended THEN s ELSE Emit([s EXCEPT !.ended = TRUE], [type |-> "message_stop"])

FinalEvents(s) == EndedMessage(SummedUp(StopAll(s, AllKinds)))
=============================================================================
