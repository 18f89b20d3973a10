-------------------------- MODULE EventStreamDecoder --------------------------
(***************************************************************************)
(* The decoder of AWS event streams (kiro/parser/decoder.rs and frame.rs)  *)
(* and the loop every reader runs it in: feed a chunk, iterate until the   *)
(* iterator ends, read the next chunk.                                     *)
(*                                                                         *)
(* Bytes are cells.  A frame is a run of cells of which the first          *)
(* PRELUDE_SIZE hold its length and a checksum of that; the rest stands    *)
(* for headers, payload and the checksum of the whole.  Cells arrive       *)
(* intact or damaged, cut into chunks anywhere, and a checksum finds every *)
(* damage.  Where the decoder looks for a frame and there is none, what it *)
(* takes for a length is anything, but the same each time it looks.        *)
(***************************************************************************)
EXTENDS Naturals, Sequences, FiniteSets

CONSTANTS
  Streams,        \* the sequences of frame lengths the server may send
  Damages,        \* the sets of cells that may be damaged on the way
  OddHeaders,     \* the sets of frames that may have headers nobody can read
  Misreadings,    \* what may be read for lengths where there is no prelude,
                  \* functions of the cell
  Chunks,         \* the sizes of chunks
  PRELUDE_SIZE, MIN_MESSAGE_SIZE, MAX_MESSAGE_SIZE,
  MaxErrors, MaxBufferSize   \* max_errors and max_buffer_size

ASSUME SizesAssumption ==
  /\ PRELUDE_SIZE \in Nat \ {0} /\ MIN_MESSAGE_SIZE \in Nat
  /\ PRELUDE_SIZE < MIN_MESSAGE_SIZE /\ MIN_MESSAGE_SIZE <= MAX_MESSAGE_SIZE
  /\ MAX_MESSAGE_SIZE \in Nat
  /\ MaxErrors \in Nat \ {0} /\ MaxBufferSize \in Nat
ASSUME StreamsAssumption ==
  Streams \subseteq Seq(MIN_MESSAGE_SIZE .. MAX_MESSAGE_SIZE)
ASSUME ChunksAssumption == Chunks \subseteq Nat \ {0}

VARIABLES
  stream,   \* the lengths of the frames on the wire
  damaged,  \* the damaged cells
  odd,      \* the frames whose headers cannot be read
  bogus,    \* the length read at a cell where there is no sound prelude
  fed,      \* how many cells have arrived
  buffer,   \* the cells in the buffer
  state,    \* DecoderState; Parsing is never seen between two steps
  errorCount,
  phase,    \* of the reader: it waits for a chunk, iterates, or is done
  out,      \* the numbers of the frames decoded so far
  dropped   \* history: a chunk did not fit and was dropped

wire == <<stream, damaged, odd, bogus>>
vars == <<wire, fed, buffer, state, errorCount, phase, out, dropped>>

States == {"Ready", "Recovering", "Stopped"}

\* The cell before the first one of frame f of a stream.
Before(lengths) ==
  LET b[f \in 1 .. Len(lengths) + 1] == IF f = 1 THEN 0 ELSE b[f - 1] + lengths[f - 1]
  IN  b

Total(lengths) == Before(lengths)[Len(lengths) + 1]

ASSUME MisreadingsAssumption ==
  \A s \in Streams : \A m \in Misreadings : \A x \in 1 .. Total(s) : m[x] \in Nat

Cells(f) == Before(stream)[f] + 1 .. Before(stream)[f + 1]

Prelude(f) == Before(stream)[f] + 1 .. Before(stream)[f] + PRELUDE_SIZE

Intact(f) == Cells(f) \cap damaged = {} /\ f \notin odd

Init ==
  /\ stream \in Streams
  /\ damaged \in {d \in Damages : d \subseteq 1 .. Total(stream)}
  /\ odd \in OddHeaders /\ bogus \in Misreadings
  /\ fed = 0 /\ buffer = <<>>
  /\ state = "Ready" /\ errorCount = 0
  /\ phase = "read" /\ out = <<>> /\ dropped = FALSE

-----------------------------------------------------------------------------
(* parse_frame, on a buffer that is not shorter than a prelude. *)

\* The frames whose first n cells are what the buffer begins with.
AtFrame(n) == {f \in DOMAIN stream :
                 \A k \in 1 .. n : buffer[k] = Before(stream)[f] + k /\ buffer[k] \notin damaged}

SoundPrelude == AtFrame(PRELUDE_SIZE) # {}

TotalLength == IF SoundPrelude
               THEN stream[CHOOSE f \in AtFrame(PRELUDE_SIZE) : TRUE]
               ELSE bogus[buffer[1]]

NeedMore ==
  Len(buffer) >= PRELUDE_SIZE =>
    /\ TotalLength \in MIN_MESSAGE_SIZE .. MAX_MESSAGE_SIZE
    /\ Len(buffer) < TotalLength

\* Mutant: the range of the length is taken for proof of a prelude.
PreludeErrorByRange ==
  /\ ~NeedMore
  /\ TotalLength \notin MIN_MESSAGE_SIZE .. MAX_MESSAGE_SIZE

\* MessageTooSmall, MessageTooLarge and PreludeCrcMismatch.
PreludeError == ~NeedMore /\ ~SoundPrelude

\* Mutant: the checksum of the whole is not looked at.
ParsedUnchecked == IF NeedMore \/ PreludeError THEN {}
                   ELSE AtFrame(PRELUDE_SIZE) \ odd

\* The frame, if its checksum holds and its headers can be read.
Parsed == IF NeedMore \/ PreludeError THEN {}
          ELSE AtFrame(TotalLength) \ odd

\* HeaderParseFailed and MessageCrcMismatch; other errors of the headers are
\* treated like those of the prelude.
DataError == ~NeedMore /\ ~PreludeError /\ Parsed = {}

-----------------------------------------------------------------------------
Advance(n) == buffer' = SubSeq(buffer, n + 1, Len(buffer))

\* feed.  A chunk that does not fit is dropped, and the reader goes on.
Feed(n) ==
  LET chunk == [k \in 1 .. n |-> fed + k] IN
  /\ phase = "read" /\ fed + n <= Total(stream)
  /\ fed' = fed + n
  /\ IF Len(buffer) + n > MaxBufferSize
     THEN dropped' = TRUE /\ UNCHANGED <<buffer, state>>
     ELSE /\ buffer' = buffer \o chunk
          /\ state' = IF state = "Recovering" THEN "Ready" ELSE state
          /\ UNCHANGED dropped
  /\ phase' = "decode"
  /\ UNCHANGED <<wire, errorCount, out>>

Decoding == phase = "decode" /\ state = "Ready"

DecodeFrame ==
  /\ Decoding
  /\ \E f \in Parsed : out' = Append(out, f) /\ Advance(stream[f])
  /\ errorCount' = 0
  /\ UNCHANGED <<wire, fed, state, phase, dropped>>

\* The iterator ends: nothing to decode, or an error in the step before.
EndIteration ==
  /\ phase = "decode"
  /\ state # "Ready" \/ NeedMore
  /\ phase' = "read"
  /\ UNCHANGED <<wire, fed, buffer, state, errorCount, out, dropped>>

\* try_recover: skip one byte to look for a frame there, or a frame of which the
\* length is known.
TryRecover ==
  \/ PreludeError /\ Advance(1)
  \/ DataError /\ Advance(TotalLength)
  \/ DataError /\ AtFrame(TotalLength) # {} /\ Advance(1)

DecodeError ==
  /\ Decoding /\ (PreludeError \/ DataError)
  /\ errorCount' = errorCount + 1
  /\ IF errorCount' >= MaxErrors
     THEN state' = "Stopped" /\ UNCHANGED buffer
     ELSE state' = "Recovering" /\ TryRecover
  /\ UNCHANGED <<wire, fed, phase, out, dropped>>

\* The body is over.  What is left in the buffer is not looked at.
End ==
  /\ phase = "read" /\ fed = Total(stream)
  /\ phase' = "over"
  /\ UNCHANGED <<wire, fed, buffer, state, errorCount, out, dropped>>

Finished == phase = "over" /\ UNCHANGED vars

Next == \/ \E n \in Chunks : Feed(n)
        \/ DecodeFrame \/ DecodeError \/ EndIteration
        \/ End \/ Finished

Spec == Init /\ [][Next]_vars

-----------------------------------------------------------------------------
(* Properties. *)

\* Types; and there are never as many errors in a row as stop the decoder, unless
\* it is stopped.
TypeOK ==
  /\ stream \in Streams /\ damaged \in Damages
  /\ odd \in OddHeaders /\ bogus \in Misreadings
  /\ fed \in 0 .. Total(stream)
  /\ buffer \in Seq(1 .. fed) /\ Len(buffer) <= MaxBufferSize
  /\ state \in States
  /\ errorCount \in 0 .. MaxErrors /\ (errorCount = MaxErrors <=> state = "Stopped")
  /\ phase \in {"read", "decode", "over"}
  /\ out \in Seq(DOMAIN stream) /\ dropped \in BOOLEAN

\* Cut anywhere, an undamaged stream that fits comes out whole, each frame once
\* and in order, as soon as its last cell has been fed.
IntactStreamRead ==
  damaged = {} /\ odd = {} /\ ~dropped =>
    /\ out = [f \in DOMAIN out |-> f]
    /\ phase # "decode" =>
         \A f \in DOMAIN stream : Before(stream)[f + 1] <= fed => f <= Len(out)

\* Whatever is damaged or dropped, frames come out in order, none twice, and
\* never one with a damaged cell.
OnlyIntactInOrder ==
  /\ \A i, j \in DOMAIN out : i < j => out[i] < out[j]
  /\ \A i \in DOMAIN out : Intact(out[i])

\* Recovery throws no sound frame away: one that has not come out is still in
\* the buffer, behind what the decoder chokes on, or has not arrived.
SoundFramesKept ==
  ~dropped =>
    \A f \in DOMAIN stream :
      \/ ~Intact(f) \/ \E i \in DOMAIN out : out[i] = f
      \/ \A x \in Cells(f) : x > fed \/ \E k \in DOMAIN buffer : buffer[k] = x
=============================================================================
