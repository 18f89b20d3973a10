------------------------- MODULE MCEventStreamDecoder -------------------------
(***************************************************************************)
(* Instances of EventStreamDecoder, and the statements of the sources that *)
(* the code does not keep.                                                 *)
(***************************************************************************)
EXTENDS EventStreamDecoder

CONSTANTS MaxCells, MaxDamage   \* bounds on the streams and on what is damaged

\* All lengths too small, or read as that of a short frame, cell by cell.
AnyMisreading == [1 .. MaxCells -> {0, MIN_MESSAGE_SIZE}]
NoMisreading == {[x \in 1 .. MaxCells |-> 0]}

OneStream == {<<3, 4, 3>>}
LongFirst == {<<6, 3, 3>>}

NoneOdd == {{}}
MaybeOdd == {{}, {2}}

AnyDamage == {d \in SUBSET (1 .. MaxCells) : Cardinality(d) <= MaxDamage}

-----------------------------------------------------------------------------
(* Statements of the sources that the code does not keep. *)

\* decoder.rs:227: after an error in the data the damaged frame is skipped.
\* The iterator ends there, so what follows it in the last chunk is not read.
DamageCostsOneFrame ==
  phase = "over" /\ state # "Stopped" =>
    \A f \in DOMAIN stream : Intact(f) => \E i \in DOMAIN out : out[i] = f

\* decoder.rs:226: after an error in a prelude the decoder skips byte by byte to
\* the next frame.  Each byte counts as an error, so it stops on the way there.
OneDamageDoesNotStop == state = "Stopped" => Cardinality(damaged) > 1
=============================================================================
