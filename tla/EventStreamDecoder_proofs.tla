----------------------- MODULE EventStreamDecoder_proofs -----------------------
(***************************************************************************)
(* Proofs about the two ends of a stream.                                  *)
(*                                                                         *)
(* EventStreamDecoder, for every stream, every damage, every way of        *)
(* cutting the stream into chunks and every limit: what comes out is       *)
(* intact and in order, recovery throws no sound frame away, and an        *)
(* undamaged stream comes out whole.  All three rest on where the buffer   *)
(* stands in the stream: the cells in it come in order, behind those of    *)
(* the frames that are out; and without gaps, up to the last cell fed,     *)
(* unless a chunk was dropped.                                             *)
(*                                                                         *)
(* SseStream, for every text, however it is cut, and every order of        *)
(* events: the client reads a stream as AnthropicStream describes it, and  *)
(* thinking is signed before it is stopped.  Both rest on what a client    *)
(* will see once it has read the events on their way: each of them is      *)
(* legal, the context knows the same blocks with the same state, and no    *)
(* thinking is open but the block that the context has for it.             *)
(***************************************************************************)
EXTENDS EventStreamDecoder, SseStream, SequenceTheorems, WellFoundedInduction, TLAPS

-----------------------------------------------------------------------------
(* Where frames begin. *)

\* Of the numbers that have a property, if any, one is the smallest.
LEMMA Smallest ==
  ASSUME NEW T, T \subseteq Nat, T # {}
  PROVE  \E m \in T : \A x \in T : m <= x
<1>1. PICK m \in T : \A x \in T : ~(<<x, m>> \in OpToRel(<, Nat))
  BY NatLessThanWellFounded, WFMin
<1>2. ASSUME NEW x \in T
      PROVE  m <= x
  <2>1. <<x, m>> \in Nat \X Nat
    OBVIOUS
  <2>2. ~(x < m)
    BY <1>1, <2>1 DEF OpToRel
  <2> QED
    BY <2>2
<1> QED
  BY <1>2

\* What the first n values of Before have to be.
Begins(lengths, n, b) ==
  b = [f \in 1 .. n |-> IF f = 1 THEN 0 ELSE b[f - 1] + lengths[f - 1]]

\* Such values exist, one more for each frame, so Before is what it says.
LEMMA BeforeDefined ==
  ASSUME NEW lengths, Len(lengths) \in Nat
  PROVE  Begins(lengths, Len(lengths) + 1, Before(lengths))
<1> DEFINE T == {n \in Nat : ~ \E b : Begins(lengths, n, b)}
<1>1. T = {}
  <2> SUFFICES ASSUME T # {} PROVE FALSE
    OBVIOUS
  <2>1. PICK m \in T : \A x \in T : m <= x
    <3>1. T \subseteq Nat
      OBVIOUS
    <3> QED
      BY <3>1, Smallest
  <2>2. m # 0
    <3>1. Begins(lengths, 0, [f \in 1 .. 0 |-> 0])
      BY DEF Begins
    <3> QED
      BY <3>1, <2>1
  <2>3. m \in Nat /\ m - 1 \in Nat /\ m - 1 \notin T
    BY <2>1, <2>2
  <2>4. PICK b : Begins(lengths, m - 1, b)
    BY <2>3
  <2> DEFINE c == [f \in 1 .. m |-> IF f = 1 THEN 0 ELSE b[f - 1] + lengths[f - 1]]
  <2>5. ASSUME NEW f \in 1 .. m - 1
        PROVE  c[f] = b[f]
    <3>1. f \in 1 .. m
      BY <2>3
    <3>2. b[f] = IF f = 1 THEN 0 ELSE b[f - 1] + lengths[f - 1]
      BY <2>4 DEF Begins
    <3> QED
      BY <3>1, <3>2
  <2>6. \A f \in 1 .. m : f # 1 => f - 1 \in 1 .. m - 1
    BY <2>3
  <2>7. c = [f \in 1 .. m |-> IF f = 1 THEN 0 ELSE c[f - 1] + lengths[f - 1]]
    <3> HIDE DEF c
    <3>1. \A f \in 1 .. m : f # 1 => c[f - 1] = b[f - 1]
      BY <2>5, <2>6
    <3>2. c = [f \in 1 .. m |-> IF f = 1 THEN 0 ELSE b[f - 1] + lengths[f - 1]]
      BY DEF c
    <3> QED
      BY <3>1, <3>2
  <2>8. Begins(lengths, m, c)
    BY <2>7 DEF Begins
  <2> HIDE DEF c
  <2> QED
    BY <2>1, <2>8
<1>2. PICK b : Begins(lengths, Len(lengths) + 1, b)
  <2>1. Len(lengths) + 1 \in Nat /\ Len(lengths) + 1 \notin T
    BY <1>1
  <2> QED
    BY <2>1
<1> QED
  BY <1>2 DEF Begins, Before

\* Frames begin one behind the other, at natural numbers.
LEMMA BeforeSteps ==
  ASSUME NEW s \in Streams
  PROVE  /\ Len(s) \in Nat /\ DOMAIN s = 1 .. Len(s)
         /\ \A f \in DOMAIN s : s[f] \in Nat /\ s[f] \in MIN_MESSAGE_SIZE .. MAX_MESSAGE_SIZE
         /\ Before(s)[1] = 0
         /\ \A f \in DOMAIN s : Before(s)[f + 1] = Before(s)[f] + s[f]
         /\ \A f \in 1 .. Len(s) + 1 : Before(s)[f] \in Nat
<1>1. /\ Len(s) \in Nat /\ DOMAIN s = 1 .. Len(s)
      /\ \A f \in DOMAIN s : s[f] \in Nat /\ s[f] \in MIN_MESSAGE_SIZE .. MAX_MESSAGE_SIZE
  BY StreamsAssumption, SizesAssumption
<1> DEFINE b == Before(s)
<1>2. \A f \in 1 .. Len(s) + 1 : b[f] = IF f = 1 THEN 0 ELSE b[f - 1] + s[f - 1]
  BY <1>1, BeforeDefined DEF Begins
<1> HIDE DEF b
<1>3. b[1] = 0 /\ \A f \in 1 .. Len(s) : b[f + 1] = b[f] + s[f]
  <2>1. 1 \in 1 .. Len(s) + 1
    BY <1>1
  <2>2. \A f \in 1 .. Len(s) : f + 1 \in 1 .. Len(s) + 1 /\ f + 1 # 1 /\ (f + 1) - 1 = f
    BY <1>1
  <2> QED
    BY <1>2, <2>1, <2>2
<1>4. \A f \in 1 .. Len(s) + 1 : b[f] \in Nat
  <2> DEFINE T == {f \in 1 .. Len(s) + 1 : b[f] \notin Nat}
  <2> SUFFICES ASSUME T # {} PROVE FALSE
    OBVIOUS
  <2>1. T \subseteq Nat
    BY <1>1
  <2>2. PICK m \in T : \A x \in T : m <= x
    BY <2>1, Smallest
  <2>3. m # 1 /\ m - 1 \in 1 .. Len(s) /\ m - 1 \notin T
    BY <1>1, <1>3, <2>2
  <2>4. b[m - 1] \in Nat /\ s[m - 1] \in Nat
    BY <1>1, <2>3
  <2>5. b[m] = b[m - 1] + s[m - 1]
    <3>1. (m - 1) + 1 = m
      BY <1>1, <2>2
    <3> QED
      BY <1>3, <2>3, <3>1
  <2> QED
    BY <2>2, <2>4, <2>5
<1> QED
  BY <1>1, <1>3, <1>4 DEF b

\* A later frame begins later, since no frame is empty.
LEMMA BeforeGrows ==
  ASSUME NEW s \in Streams, NEW f \in 1 .. Len(s) + 1, NEW g \in 1 .. Len(s) + 1, f < g
  PROVE  Before(s)[f] < Before(s)[g]
<1> DEFINE b == Before(s)
           T == {h \in 1 .. Len(s) + 1 : f < h /\ ~(b[f] < b[h])}
<1>1. /\ Len(s) \in Nat /\ \A h \in 1 .. Len(s) + 1 : b[h] \in Nat
      /\ \A h \in 1 .. Len(s) : s[h] \in Nat /\ s[h] > 0 /\ b[h + 1] = b[h] + s[h]
  BY BeforeSteps, SizesAssumption
<1> HIDE DEF b
<1> SUFFICES ASSUME T # {} PROVE FALSE
  BY DEF b
<1>2. T \subseteq Nat
  BY <1>1
<1>3. PICK m \in T : \A x \in T : m <= x
  BY <1>2, Smallest
<1>4. m - 1 \in 1 .. Len(s) /\ m - 1 \in 1 .. Len(s) + 1 /\ f <= m - 1 /\ m - 1 \notin T
  BY <1>1, <1>3
<1>5. b[f] <= b[m - 1]
  <2>1. CASE f = m - 1
    <3>1. b[f] \in Nat
      BY <1>1
    <3> QED
      BY ONLY <2>1, <3>1
  <2>2. CASE f # m - 1
    <3>1. f < m - 1
      BY <1>1, <1>4, <2>2
    <3>2. b[f] < b[m - 1]
      BY <1>4, <3>1
    <3>3. b[f] \in Nat /\ b[m - 1] \in Nat
      BY <1>1, <1>4
    <3> HIDE DEF T
    <3> QED
      BY <3>2, <3>3
  <2> QED
    BY <2>1, <2>2
<1>6. b[m] = b[m - 1] + s[m - 1] /\ s[m - 1] > 0 /\ s[m - 1] \in Nat
  <2>1. (m - 1) + 1 = m
    BY <1>1, <1>3
  <2> QED
    BY <1>1, <1>4, <2>1
<1>7. b[f] < b[m]
  BY <1>1, <1>4, <1>5, <1>6
<1> QED
  BY <1>3, <1>7

-----------------------------------------------------------------------------
(* What is found at the head of the buffer. *)

LEMMA AtFrameFacts ==
  ASSUME TypeOK, NEW n \in Nat \ {0}, NEW f \in AtFrame(n)
  PROVE  /\ f \in DOMAIN stream /\ f \in 1 .. Len(stream) + 1
         /\ buffer[1] = Before(stream)[f] + 1
         /\ \A k \in 1 .. n : buffer[k] = Before(stream)[f] + k /\ buffer[k] \notin damaged
<1>1. f \in DOMAIN stream /\ \A k \in 1 .. n : buffer[k] = Before(stream)[f] + k /\ buffer[k] \notin damaged
  BY DEF AtFrame
<1>2. 1 \in 1 .. n
  OBVIOUS
<1>3. f \in 1 .. Len(stream) + 1
  BY <1>1, BeforeSteps DEF TypeOK
<1> QED
  BY <1>1, <1>2, <1>3

\* A cell begins at most one frame.
LEMMA OneFrame ==
  ASSUME TypeOK, NEW n \in Nat \ {0}, NEW m \in Nat \ {0},
         NEW f \in AtFrame(n), NEW g \in AtFrame(m)
  PROVE  f = g
<1>1. /\ f \in 1 .. Len(stream) + 1 /\ g \in 1 .. Len(stream) + 1
      /\ Before(stream)[f] + 1 = Before(stream)[g] + 1
  BY AtFrameFacts
<1>2. Len(stream) \in Nat /\ Before(stream)[f] \in Nat /\ Before(stream)[g] \in Nat
  BY <1>1, BeforeSteps DEF TypeOK
<1>3. ASSUME NEW h \in {f, g}, NEW k \in {f, g}, h < k
      PROVE  FALSE
  <2>1. Before(stream)[h] < Before(stream)[k]
    BY <1>1, <1>3, BeforeGrows DEF TypeOK
  <2> QED
    BY ONLY <1>1, <1>2, <1>3, <2>1
<1> QED
  BY ONLY <1>1, <1>2, <1>3

\* A sound prelude tells the length of the frame it begins, and it lies in the
\* buffer unless more is needed.
LEMMA PreludeTells ==
  ASSUME TypeOK, NEW f \in AtFrame(PRELUDE_SIZE)
  PROVE  /\ TotalLength = stream[f]
         /\ ~NeedMore => stream[f] \in PRELUDE_SIZE .. Len(buffer)
<1>1. PRELUDE_SIZE \in Nat \ {0}
  BY SizesAssumption
<1>2. SoundPrelude
  BY DEF SoundPrelude
<1>3. (CHOOSE g \in AtFrame(PRELUDE_SIZE) : TRUE) = f
  BY <1>1, OneFrame
<1>4. TotalLength = stream[f]
  BY <1>2, <1>3 DEF TotalLength
<1>5. f \in DOMAIN stream
  BY DEF AtFrame
<1>6. stream[f] \in MIN_MESSAGE_SIZE .. MAX_MESSAGE_SIZE /\ stream[f] \in Nat
  BY <1>5, BeforeSteps DEF TypeOK
<1>7. Len(buffer) \in Nat
  BY DEF TypeOK
<1>8. ~NeedMore => stream[f] \in PRELUDE_SIZE .. Len(buffer)
  BY <1>4, <1>6, <1>7, SizesAssumption DEF NeedMore
<1> QED
  BY <1>4, <1>8

\* What is parsed is an intact frame that the buffer begins with.
LEMMA ParsedIsFrame ==
  ASSUME TypeOK, NEW f \in Parsed
  PROVE  /\ f \in DOMAIN stream /\ stream[f] \in 1 .. Len(buffer)
         /\ \A k \in 1 .. stream[f] : buffer[k] = Before(stream)[f] + k
         /\ Intact(f)
<1>1. ~NeedMore /\ SoundPrelude /\ f \in AtFrame(TotalLength) /\ f \notin odd
  BY DEF Parsed, PreludeError
<1>2. PICK g \in AtFrame(PRELUDE_SIZE) : TRUE
  BY <1>1 DEF SoundPrelude
<1>3. TotalLength = stream[g] /\ stream[g] \in PRELUDE_SIZE .. Len(buffer)
  BY <1>1, <1>2, PreludeTells
<1>4. PRELUDE_SIZE \in Nat \ {0} /\ Len(buffer) \in Nat
  BY SizesAssumption DEF TypeOK
<1>5. TotalLength \in Nat \ {0} /\ TotalLength \in 1 .. Len(buffer)
  BY <1>3, <1>4
<1>6. f = g
  BY <1>1, <1>2, <1>4, <1>5, OneFrame
<1>7. f \in DOMAIN stream /\ stream[f] = TotalLength
  BY <1>1, <1>3, <1>5, <1>6, AtFrameFacts
<1>8. \A k \in 1 .. stream[f] : buffer[k] = Before(stream)[f] + k /\ buffer[k] \notin damaged
  BY <1>1, <1>5, <1>7, AtFrameFacts
<1>9. ASSUME NEW x \in Cells(f)
      PROVE  x \notin damaged
  <2>1. /\ Before(stream)[f + 1] = Before(stream)[f] + stream[f]
        /\ stream[f] \in Nat /\ Before(stream)[f] \in Nat
    BY <1>7, BeforeSteps DEF TypeOK
  <2>2. x - Before(stream)[f] \in 1 .. stream[f]
    BY <2>1 DEF Cells
  <2>3. buffer[x - Before(stream)[f]] = x
    <3>1. Before(stream)[f] + (x - Before(stream)[f]) = x
      BY <2>1 DEF Cells
    <3> QED
      BY <1>8, <2>2, <3>1
  <2> QED
    BY <1>8, <2>2, <2>3
<1> QED
  BY <1>1, <1>5, <1>7, <1>8, <1>9 DEF Intact

\* Where there is an error in the data, the buffer begins with a frame that is
\* not intact and whose length is known.
LEMMA DamagedFrame ==
  ASSUME TypeOK, DataError
  PROVE  \E f \in DOMAIN stream :
           /\ buffer[1] = Before(stream)[f] + 1
           /\ TotalLength = stream[f] /\ stream[f] \in 1 .. Len(buffer)
           /\ f \in AtFrame(PRELUDE_SIZE) /\ f \notin AtFrame(TotalLength) \ odd
<1>1. ~NeedMore /\ SoundPrelude /\ AtFrame(TotalLength) \ odd = {}
  BY DEF DataError, PreludeError, Parsed
<1>2. PICK f \in AtFrame(PRELUDE_SIZE) : TRUE
  BY <1>1 DEF SoundPrelude
<1>3. TotalLength = stream[f] /\ stream[f] \in PRELUDE_SIZE .. Len(buffer)
  BY <1>1, <1>2, PreludeTells
<1>4. PRELUDE_SIZE \in Nat \ {0} /\ Len(buffer) \in Nat
  BY SizesAssumption DEF TypeOK
<1>5. f \in DOMAIN stream /\ buffer[1] = Before(stream)[f] + 1
  BY <1>2, <1>4, AtFrameFacts
<1> QED
  BY <1>1, <1>2, <1>3, <1>4, <1>5

-----------------------------------------------------------------------------
(* What becomes of the buffer. *)

\* Skipping cells at its head.
LEMMA AdvanceFacts ==
  ASSUME NEW S, buffer \in Seq(S), NEW n \in 0 .. Len(buffer), Advance(n)
  PROVE  /\ buffer' \in Seq(S) /\ Len(buffer') = Len(buffer) - n
         /\ \A k \in 1 .. Len(buffer) - n : buffer'[k] = buffer[n + k]
<1>1. Len(buffer) \in Nat /\ n + 1 \in Int /\ buffer' = SubSeq(buffer, n + 1, Len(buffer))
  BY DEF Advance
<1>2. \A i \in n + 1 .. Len(buffer) : buffer[i] \in S
  BY <1>1
<1>3. /\ buffer' \in Seq(S)
      /\ Len(buffer') = IF n + 1 <= Len(buffer) THEN Len(buffer) - (n + 1) + 1 ELSE 0
      /\ \A k \in 1 .. Len(buffer) - (n + 1) + 1 : buffer'[k] = buffer[n + 1 + k - 1]
  BY <1>1, <1>2, SubSeqProperties
<1>4. Len(buffer) - (n + 1) + 1 = Len(buffer) - n
  BY <1>1
<1>5. \A k \in 1 .. Len(buffer) - n : n + 1 + k - 1 = n + k
  BY <1>1
<1>6. Len(buffer') = Len(buffer) - n
  BY <1>1, <1>3
<1>7. ASSUME NEW k \in 1 .. Len(buffer) - n
      PROVE  buffer'[k] = buffer[n + k]
  <2>1. buffer'[k] = buffer[n + 1 + k - 1]
    BY <1>3, <1>4
  <2> QED
    BY <1>5, <2>1
<1> QED
  BY <1>3, <1>6, <1>7

\* Adding a chunk at its end.
LEMMA FeedFacts ==
  ASSUME TypeOK, NEW n \in Nat \ {0}, fed + n <= Total(stream),
         buffer' = buffer \o [k \in 1 .. n |-> fed + k]
  PROVE  /\ buffer' \in Seq(1 .. fed + n) /\ Len(buffer') = Len(buffer) + n
         /\ \A k \in 1 .. Len(buffer) : buffer'[k] = buffer[k]
         /\ \A k \in Len(buffer) + 1 .. Len(buffer) + n :
              buffer'[k] = fed + (k - Len(buffer))
<1> DEFINE chunk == [k \in 1 .. n |-> fed + k]
<1>1. fed \in Nat /\ Len(buffer) \in Nat /\ buffer \in Seq(1 .. fed)
  BY DEF TypeOK
<1>2. chunk \in Seq(1 .. fed + n) /\ Len(chunk) = n
  BY <1>1
<1>3. buffer \in Seq(1 .. fed + n)
  <2>1. 1 .. fed \subseteq 1 .. fed + n
    BY <1>1
  <2> QED
    BY <1>1, <2>1, SeqMonotonic
<1>4. /\ buffer' \in Seq(1 .. fed + n) /\ Len(buffer') = Len(buffer) + n
      /\ \A k \in 1 .. Len(buffer) + n :
           buffer'[k] = IF k <= Len(buffer) THEN buffer[k] ELSE chunk[k - Len(buffer)]
  <2> HIDE DEF chunk
  <2> QED
    BY <1>2, <1>3, ConcatProperties DEF chunk
<1>5. \A k \in Len(buffer) + 1 .. Len(buffer) + n :
        /\ k \in 1 .. Len(buffer) + n /\ ~(k <= Len(buffer))
        /\ k - Len(buffer) \in 1 .. n
  BY <1>1
<1>6. \A k \in 1 .. Len(buffer) : k \in 1 .. Len(buffer) + n /\ k <= Len(buffer)
  BY <1>1
<1> QED
  BY <1>4, <1>5, <1>6

\* Recovery skips a cell or a frame, and never more than there is.
LEMMA RecoverySkips ==
  ASSUME TypeOK, PreludeError \/ DataError, TryRecover
  PROVE  \E n \in 1 .. Len(buffer) : Advance(n)
<1>1. 1 \in 1 .. Len(buffer)
  BY SizesAssumption DEF TypeOK, PreludeError, DataError, NeedMore
<1>2. CASE PreludeError /\ Advance(1)
  BY <1>1, <1>2
<1>3. CASE DataError /\ Advance(TotalLength)
  BY <1>3, DamagedFrame
<1>4. CASE DataError /\ AtFrame(TotalLength) # {} /\ Advance(1)
  BY <1>1, <1>4
<1> QED
  BY <1>2, <1>3, <1>4 DEF TryRecover

-----------------------------------------------------------------------------
(* The type invariant. *)

LEMMA StartsTyped == Init => TypeOK
<1> SUFFICES ASSUME Init PROVE TypeOK
  OBVIOUS
<1>1. stream \in Streams /\ Total(stream) \in Nat
  <2>1. stream \in Streams
    BY DEF Init
  <2>2. Len(stream) + 1 \in 1 .. Len(stream) + 1
    BY <2>1, BeforeSteps
  <2> QED
    BY <2>1, <2>2, BeforeSteps DEF Total
<1>2. buffer = <<>> /\ buffer \in Seq(1 .. fed) /\ Len(buffer) <= MaxBufferSize
  BY SizesAssumption DEF Init
<1>3. out \in Seq(DOMAIN stream)
  BY DEF Init
<1>4. fed \in 0 .. Total(stream)
  BY <1>1 DEF Init
<1>5. errorCount \in 0 .. MaxErrors /\ (errorCount = MaxErrors <=> state = "Stopped")
  BY SizesAssumption DEF Init
<1> QED
  BY <1>1, <1>2, <1>3, <1>4, <1>5 DEF Init, TypeOK, States

LEMMA StaysTyped == TypeOK /\ [Next]_vars => TypeOK'
<1> SUFFICES ASSUME TypeOK, [Next]_vars PROVE TypeOK'
  OBVIOUS
<1> USE DEF States
<1>0. /\ Total(stream) \in Nat /\ Len(buffer) \in Nat /\ fed \in Nat
      /\ MaxBufferSize \in Nat /\ MaxErrors \in Nat \ {0}
  <2>1. Len(stream) + 1 \in 1 .. Len(stream) + 1
    BY BeforeSteps DEF TypeOK
  <2> QED
    BY <2>1, BeforeSteps, SizesAssumption DEF TypeOK, Total
<1>1. ASSUME NEW n \in Chunks, Feed(n) PROVE TypeOK'
  <2>1. n \in Nat \ {0} /\ fed + n <= Total(stream) /\ fed' = fed + n
    BY <1>1, ChunksAssumption DEF Feed
  <2>2. fed' \in 0 .. Total(stream)
    BY <1>0, <2>1
  <2>3. buffer' \in Seq(1 .. fed') /\ Len(buffer') <= MaxBufferSize
    <3>1. CASE Len(buffer) + n > MaxBufferSize
      <4>1. buffer' = buffer /\ 1 .. fed \subseteq 1 .. fed'
        BY <1>0, <1>1, <2>1, <3>1 DEF Feed
      <4> QED
        BY <4>1, SeqMonotonic DEF TypeOK
    <3>2. CASE ~(Len(buffer) + n > MaxBufferSize)
      <4>1. buffer' = buffer \o [k \in 1 .. n |-> fed + k]
        BY <1>1, <3>2 DEF Feed
      <4> QED
        BY <1>0, <2>1, <3>2, <4>1, FeedFacts
    <3> QED
      BY <3>1, <3>2
  <2>4. state' \in States /\ (errorCount = MaxErrors <=> state' = "Stopped")
    BY <1>1 DEF Feed, TypeOK
  <2>5. /\ dropped' \in BOOLEAN /\ phase' = "decode"
        /\ UNCHANGED <<stream, damaged, odd, bogus, errorCount, out>>
    BY <1>1 DEF Feed, TypeOK, wire
  <2> QED
    BY <2>2, <2>3, <2>4, <2>5 DEF TypeOK
<1>2. CASE DecodeFrame
  <2>1. PICK f \in Parsed : out' = Append(out, f) /\ Advance(stream[f])
    BY <1>2 DEF DecodeFrame
  <2>2. f \in DOMAIN stream /\ stream[f] \in 0 .. Len(buffer) /\ stream[f] \in Nat
    BY <1>0, ParsedIsFrame
  <2>3. out' \in Seq(DOMAIN stream)
    BY <2>1, <2>2 DEF TypeOK
  <2>4. buffer' \in Seq(1 .. fed) /\ Len(buffer') <= MaxBufferSize
    <3>1. buffer \in Seq(1 .. fed) /\ Len(buffer) <= MaxBufferSize
      BY DEF TypeOK
    <3>2. buffer' \in Seq(1 .. fed) /\ Len(buffer') = Len(buffer) - stream[f]
      BY <2>1, <2>2, <3>1, AdvanceFacts
    <3> QED
      BY <1>0, <2>2, <3>1, <3>2
  <2>5. errorCount' = 0 /\ state = "Ready" /\ UNCHANGED <<wire, fed, state, phase, dropped>>
    BY <1>2 DEF DecodeFrame, Decoding
  <2> QED
    BY <1>0, <2>3, <2>4, <2>5 DEF TypeOK, wire
<1>3. CASE DecodeError
  <2>1. /\ state = "Ready" /\ errorCount' = errorCount + 1
        /\ UNCHANGED <<stream, damaged, odd, bogus, fed, phase, out, dropped>>
    BY <1>3 DEF DecodeError, Decoding, wire
  <2>2. errorCount' \in 0 .. MaxErrors /\ (errorCount' >= MaxErrors <=> errorCount' = MaxErrors)
    BY <1>0, <2>1 DEF TypeOK
  <2>3. /\ state' = IF errorCount' >= MaxErrors THEN "Stopped" ELSE "Recovering"
    BY <1>3 DEF DecodeError
  <2>4. buffer' \in Seq(1 .. fed) /\ Len(buffer') <= MaxBufferSize
    <3>1. buffer \in Seq(1 .. fed) /\ Len(buffer) <= MaxBufferSize
      BY DEF TypeOK
    <3>2. CASE buffer' = buffer
      BY <3>1, <3>2
    <3>3. ASSUME NEW n \in 1 .. Len(buffer), Advance(n)
          PROVE  buffer' \in Seq(1 .. fed) /\ Len(buffer') <= MaxBufferSize
      <4>1. n \in 0 .. Len(buffer) /\ n \in Nat
        BY <1>0
      <4>2. buffer' \in Seq(1 .. fed) /\ Len(buffer') = Len(buffer) - n
        BY <3>1, <3>3, <4>1, AdvanceFacts
      <4> QED
        BY <1>0, <3>1, <4>1, <4>2
    <3> QED
      BY <1>3, <3>2, <3>3, RecoverySkips DEF DecodeError
  <2> QED
    BY <2>1, <2>2, <2>3, <2>4 DEF TypeOK
<1>4. CASE EndIteration
  BY <1>4 DEF EndIteration, TypeOK, wire
<1>5. CASE End
  BY <1>5 DEF End, TypeOK, wire
<1>6. CASE UNCHANGED vars
  BY <1>6 DEF vars, wire, TypeOK
<1> QED
  BY <1>1, <1>2, <1>3, <1>4, <1>5, <1>6 DEF Next, Finished

\* Whatever arrives, the decoder keeps its types: the buffer within its limit, the
\* frames that come out those of the stream, and as many errors in a row as stop
\* it (max_errors) only once it is stopped.
THEOREM DecoderTyped == Spec => []TypeOK
BY StartsTyped, StaysTyped, PTL DEF Spec

-----------------------------------------------------------------------------
(* What comes out. *)

\* The inductive invariant: the cells in the buffer come in order, behind those of
\* the frames that are out.
InOrder ==
  /\ TypeOK
  /\ \A j, k \in 1 .. Len(buffer) : j < k => buffer[j] < buffer[k]
  /\ \A i \in 1 .. Len(out) :
       /\ Before(stream)[out[i] + 1] <= fed
       /\ \A k \in 1 .. Len(buffer) : Before(stream)[out[i] + 1] < buffer[k]
  /\ OnlyIntactInOrder

\* The end of a frame that is out is a place in the stream.
LEMMA OutFacts ==
  ASSUME TypeOK, NEW i \in 1 .. Len(out)
  PROVE  /\ out[i] \in DOMAIN stream /\ out[i] \in Nat
         /\ Before(stream)[out[i] + 1] \in Nat
<1>1. out \in Seq(DOMAIN stream) /\ stream \in Streams
  BY DEF TypeOK
<1>2. out[i] \in DOMAIN stream
  BY <1>1, ElementOfSeq
<1>3. out[i] \in 1 .. Len(stream) /\ Len(stream) \in Nat
  BY <1>1, <1>2, BeforeSteps
<1>4. out[i] \in Nat /\ out[i] + 1 \in 1 .. Len(stream) + 1
  BY ONLY <1>3
<1>5. Before(stream)[out[i] + 1] \in Nat
  BY ONLY <1>1, <1>4, BeforeSteps
<1> QED
  BY ONLY <1>2, <1>4, <1>5

\* Cells are places in the stream.
LEMMA BufferFacts ==
  ASSUME TypeOK
  PROVE  /\ Len(buffer) \in Nat /\ fed \in Nat
         /\ \A k \in 1 .. Len(buffer) : buffer[k] \in Nat /\ buffer[k] <= fed
<1>1. buffer \in Seq(1 .. fed) /\ fed \in Nat
  BY DEF TypeOK
<1>2. \A k \in 1 .. Len(buffer) : buffer[k] \in 1 .. fed
  BY <1>1, ElementOfSeq
<1> QED
  BY <1>1, <1>2

\* Skipping cells leaves the others in order.
LEMMA SkipInOrder ==
  ASSUME InOrder, TypeOK', NEW n \in 0 .. Len(buffer), Advance(n),
         UNCHANGED <<stream, damaged, odd, fed, out>>
  PROVE  InOrder'
<1>1. Len(buffer) \in Nat /\ buffer \in Seq(1 .. fed)
  BY DEF InOrder, TypeOK
<1>2. /\ Len(buffer') = Len(buffer) - n
      /\ \A k \in 1 .. Len(buffer) - n : buffer'[k] = buffer[n + k]
  BY <1>1, AdvanceFacts
<1>3. \A k \in 1 .. Len(buffer') : /\ n + k \in 1 .. Len(buffer)
                                   /\ buffer'[k] = buffer[n + k]
  BY <1>1, <1>2
<1>4. \A j, k \in 1 .. Len(buffer') : j < k => buffer'[j] < buffer'[k]
  <2>1. \A j, k \in 1 .. Len(buffer') : j < k => n + j < n + k
    BY <1>1, <1>2
  <2> QED
    BY <1>3, <2>1 DEF InOrder
<1>5. \A i \in 1 .. Len(out) : \A k \in 1 .. Len(buffer') :
        Before(stream)[out[i] + 1] < buffer'[k]
  BY <1>3 DEF InOrder
<1>6. OnlyIntactInOrder'
  BY DEF InOrder, OnlyIntactInOrder, Intact, Cells
<1> QED
  BY <1>4, <1>5, <1>6 DEF InOrder

\* A chunk comes behind what has been fed before.
LEMMA FeedInOrder ==
  ASSUME InOrder, TypeOK', NEW n \in Chunks, Feed(n)
  PROVE  InOrder'
<1>0. TypeOK /\ Len(buffer) \in Nat /\ fed \in Nat
  BY BufferFacts DEF InOrder
<1>1. /\ n \in Nat \ {0} /\ fed + n <= Total(stream) /\ fed' = fed + n
      /\ UNCHANGED <<stream, damaged, odd, out>>
  BY ChunksAssumption DEF Feed, wire
<1>2. OnlyIntactInOrder'
  BY <1>1 DEF InOrder, OnlyIntactInOrder, Intact, Cells
<1>3. \A i \in 1 .. Len(out) : Before(stream)[out[i] + 1] <= fed'
  BY <1>0, <1>1, OutFacts DEF InOrder
<1>4. CASE buffer' = buffer
  BY <1>1, <1>2, <1>3, <1>4 DEF InOrder
<1>5. CASE buffer' = buffer \o [k \in 1 .. n |-> fed + k]
  <2>1. /\ Len(buffer') = Len(buffer) + n
        /\ \A k \in 1 .. Len(buffer) : buffer'[k] = buffer[k]
        /\ \A k \in Len(buffer) + 1 .. Len(buffer) + n :
             buffer'[k] = fed + (k - Len(buffer))
    BY <1>0, <1>1, <1>5, FeedFacts
  <2>2. ASSUME NEW j \in 1 .. Len(buffer'), NEW k \in 1 .. Len(buffer'), j < k
        PROVE  buffer'[j] < buffer'[k]
    <3>1. CASE k <= Len(buffer)
      <4>1. j \in 1 .. Len(buffer) /\ k \in 1 .. Len(buffer)
        BY <1>0, <2>1, <2>2, <3>1
      <4> QED
        BY <2>1, <2>2, <4>1 DEF InOrder
    <3>2. CASE j <= Len(buffer) /\ ~(k <= Len(buffer))
      <4>1. j \in 1 .. Len(buffer) /\ k \in Len(buffer) + 1 .. Len(buffer) + n
        BY <1>0, <1>1, <2>1, <3>2
      <4>2. buffer'[j] \in Nat /\ buffer'[j] <= fed
        BY <1>0, <2>1, <4>1, BufferFacts
      <4>3. buffer'[k] = fed + (k - Len(buffer)) /\ k - Len(buffer) > 0
        BY <1>0, <1>1, <2>1, <4>1
      <4> QED
        BY <1>0, <4>1, <4>2, <4>3
    <3>3. CASE ~(j <= Len(buffer))
      <4>1. /\ j \in Len(buffer) + 1 .. Len(buffer) + n
            /\ k \in Len(buffer) + 1 .. Len(buffer) + n
        BY <1>0, <1>1, <2>1, <2>2, <3>3
      <4>2. /\ buffer'[j] = fed + (j - Len(buffer))
            /\ buffer'[k] = fed + (k - Len(buffer))
        BY <2>1, <4>1
      <4> QED
        BY <1>0, <1>1, <2>2, <4>1, <4>2
    <3> QED
      BY <1>0, <1>1, <2>1, <2>2, <3>1, <3>2, <3>3
  <2>3. ASSUME NEW i \in 1 .. Len(out), NEW k \in 1 .. Len(buffer')
        PROVE  Before(stream)[out[i] + 1] < buffer'[k]
    <3>1. CASE k \in 1 .. Len(buffer)
      BY <2>1, <3>1 DEF InOrder
    <3>2. CASE k \in Len(buffer) + 1 .. Len(buffer) + n
      <4>1. buffer'[k] = fed + (k - Len(buffer)) /\ k - Len(buffer) > 0
        BY <1>0, <1>1, <2>1, <3>2
      <4>2. Before(stream)[out[i] + 1] \in Nat /\ Before(stream)[out[i] + 1] <= fed
        BY <1>0, OutFacts DEF InOrder
      <4> QED
        BY <1>0, <3>2, <4>1, <4>2
    <3> QED
      BY <1>0, <1>1, <2>1, <3>1, <3>2
  <2> QED
    BY <1>1, <1>2, <1>3, <2>2, <2>3 DEF InOrder
<1> QED
  BY <1>4, <1>5 DEF Feed

\* The frame that is decoded lies behind those that are out, and before what
\* stays in the buffer.
LEMMA DecodeInOrder ==
  ASSUME InOrder, TypeOK', DecodeFrame
  PROVE  InOrder'
<1>0. TypeOK /\ Len(buffer) \in Nat /\ fed \in Nat /\ stream \in Streams
  BY BufferFacts DEF InOrder, TypeOK
<1>1. PICK f \in Parsed : out' = Append(out, f) /\ Advance(stream[f])
  BY DEF DecodeFrame
<1>2. UNCHANGED <<stream, damaged, odd, fed>>
  BY DEF DecodeFrame, wire
<1>3. /\ f \in DOMAIN stream /\ stream[f] \in 1 .. Len(buffer) /\ Intact(f)
      /\ \A k \in 1 .. stream[f] : buffer[k] = Before(stream)[f] + k
  BY <1>0, <1>1, ParsedIsFrame
<1>4. /\ Len(stream) \in Nat /\ f \in 1 .. Len(stream) /\ f \in 1 .. Len(stream) + 1
      /\ stream[f] \in Nat /\ Before(stream)[f] \in Nat
      /\ Before(stream)[f + 1] = Before(stream)[f] + stream[f]
  BY <1>0, <1>3, BeforeSteps
<1>5. buffer[1] = Before(stream)[f] + 1 /\ 1 \in 1 .. Len(buffer)
  <2>1. 1 \in 1 .. stream[f]
    BY <1>3, <1>4
  <2> QED
    BY <1>0, <1>3, <1>4, <2>1
<1>6. buffer[stream[f]] = Before(stream)[f + 1]
  <2>1. stream[f] \in 1 .. stream[f]
    BY <1>0, <1>3, <1>4
  <2> QED
    BY <1>3, <1>4, <2>1
<1>7. ASSUME NEW i \in 1 .. Len(out)
      PROVE  out[i] < f
  <2>1. /\ out[i] \in DOMAIN stream /\ out[i] \in Nat /\ out[i] \in 1 .. Len(stream)
        /\ Before(stream)[out[i] + 1] \in Nat
    BY <1>0, OutFacts, BeforeSteps
  <2>2. Before(stream)[out[i] + 1] < Before(stream)[f] + 1
    BY <1>5 DEF InOrder
  <2>3. out[i] + 1 \in 1 .. Len(stream) + 1
    BY <1>4, <2>1
  <2>4. ~(f < out[i] + 1)
    BY <1>0, <1>4, <2>1, <2>2, <2>3, BeforeGrows
  <2> QED
    BY <1>4, <2>1, <2>4
<1>8. /\ Len(out) \in Nat /\ Len(out') = Len(out) + 1 /\ out'[Len(out) + 1] = f
      /\ \A i \in 1 .. Len(out) : out'[i] = out[i]
  <2>1. out \in Seq(DOMAIN stream)
    BY <1>0 DEF TypeOK
  <2> QED
    BY <1>1, <1>3, <2>1
<1>9. \A i \in 1 .. Len(out') : i \in 1 .. Len(out) \/ i = Len(out) + 1
  BY <1>8
<1>10. OnlyIntactInOrder'
  <2>1. DOMAIN out = 1 .. Len(out) /\ DOMAIN out' = 1 .. Len(out')
    <3>1. out \in Seq(DOMAIN stream) /\ out' \in Seq(DOMAIN stream')
      BY <1>0 DEF TypeOK
    <3> QED
      BY <3>1
  <2>2. ASSUME NEW i \in 1 .. Len(out'), NEW j \in 1 .. Len(out'), i < j
        PROVE  out'[i] < out'[j]
    <3>1. i \in 1 .. Len(out)
      BY <1>8, <2>2
    <3>2. CASE j \in 1 .. Len(out)
      BY <1>8, <2>1, <2>2, <3>1, <3>2 DEF InOrder, OnlyIntactInOrder
    <3>3. CASE j = Len(out) + 1
      BY <1>7, <1>8, <3>1, <3>3
    <3> QED
      BY <1>9, <3>2, <3>3
  <2>3. ASSUME NEW i \in 1 .. Len(out')
        PROVE  Intact(out'[i])
    BY <1>3, <1>8, <1>9, <2>1 DEF InOrder, OnlyIntactInOrder
  <2>4. \A g : Intact(g)' <=> Intact(g)
    BY <1>2 DEF Intact, Cells
  <2> QED
    BY <2>1, <2>2, <2>3, <2>4 DEF OnlyIntactInOrder
<1>11. /\ Len(buffer') = Len(buffer) - stream[f]
       /\ \A k \in 1 .. Len(buffer') : /\ stream[f] + k \in 1 .. Len(buffer)
                                       /\ buffer'[k] = buffer[stream[f] + k]
  <2>1. buffer \in Seq(1 .. fed) /\ stream[f] \in 0 .. Len(buffer)
    BY <1>0, <1>3 DEF TypeOK
  <2>2. /\ Len(buffer') = Len(buffer) - stream[f]
        /\ \A k \in 1 .. Len(buffer) - stream[f] : buffer'[k] = buffer[stream[f] + k]
    BY <1>1, <2>1, AdvanceFacts
  <2> QED
    BY <1>0, <1>3, <1>4, <2>2
<1>12. \A j, k \in 1 .. Len(buffer') : j < k => buffer'[j] < buffer'[k]
  <2>1. \A j, k \in 1 .. Len(buffer') : j < k => stream[f] + j < stream[f] + k
    BY <1>0, <1>4, <1>11
  <2> QED
    BY <1>11, <2>1 DEF InOrder
<1>13. ASSUME NEW i \in 1 .. Len(out')
       PROVE  /\ Before(stream)[out'[i] + 1] <= fed
              /\ \A k \in 1 .. Len(buffer') : Before(stream)[out'[i] + 1] < buffer'[k]
  <2>1. CASE i \in 1 .. Len(out)
    BY <1>8, <1>11, <2>1 DEF InOrder
  <2>2. CASE i = Len(out) + 1
    <3>1. out'[i] = f /\ Before(stream)[out'[i] + 1] = buffer[stream[f]]
      BY <1>6, <1>8, <2>2
    <3>2. buffer[stream[f]] <= fed
      BY <1>0, <1>3, BufferFacts
    <3>3. \A k \in 1 .. Len(buffer') : stream[f] < stream[f] + k
      BY <1>0, <1>4, <1>11
    <3>4. \A k \in 1 .. Len(buffer') : buffer[stream[f]] < buffer[stream[f] + k]
      BY <1>3, <1>11, <3>3 DEF InOrder
    <3> QED
      BY <1>11, <3>1, <3>2, <3>4
  <2> QED
    BY <1>9, <2>1, <2>2
<1> QED
  BY <1>2, <1>10, <1>12, <1>13 DEF InOrder

LEMMA StartsInOrder == Init => InOrder
<1> SUFFICES ASSUME Init PROVE InOrder
  OBVIOUS
<1>1. Len(buffer) = 0 /\ Len(out) = 0 /\ DOMAIN out = {}
  BY DEF Init
<1> QED
  BY <1>1, StartsTyped DEF InOrder, OnlyIntactInOrder

LEMMA StaysInOrder == InOrder /\ [Next]_vars => InOrder'
<1> SUFFICES ASSUME InOrder, [Next]_vars PROVE InOrder'
  OBVIOUS
<1>0. TypeOK' /\ Len(buffer) \in Nat
  BY StaysTyped, BufferFacts DEF InOrder
<1>1. ASSUME UNCHANGED <<stream, damaged, odd, fed, out, buffer>> PROVE InOrder'
  BY <1>0, <1>1 DEF InOrder, OnlyIntactInOrder, Intact, Cells
<1>2. CASE DecodeError
  <2>1. UNCHANGED <<stream, damaged, odd, fed, out>>
    BY <1>2 DEF DecodeError, wire
  <2>2. buffer' = buffer \/ \E n \in 1 .. Len(buffer) : Advance(n)
    BY <1>2, RecoverySkips DEF DecodeError, InOrder
  <2>3. \A n \in 1 .. Len(buffer) : n \in 0 .. Len(buffer)
    BY <1>0
  <2> QED
    BY <1>0, <1>1, <2>1, <2>2, <2>3, SkipInOrder
<1>3. CASE EndIteration \/ End \/ UNCHANGED vars
  BY <1>1, <1>3 DEF EndIteration, End, vars, wire
<1> QED
  BY <1>0, <1>2, <1>3, FeedInOrder, DecodeInOrder DEF Next, Finished

\* Whatever is damaged or dropped and however the stream is cut and recovered,
\* frames come out in order, none twice, and never one with a damaged cell.
THEOREM DecodedInOrder == Spec => []OnlyIntactInOrder
<1>1. Spec => []InOrder
  BY StartsInOrder, StaysInOrder, PTL DEF Spec
<1>2. InOrder => OnlyIntactInOrder
  BY DEF InOrder
<1> QED
  BY <1>1, <1>2, PTL

-----------------------------------------------------------------------------
(* What is not lost. *)

\* How many cells have left the buffer, as long as none was dropped.
Gone == fed - Len(buffer)

\* The inductive invariant: the buffer has no gaps and ends with the last cell
\* fed, and the intact frames that began before it are out.
Kept ==
  /\ TypeOK
  /\ ~dropped =>
       /\ \A k \in 1 .. Len(buffer) : buffer[k] = Gone + k
       /\ \A f \in DOMAIN stream :
            Intact(f) /\ Before(stream)[f] < Gone => \E i \in 1 .. Len(out) : out[i] = f

\* Frames do not overlap.
LEMMA FramesApart ==
  ASSUME TypeOK, NEW f \in DOMAIN stream, NEW g \in DOMAIN stream,
         Before(stream)[g] <= Before(stream)[f], Before(stream)[f] < Before(stream)[g + 1]
  PROVE  f = g
<1>1. stream \in Streams
  BY DEF TypeOK
<1>2. /\ Len(stream) \in Nat /\ f \in 1 .. Len(stream) /\ g \in 1 .. Len(stream)
      /\ f \in 1 .. Len(stream) + 1 /\ g \in 1 .. Len(stream) + 1
      /\ g + 1 \in 1 .. Len(stream) + 1
  BY <1>1, BeforeSteps
<1>3. /\ Before(stream)[f] \in Nat /\ Before(stream)[g] \in Nat
      /\ Before(stream)[g + 1] \in Nat
  BY <1>1, <1>2, BeforeSteps
<1>4. ~(f < g)
  BY <1>1, <1>2, <1>3, BeforeGrows
<1>5. ~(g + 1 < f)
  BY <1>1, <1>2, <1>3, BeforeGrows
<1>6. g + 1 # f
  BY <1>3
<1> QED
  BY <1>2, <1>4, <1>5, <1>6

\* Where a frame is.
LEMMA FrameFacts ==
  ASSUME TypeOK, NEW f \in DOMAIN stream
  PROVE  /\ f \in Nat /\ Before(stream)[f] \in Nat /\ Before(stream)[f + 1] \in Nat
         /\ stream[f] \in Nat /\ PRELUDE_SIZE < stream[f]
         /\ Before(stream)[f + 1] = Before(stream)[f] + stream[f]
<1>1. stream \in Streams
  BY DEF TypeOK
<1>2. /\ Len(stream) \in Nat /\ f \in 1 .. Len(stream)
      /\ f \in 1 .. Len(stream) + 1 /\ f + 1 \in 1 .. Len(stream) + 1
  BY <1>1, BeforeSteps
<1>3. /\ Before(stream)[f] \in Nat /\ Before(stream)[f + 1] \in Nat
      /\ stream[f] \in Nat /\ stream[f] \in MIN_MESSAGE_SIZE .. MAX_MESSAGE_SIZE
      /\ Before(stream)[f + 1] = Before(stream)[f] + stream[f]
  BY <1>1, <1>2, BeforeSteps
<1>4. PRELUDE_SIZE < stream[f]
  BY <1>3, SizesAssumption
<1> QED
  BY <1>2, <1>3, <1>4

\* The buffer begins with the frame that begins where it does, as far as it
\* reaches, if that is not damaged.
LEMMA HeadIsFrame ==
  ASSUME Kept, ~dropped, NEW f \in DOMAIN stream, Before(stream)[f] = Gone,
         Cells(f) \cap damaged = {}, NEW n \in Nat, n <= Len(buffer), n <= stream[f]
  PROVE  f \in AtFrame(n)
<1>1. /\ TypeOK /\ Len(buffer) \in Nat
      /\ \A k \in 1 .. Len(buffer) : buffer[k] = Before(stream)[f] + k
  BY BufferFacts DEF Kept
<1>2. /\ Before(stream)[f] \in Nat /\ stream[f] \in Nat
      /\ Before(stream)[f + 1] = Before(stream)[f] + stream[f]
  BY <1>1, FrameFacts
<1>3. ASSUME NEW k \in 1 .. n
      PROVE  buffer[k] = Before(stream)[f] + k /\ buffer[k] \notin damaged
  <2>1. k \in 1 .. Len(buffer) /\ k \in 1 .. stream[f]
    BY <1>1, <1>2
  <2>2. Before(stream)[f] + k \in Cells(f)
    BY <1>2, <2>1 DEF Cells
  <2> QED
    BY <1>1, <2>1, <2>2
<1> QED
  BY <1>3 DEF AtFrame

\* Skipping cells loses nothing if what begins there is damaged or just put out.
LEMMA SkipKept ==
  ASSUME Kept, TypeOK', NEW n \in 1 .. Len(buffer), Advance(n),
         UNCHANGED <<stream, damaged, odd, fed, dropped>>,
         \A i \in 1 .. Len(out) : i \in 1 .. Len(out') /\ out'[i] = out[i],
         ~dropped => \A f \in DOMAIN stream :
           Intact(f) /\ Gone <= Before(stream)[f] /\ Before(stream)[f] < Gone + n
             => \E i \in 1 .. Len(out') : out'[i] = f
  PROVE  Kept'
<1>0. TypeOK /\ Len(buffer) \in Nat /\ fed \in Nat /\ n \in Nat /\ Gone \in Int
  BY BufferFacts DEF Kept, Gone
<1> SUFFICES ASSUME ~dropped
             PROVE  /\ \A k \in 1 .. Len(buffer') : buffer'[k] = Gone' + k
                    /\ \A f \in DOMAIN stream :
                         Intact(f) /\ Before(stream)[f] < Gone'
                           => \E i \in 1 .. Len(out') : out'[i] = f
  <2>1. \A g : Intact(g)' <=> Intact(g)
    BY DEF Intact, Cells
  <2> QED
    BY <2>1 DEF Kept
<1>1. /\ Len(buffer') = Len(buffer) - n
      /\ \A k \in 1 .. Len(buffer) - n : buffer'[k] = buffer[n + k]
  <2>1. buffer \in Seq(1 .. fed) /\ n \in 0 .. Len(buffer)
    BY <1>0 DEF TypeOK
  <2> QED
    BY <2>1, AdvanceFacts
<1>2. Gone' = Gone + n
  BY <1>0, <1>1 DEF Gone
<1>3. ASSUME NEW k \in 1 .. Len(buffer')
      PROVE  buffer'[k] = Gone' + k
  <2>1. n + k \in 1 .. Len(buffer) /\ k \in 1 .. Len(buffer) - n
    BY <1>0, <1>1
  <2>2. buffer[n + k] = Gone + (n + k)
    BY <2>1 DEF Kept
  <2> QED
    BY <1>0, <1>1, <1>2, <2>1, <2>2
<1>4. ASSUME NEW f \in DOMAIN stream, Intact(f), Before(stream)[f] < Gone'
      PROVE  \E i \in 1 .. Len(out') : out'[i] = f
  <2>1. CASE Before(stream)[f] < Gone
    BY <1>4, <2>1 DEF Kept
  <2>2. CASE ~(Before(stream)[f] < Gone)
    <3>1. Gone <= Before(stream)[f] /\ Before(stream)[f] < Gone + n
      BY <1>0, <1>2, <1>4, <2>2, FrameFacts
    <3> QED
      BY <1>4, <3>1
  <2> QED
    BY <2>1, <2>2
<1> QED
  BY <1>3, <1>4

LEMMA FeedKept ==
  ASSUME Kept, TypeOK', NEW n \in Chunks, Feed(n)
  PROVE  Kept'
<1>0. TypeOK /\ Len(buffer) \in Nat /\ fed \in Nat
  BY BufferFacts DEF Kept
<1>1. /\ n \in Nat \ {0} /\ fed + n <= Total(stream) /\ fed' = fed + n
      /\ UNCHANGED <<stream, damaged, odd, out>>
  BY ChunksAssumption DEF Feed, wire
<1> SUFFICES ASSUME ~dropped'
             PROVE  /\ \A k \in 1 .. Len(buffer') : buffer'[k] = Gone' + k
                    /\ Gone' = Gone /\ ~dropped
  <2>1. \A g : Intact(g)' <=> Intact(g)
    BY <1>1 DEF Intact, Cells
  <2> QED
    BY <1>1, <2>1 DEF Kept
<1>2. ~dropped /\ buffer' = buffer \o [k \in 1 .. n |-> fed + k]
  BY DEF Feed
<1>3. /\ Len(buffer') = Len(buffer) + n
      /\ \A k \in 1 .. Len(buffer) : buffer'[k] = buffer[k]
      /\ \A k \in Len(buffer) + 1 .. Len(buffer) + n :
           buffer'[k] = fed + (k - Len(buffer))
  BY <1>0, <1>1, <1>2, FeedFacts
<1>4. Gone' = Gone /\ Gone \in Int /\ Gone = fed - Len(buffer)
  BY <1>0, <1>1, <1>3 DEF Gone
<1>5. ASSUME NEW k \in 1 .. Len(buffer')
      PROVE  buffer'[k] = Gone' + k
  <2>1. CASE k \in 1 .. Len(buffer)
    BY <1>2, <1>3, <1>4, <2>1 DEF Kept
  <2>2. CASE k \in Len(buffer) + 1 .. Len(buffer) + n
    <3>1. buffer'[k] = fed + (k - Len(buffer))
      BY <1>3, <2>2
    <3> QED
      BY <1>0, <1>4, <2>2, <3>1
  <2> QED
    BY <1>0, <1>1, <1>3, <2>1, <2>2
<1> QED
  BY <1>2, <1>4, <1>5

\* The frame that is decoded is the one whose cells leave the buffer.
LEMMA DecodeKept ==
  ASSUME Kept, TypeOK', DecodeFrame
  PROVE  Kept'
<1>0. TypeOK /\ Len(buffer) \in Nat
  BY BufferFacts DEF Kept
<1>1. PICK f \in Parsed : out' = Append(out, f) /\ Advance(stream[f])
  BY DEF DecodeFrame
<1>2. UNCHANGED <<stream, damaged, odd, fed, dropped>>
  BY DEF DecodeFrame, wire
<1>3. /\ f \in DOMAIN stream /\ stream[f] \in 1 .. Len(buffer)
      /\ \A k \in 1 .. stream[f] : buffer[k] = Before(stream)[f] + k
  BY <1>0, <1>1, ParsedIsFrame
<1>4. /\ \A i \in 1 .. Len(out) : i \in 1 .. Len(out') /\ out'[i] = out[i]
      /\ Len(out') \in 1 .. Len(out') /\ out'[Len(out')] = f
  <2>1. out \in Seq(DOMAIN stream)
    BY <1>0 DEF TypeOK
  <2> QED
    BY <1>1, <1>3, <2>1
<1>5. ASSUME ~dropped, NEW g \in DOMAIN stream,
             Gone <= Before(stream)[g], Before(stream)[g] < Gone + stream[f]
      PROVE  g = f
  <2>1. /\ Before(stream)[f] \in Nat /\ stream[f] \in Nat
        /\ Before(stream)[f + 1] = Before(stream)[f] + stream[f]
    BY <1>0, <1>3, FrameFacts
  <2>2. 1 \in 1 .. stream[f] /\ 1 \in 1 .. Len(buffer)
    BY <1>0, <1>3
  <2>3. buffer[1] = Before(stream)[f] + 1 /\ buffer[1] = Gone + 1 /\ Gone \in Int
    BY <1>0, <1>3, <1>5, <2>2, BufferFacts DEF Kept, Gone
  <2>4. Before(stream)[f] = Gone
    BY <2>1, <2>3
  <2> QED
    BY <1>0, <1>3, <1>5, <2>1, <2>4, FramesApart
<1> QED
  BY <1>1, <1>2, <1>3, <1>4, <1>5, SkipKept

\* Recovery skips a cell at which no sound frame begins, or cells of the frame
\* that is not sound.
LEMMA RecoveryKept ==
  ASSUME Kept, TypeOK', PreludeError \/ DataError, TryRecover,
         UNCHANGED <<stream, damaged, odd, fed, dropped, out>>
  PROVE  Kept'
<1>0. /\ TypeOK /\ Len(buffer) \in Nat /\ fed \in Nat /\ Gone \in Int
      /\ \A i \in 1 .. Len(out) : i \in 1 .. Len(out') /\ out'[i] = out[i]
  BY BufferFacts DEF Kept, Gone
<1>1. 1 \in 1 .. Len(buffer) /\ PRELUDE_SIZE \in Nat /\ PRELUDE_SIZE <= Len(buffer)
  BY <1>0, SizesAssumption DEF PreludeError, DataError, NeedMore
<1>2. CASE PreludeError /\ Advance(1)
  <2>1. ASSUME ~dropped, NEW f \in DOMAIN stream, Intact(f),
               Gone <= Before(stream)[f], Before(stream)[f] < Gone + 1
        PROVE  FALSE
    <3>1. Before(stream)[f] = Gone
      BY <1>0, <2>1, FrameFacts
    <3>2. PRELUDE_SIZE <= stream[f]
      BY <1>0, <1>1, FrameFacts
    <3>3. Cells(f) \cap damaged = {}
      BY <2>1 DEF Intact
    <3>4. f \in AtFrame(PRELUDE_SIZE)
      BY <1>1, <2>1, <3>1, <3>2, <3>3, HeadIsFrame
    <3> QED
      BY <1>2, <3>4 DEF PreludeError, SoundPrelude
  <2> QED
    BY <1>0, <1>1, <1>2, <2>1, SkipKept
<1>3. ASSUME DataError, NEW n \in 1 .. TotalLength, Advance(n)
      PROVE  Kept'
  <2>1. PICK g \in DOMAIN stream :
          /\ buffer[1] = Before(stream)[g] + 1
          /\ TotalLength = stream[g] /\ stream[g] \in 1 .. Len(buffer)
          /\ g \in AtFrame(PRELUDE_SIZE) /\ g \notin AtFrame(TotalLength) \ odd
    BY <1>0, <1>3, DamagedFrame
  <2>2. /\ Before(stream)[g] \in Nat /\ stream[g] \in Nat /\ n \in Nat
        /\ Before(stream)[g + 1] = Before(stream)[g] + stream[g]
        /\ n <= stream[g] /\ n \in 1 .. Len(buffer) /\ stream[g] <= Len(buffer)
    BY <1>0, <1>3, <2>1, FrameFacts
  <2>3. ASSUME ~dropped, NEW f \in DOMAIN stream, Intact(f),
               Gone <= Before(stream)[f], Before(stream)[f] < Gone + n
        PROVE  FALSE
    <3>1. Before(stream)[g] = Gone
      <4>1. buffer[1] = Gone + 1
        BY <1>1, <2>3 DEF Kept
      <4> QED
        BY <1>0, <2>1, <2>2, <4>1
    <3>2. Before(stream)[f] < Before(stream)[g + 1] /\ Before(stream)[g] <= Before(stream)[f]
      BY <1>0, <2>2, <2>3, <3>1, FrameFacts
    <3>3. f = g
      BY <1>0, <2>1, <3>2, FramesApart
    <3>4. Cells(g) \cap damaged = {} /\ g \notin odd
      BY <2>3, <3>3 DEF Intact
    <3>5. g \in AtFrame(TotalLength)
      BY <2>1, <2>2, <2>3, <3>1, <3>4, HeadIsFrame
    <3> QED
      BY <2>1, <3>4, <3>5
  <2> QED
    BY <1>0, <1>3, <2>2, <2>3, SkipKept
<1>4. DataError => TotalLength \in 1 .. TotalLength /\ 1 \in 1 .. TotalLength
  <2>1. DataError => TotalLength \in 1 .. Len(buffer)
    BY <1>0, DamagedFrame
  <2> QED
    BY <1>0, <2>1
<1> QED
  BY <1>2, <1>3, <1>4 DEF TryRecover

LEMMA StartsKept == Init => Kept
<1> SUFFICES ASSUME Init PROVE Kept
  OBVIOUS
<1>1. TypeOK /\ Len(buffer) = 0 /\ Gone = 0
  <2>1. fed = 0 /\ Len(buffer) = 0
    BY DEF Init
  <2> QED
    BY <2>1, StartsTyped DEF Gone
<1>2. \A f \in DOMAIN stream : ~(Before(stream)[f] < 0)
  BY <1>1, FrameFacts
<1> QED
  BY <1>1, <1>2 DEF Kept

LEMMA StaysKept == Kept /\ [Next]_vars => Kept'
<1> SUFFICES ASSUME Kept, [Next]_vars PROVE Kept'
  OBVIOUS
<1>0. TypeOK'
  BY StaysTyped DEF Kept
<1>1. ASSUME UNCHANGED <<stream, damaged, odd, fed, out, buffer, dropped>> PROVE Kept'
  BY <1>0, <1>1 DEF Kept, Gone, Intact, Cells
<1>2. CASE DecodeError
  <2>1. UNCHANGED <<stream, damaged, odd, fed, out, dropped>>
    BY <1>2 DEF DecodeError, wire
  <2> QED
    BY <1>0, <1>1, <1>2, <2>1, RecoveryKept DEF DecodeError
<1>3. CASE EndIteration \/ End \/ UNCHANGED vars
  BY <1>1, <1>3 DEF EndIteration, End, vars, wire
<1> QED
  BY <1>0, <1>2, <1>3, FeedKept, DecodeKept DEF Next, Finished

\* Recovery throws no sound frame away: unless a chunk was dropped, a frame that
\* arrived intact is out, or every cell of it that was fed is in the buffer.
THEOREM NothingSoundLost == Spec => []SoundFramesKept
<1>1. Spec => []Kept
  BY StartsKept, StaysKept, PTL DEF Spec
<1>2. Kept => SoundFramesKept
  <2> SUFFICES ASSUME Kept, ~dropped, NEW f \in DOMAIN stream, Intact(f),
                      ~ \E i \in DOMAIN out : out[i] = f, NEW x \in Cells(f), ~(x > fed)
               PROVE  \E k \in DOMAIN buffer : buffer[k] = x
    BY DEF SoundFramesKept
  <2>1. /\ TypeOK /\ Len(buffer) \in Nat /\ fed \in Nat /\ Gone = fed - Len(buffer)
        /\ DOMAIN out = 1 .. Len(out) /\ DOMAIN buffer = 1 .. Len(buffer)
    BY BufferFacts DEF Kept, TypeOK, Gone
  <2>2. ~(Before(stream)[f] < Gone)
    BY <2>1 DEF Kept
  <2>3. Before(stream)[f] \in Nat /\ Before(stream)[f + 1] \in Nat /\ Gone \in Int
    BY <2>1, FrameFacts
  <2>4. x \in Nat /\ Before(stream)[f] < x
    BY <2>3 DEF Cells
  <2>5. x - Gone \in 1 .. Len(buffer)
    BY <2>1, <2>2, <2>3, <2>4
  <2>6. buffer[x - Gone] = Gone + (x - Gone)
    BY <2>5 DEF Kept
  <2> QED
    BY <2>1, <2>3, <2>4, <2>5, <2>6
<1> QED
  BY <1>1, <1>2, PTL

-----------------------------------------------------------------------------
(* An undamaged stream. *)

Undamaged == damaged = {} /\ odd = {} /\ ~dropped

\* What has come out of an undamaged stream: the first frames, up to where the
\* buffer begins, and between two chunks all that have arrived.
WholeSoFar ==
  /\ out = [i \in 1 .. Len(out) |-> i]
  /\ Len(out) + 1 \in 1 .. Len(stream) + 1
  /\ Gone = Before(stream)[Len(out) + 1]
  /\ state = "Ready"
  /\ phase # "decode" =>
       \A f \in DOMAIN stream : Before(stream)[f + 1] <= fed => f <= Len(out)

Whole == Kept /\ (Undamaged => WholeSoFar)

\* If the buffer holds as much as a prelude, it is that of the next frame.
LEMMA NextFrame ==
  ASSUME Whole, Undamaged, PRELUDE_SIZE <= Len(buffer)
  PROVE  /\ Len(out) + 1 \in DOMAIN stream /\ Len(out) \in Nat
         /\ Cells(Len(out) + 1) \cap damaged = {}
         /\ Len(out) + 1 \in AtFrame(PRELUDE_SIZE)
         /\ TotalLength = stream[Len(out) + 1]
         /\ ~NeedMore => Parsed = {Len(out) + 1}
<1> DEFINE g == Len(out) + 1
<1>1. /\ TypeOK /\ Kept /\ WholeSoFar /\ stream \in Streams /\ ~dropped
      /\ Len(buffer) \in Nat /\ fed \in Nat /\ fed <= Total(stream)
      /\ PRELUDE_SIZE \in Nat \ {0} /\ Len(stream) \in Nat
  BY BufferFacts, BeforeSteps, SizesAssumption DEF Whole, Kept, Undamaged, TypeOK
<1>2. g \in 1 .. Len(stream) + 1 /\ Gone = Before(stream)[g] /\ Gone = fed - Len(buffer)
  BY <1>1 DEF WholeSoFar, Gone
<1>3. g # Len(stream) + 1
  <2> SUFFICES ASSUME g = Len(stream) + 1 PROVE FALSE
    OBVIOUS
  <2>1. fed - Len(buffer) = Total(stream)
    BY <1>2 DEF Total
  <2>2. Total(stream) \in Nat
    BY <1>1, <1>2, BeforeSteps DEF Total
  <2> QED
    BY <1>1, <2>1, <2>2
<1>4. g \in DOMAIN stream /\ Len(out) \in Nat
  <2>1. out \in Seq(DOMAIN stream)
    BY <1>1 DEF TypeOK
  <2>2. DOMAIN stream = 1 .. Len(stream)
    BY <1>1, BeforeSteps
  <2>3. g \in 1 .. Len(stream)
    BY <1>1, <1>2, <1>3
  <2> QED
    BY <2>1, <2>2, <2>3
<1> HIDE DEF g
<1>5. /\ Before(stream)[g] \in Nat /\ stream[g] \in Nat /\ PRELUDE_SIZE < stream[g]
      /\ PRELUDE_SIZE \in Nat /\ PRELUDE_SIZE <= stream[g]
  <2>1. Before(stream)[g] \in Nat /\ stream[g] \in Nat /\ PRELUDE_SIZE < stream[g]
    BY <1>1, <1>4, FrameFacts
  <2> QED
    BY <1>1, <2>1
<1>6. Cells(g) \cap damaged = {} /\ g \notin odd
  BY DEF Undamaged
<1>7. g \in AtFrame(PRELUDE_SIZE)
  BY <1>1, <1>2, <1>4, <1>5, <1>6, HeadIsFrame
<1>8. TotalLength = stream[g] /\ (~NeedMore => stream[g] \in PRELUDE_SIZE .. Len(buffer))
  BY <1>1, <1>7, PreludeTells
<1>9. ASSUME ~NeedMore
      PROVE  Parsed = {g}
  <2>1. g \in AtFrame(stream[g])
    <3>1. stream[g] <= Len(buffer) /\ stream[g] <= stream[g]
      BY <1>1, <1>5, <1>8, <1>9
    <3> QED
      BY <1>1, <1>2, <1>4, <1>5, <1>6, <3>1, HeadIsFrame
  <2>2. \A f \in AtFrame(stream[g]) : f = g
    <3>1. stream[g] \in Nat \ {0}
      BY <1>1, <1>5
    <3> QED
      BY <1>1, <1>7, <3>1, OneFrame
  <2>3. ~PreludeError
    BY <1>7 DEF PreludeError, SoundPrelude
  <2>4. Parsed = AtFrame(stream[g]) \ odd
    BY <1>8, <1>9, <2>3 DEF Parsed
  <2> QED
    BY <1>6, <2>1, <2>2, <2>4
<1> QED
  BY <1>4, <1>6, <1>7, <1>8, <1>9 DEF g

\* Nothing in an undamaged stream is an error.
LEMMA NoError ==
  ASSUME Whole, Undamaged
  PROVE  ~PreludeError /\ ~DataError
<1>1. CASE NeedMore
  BY <1>1 DEF PreludeError, DataError
<1>2. CASE ~NeedMore
  <2>1. PRELUDE_SIZE <= Len(buffer)
    BY <1>2, SizesAssumption, BufferFacts DEF NeedMore, Whole, Kept
  <2>2. Len(out) + 1 \in AtFrame(PRELUDE_SIZE) /\ Parsed = {Len(out) + 1}
    BY <1>2, <2>1, NextFrame
  <2> QED
    BY <2>2 DEF PreludeError, DataError, SoundPrelude
<1> QED
  BY <1>1, <1>2

\* A chunk moves nothing out of the buffer.
LEMMA FeedWhole ==
  ASSUME Whole, Kept', NEW n \in Chunks, Feed(n)
  PROVE  Whole'
<1>0. TypeOK /\ Len(buffer) \in Nat /\ fed \in Nat
  BY BufferFacts DEF Whole, Kept
<1>1. /\ n \in Nat \ {0} /\ fed + n <= Total(stream) /\ fed' = fed + n
      /\ phase' = "decode" /\ UNCHANGED <<stream, damaged, odd, out>>
  BY ChunksAssumption DEF Feed, wire
<1>2. SUFFICES ASSUME Undamaged' PROVE WholeSoFar'
  BY DEF Whole
<1>3. /\ buffer' = buffer \o [k \in 1 .. n |-> fed + k] /\ Undamaged
      /\ state' = IF state = "Recovering" THEN "Ready" ELSE state
  BY <1>1, <1>2 DEF Feed, Undamaged
<1>4. Len(buffer') = Len(buffer) + n
  BY <1>0, <1>1, <1>3, FeedFacts
<1>5. Gone' = Gone
  BY <1>0, <1>1, <1>4 DEF Gone
<1> QED
  BY <1>1, <1>3, <1>5 DEF Whole, WholeSoFar

\* The next frame is the one that comes out.
LEMMA DecodeWhole ==
  ASSUME Whole, Kept', DecodeFrame
  PROVE  Whole'
<1>0. /\ TypeOK /\ TypeOK' /\ Len(buffer) \in Nat /\ fed \in Nat
      /\ buffer \in Seq(1 .. fed) /\ out \in Seq(DOMAIN stream)
  BY BufferFacts DEF Whole, Kept, TypeOK
<1>1. PICK f \in Parsed : out' = Append(out, f) /\ Advance(stream[f])
  BY DEF DecodeFrame
<1>2. phase = "decode" /\ state = "Ready" /\ UNCHANGED <<stream, damaged, odd, fed, state, phase, dropped>>
  BY DEF DecodeFrame, Decoding, wire
<1>3. SUFFICES ASSUME Undamaged' PROVE WholeSoFar'
  BY DEF Whole
<1>4. Undamaged /\ WholeSoFar
  BY <1>2, <1>3 DEF Whole, Undamaged
<1>5. ~NeedMore /\ PRELUDE_SIZE <= Len(buffer)
  <2>1. ~NeedMore
    BY <1>1 DEF Parsed
  <2> QED
    BY <1>0, <2>1, SizesAssumption DEF NeedMore
<1>6. f = Len(out) + 1 /\ f \in DOMAIN stream /\ Len(out) \in Nat
  BY <1>1, <1>4, <1>5, NextFrame
<1>7. Len(out') = Len(out) + 1 /\ out' = [i \in 1 .. Len(out') |-> i]
  <2>1. /\ out' \in Seq(DOMAIN stream) /\ Len(out') = Len(out) + 1
        /\ out'[Len(out) + 1] = f /\ \A i \in 1 .. Len(out) : out'[i] = out[i]
    BY <1>0, <1>1, <1>6
  <2>2. \A i \in 1 .. Len(out) : out[i] = i
    BY <1>4 DEF WholeSoFar
  <2>3. \A i \in 1 .. Len(out') : i \in 1 .. Len(out) \/ i = Len(out) + 1
    BY <1>6, <2>1
  <2>4. \A i \in 1 .. Len(out') : out'[i] = i
    BY <1>6, <2>1, <2>2, <2>3
  <2> QED
    BY <2>1, <2>4
<1>8. /\ Before(stream)[f] \in Nat /\ stream[f] \in Nat /\ stream[f] \in 0 .. Len(buffer)
      /\ Before(stream)[f + 1] = Before(stream)[f] + stream[f]
  BY <1>0, <1>1, <1>6, FrameFacts, ParsedIsFrame
<1>9. Gone' = Before(stream)[f + 1]
  <2>1. Len(buffer') = Len(buffer) - stream[f]
    BY <1>0, <1>1, <1>8, AdvanceFacts
  <2>2. fed - Len(buffer) = Before(stream)[f]
    BY <1>4, <1>6 DEF WholeSoFar, Gone
  <2> QED
    BY <1>0, <1>2, <1>8, <2>1, <2>2 DEF Gone
<1>10. Len(out') + 1 \in 1 .. Len(stream) + 1
  <2>1. Len(stream) \in Nat /\ DOMAIN stream = 1 .. Len(stream)
    BY <1>0, BeforeSteps DEF TypeOK
  <2> QED
    BY ONLY <1>6, <1>7, <2>1
<1> QED
  BY <1>2, <1>6, <1>7, <1>9, <1>10 DEF WholeSoFar

\* When the iterator wants more, the next frame has not arrived.
LEMMA EndWhole ==
  ASSUME Whole, Kept', EndIteration
  PROVE  Whole'
<1>0. /\ TypeOK /\ Len(buffer) \in Nat /\ fed \in Nat /\ PRELUDE_SIZE \in Nat
      /\ stream \in Streams
  BY BufferFacts, SizesAssumption DEF Whole, Kept, TypeOK
<1>1. /\ UNCHANGED <<stream, damaged, odd, fed, buffer, state, out, dropped>>
      /\ state # "Ready" \/ NeedMore
  BY DEF EndIteration, wire
<1>2. SUFFICES ASSUME Undamaged' PROVE WholeSoFar'
  BY DEF Whole
<1>3. Undamaged /\ WholeSoFar /\ NeedMore
  BY <1>1, <1>2 DEF Whole, Undamaged, WholeSoFar
<1> DEFINE g == Len(out) + 1
<1>4. ASSUME NEW f \in DOMAIN stream, Before(stream)[f + 1] <= fed, ~(f <= Len(out))
      PROVE  FALSE
  <2>1. /\ f \in Nat /\ Before(stream)[f + 1] \in Nat /\ f \in 1 .. Len(stream)
        /\ Len(stream) \in Nat /\ Len(out) \in Nat
    <3>1. out \in Seq(DOMAIN stream)
      BY <1>0 DEF TypeOK
    <3> QED
      BY <1>0, <1>4, <3>1, FrameFacts, BeforeSteps
  <2>2. g \in 1 .. Len(stream)
    BY <1>4, <2>1
  <2>3. g \in DOMAIN stream
    BY <1>0, <2>2, BeforeSteps
  <2>4. /\ Before(stream)[g] \in Nat /\ stream[g] \in Nat /\ PRELUDE_SIZE < stream[g]
        /\ Before(stream)[g + 1] \in Nat
        /\ Before(stream)[g + 1] = Before(stream)[g] + stream[g]
    BY <1>0, <2>3, FrameFacts
  <2>5. Before(stream)[g + 1] <= Before(stream)[f + 1]
    <3>1. CASE g = f
      BY <2>1, <3>1
    <3>2. CASE g # f
      <4>1. /\ g + 1 \in 1 .. Len(stream) + 1 /\ f + 1 \in 1 .. Len(stream) + 1
            /\ g + 1 < f + 1
        BY <1>4, <2>1, <3>2
      <4>2. Before(stream)[g + 1] < Before(stream)[f + 1]
        BY <1>0, <4>1, BeforeGrows
      <4> QED
        BY <2>1, <2>4, <4>2
    <3> QED
      BY <3>1, <3>2
  <2>6. fed - Len(buffer) = Before(stream)[g]
    BY <1>3 DEF WholeSoFar, Gone
  <2> HIDE DEF g
  <2>7. stream[g] <= Len(buffer)
    <3>1. Before(stream)[g] + stream[g] <= Before(stream)[f + 1] /\ Before(stream)[f + 1] <= fed
      BY ONLY <1>4, <2>4, <2>5
    <3>2. Before(stream)[g] + stream[g] <= fed
      BY ONLY <1>0, <2>1, <2>4, <3>1
    <3> QED
      BY ONLY <1>0, <2>4, <2>6, <3>2
  <2>8. PRELUDE_SIZE <= Len(buffer)
    BY <1>0, <2>4, <2>7
  <2>9. TotalLength = stream[g]
    BY <1>3, <2>8, NextFrame DEF g
  <2>10. Len(buffer) < stream[g]
    BY <1>3, <2>8, <2>9 DEF NeedMore
  <2> QED
    BY <1>0, <2>4, <2>7, <2>10
<1> QED
  BY <1>1, <1>3, <1>4 DEF WholeSoFar, Gone

LEMMA StartsWhole == Init => Whole
<1> SUFFICES ASSUME Init PROVE Whole
  OBVIOUS
<1>1. TypeOK /\ Kept /\ stream \in Streams
  BY StartsTyped, StartsKept DEF TypeOK
<1>2. fed = 0 /\ Len(buffer) = 0 /\ Len(out) = 0 /\ out = <<>> /\ state = "Ready"
  BY DEF Init
<1>3. Before(stream)[1] = 0 /\ 1 \in 1 .. Len(stream) + 1
  BY <1>1, BeforeSteps
<1>4. out = [i \in 1 .. Len(out) |-> i]
  BY <1>2
<1>5. ASSUME NEW f \in DOMAIN stream, Before(stream)[f + 1] <= 0
      PROVE  FALSE
  BY <1>1, <1>5, FrameFacts, SizesAssumption
<1>6. Gone = 0
  BY <1>2 DEF Gone
<1> QED
  BY <1>1, <1>2, <1>3, <1>4, <1>5, <1>6 DEF Whole, WholeSoFar

LEMMA StaysWhole == Whole /\ [Next]_vars => Whole'
<1> SUFFICES ASSUME Whole, [Next]_vars PROVE Whole'
  OBVIOUS
<1>0. Kept'
  BY StaysKept DEF Whole
<1>1. CASE DecodeError
  <2>1. ~Undamaged
    BY <1>1, NoError DEF DecodeError
  <2>2. ~Undamaged'
    BY <1>1, <2>1 DEF DecodeError, Undamaged, wire
  <2> QED
    BY <1>0, <2>2 DEF Whole
<1>2. CASE End
  <2>1. /\ UNCHANGED <<stream, damaged, odd, fed, buffer, state, out, dropped>>
        /\ phase # "decode"
    BY <1>2 DEF End, wire
  <2> QED
    BY <1>0, <2>1 DEF Whole, WholeSoFar, Undamaged, Gone
<1>3. CASE UNCHANGED vars
  BY <1>0, <1>3 DEF vars, wire, Whole, WholeSoFar, Undamaged, Gone
<1> QED
  BY <1>0, <1>1, <1>2, <1>3, FeedWhole, DecodeWhole, EndWhole DEF Next, Finished

\* An undamaged stream whose chunks fit comes out whole, however it is cut: each
\* frame once, in order, as soon as its last cell has been fed.
THEOREM IntactReadWhole == Spec => []IntactStreamRead
<1>1. Spec => []Whole
  BY StartsWhole, StaysWhole, PTL DEF Spec
<1>2. Whole => IntactStreamRead
  <2> SUFFICES ASSUME Whole, Undamaged
               PROVE  /\ out = [f \in DOMAIN out |-> f]
                      /\ phase # "decode" =>
                           \A f \in DOMAIN stream : Before(stream)[f + 1] <= fed => f <= Len(out)
    BY DEF IntactStreamRead, Undamaged
  <2>1. DOMAIN out = 1 .. Len(out)
    BY DEF Whole, Kept, TypeOK
  <2> QED
    BY <2>1 DEF Whole, WholeSoFar
<1> QED
  BY <1>1, <1>2, PTL

-----------------------------------------------------------------------------
(* StreamContext: sequences whose elements have no type of their own. *)

IsList(s) == s \in Seq({s[i] : i \in DOMAIN s})

\* s2 is s with x behind it.
Longer(s, x, s2) ==
  /\ Len(s2) = Len(s) + 1 /\ DOMAIN s2 = 1 .. Len(s2)
  /\ \A i \in 1 .. Len(s) : s2[i] = s[i]
  /\ s2[Len(s) + 1] = x

LEMMA ListLength ==
  ASSUME NEW s, IsList(s)
  PROVE  Len(s) \in Nat /\ DOMAIN s = 1 .. Len(s)
BY DEF IsList

LEMMA EmptyList == IsList(<<>>) /\ Len(<<>>) = 0
BY DEF IsList

LEMMA OverSet ==
  ASSUME NEW X, NEW s, s \in Seq(X)
  PROVE  IsList(s)
<1>1. s \in [1 .. Len(s) -> X] /\ Len(s) \in Nat /\ DOMAIN s = 1 .. Len(s)
  OBVIOUS
<1>2. s \in [1 .. Len(s) -> {s[i] : i \in DOMAIN s}]
  BY <1>1
<1>3. s \in Seq({s[i] : i \in DOMAIN s})
  BY ONLY <1>1, <1>2, SeqDef
<1> QED
  BY <1>3 DEF IsList

LEMMA LongerList ==
  ASSUME NEW s, IsList(s), NEW x
  PROVE  IsList(Append(s, x)) /\ Longer(s, x, Append(s, x))
<1>1. PICK X : X = {s[i] : i \in DOMAIN s}
  OBVIOUS
<1>2. s \in Seq(X \cup {x}) /\ x \in X \cup {x}
  BY <1>1 DEF IsList
<1>3. Append(s, x) \in Seq(X \cup {x})
  BY ONLY <1>2
<1>4. IsList(Append(s, x))
  BY ONLY <1>3, OverSet
<1>5. Longer(s, x, Append(s, x))
  BY ONLY <1>2 DEF Longer
<1> QED
  BY <1>4, <1>5

\* t is s with x at j.
Replaced(s, j, x, t) ==
  /\ IsList(t) /\ Len(t) = Len(s) /\ t[j] = x
  /\ \A i \in 1 .. Len(s) : i # j => t[i] = s[i]

LEMMA ChangedList ==
  ASSUME NEW s, IsList(s), NEW j \in 1 .. Len(s), NEW x, NEW t, t = [s EXCEPT ![j] = x]
  PROVE  Replaced(s, j, x, t)
<1>1. PICK X : X = {s[i] : i \in DOMAIN s}
  OBVIOUS
<1>2. s \in Seq(X \cup {x})
  BY <1>1 DEF IsList
<1>3. DOMAIN s = 1 .. Len(s) /\ Len(s) \in Nat
  BY <1>2
<1>4. t \in Seq(X \cup {x}) /\ Len(t) = Len(s)
  BY <1>2, <1>3, ExceptSeq
<1>5. IsList(t)
  BY ONLY <1>4, OverSet
<1> QED
  BY <1>3, <1>4, <1>5 DEF Replaced

LEMMA ShorterList ==
  ASSUME NEW s, IsList(s), s # <<>>
  PROVE  /\ IsList(Tail(s)) /\ Len(Tail(s)) = Len(s) - 1 /\ Len(s) > 0
         /\ Head(s) = s[1]
         /\ \A i \in 1 .. Len(s) - 1 : Tail(s)[i] = s[i + 1]
<1>1. PICK X : X = {s[i] : i \in DOMAIN s}
  OBVIOUS
<1>2. s \in Seq(X)
  BY <1>1 DEF IsList
<1>3. Tail(s) \in Seq(X)
  BY ONLY <1>2, s # <<>>
<1>4. IsList(Tail(s))
  BY ONLY <1>3, OverSet
<1> QED
  BY <1>2, <1>4

-----------------------------------------------------------------------------
(* What is on its way to the client, and what the client sees of it. *)

BlockFields == {"kind", "open", "deltas", "content", "signed"}

\* A view of the stream, as a client has it.
BlockOK(b) ==
  /\ DOMAIN b = BlockFields
  /\ b.kind \in AllKinds /\ b.open \in BOOLEAN /\ b.deltas \in Nat /\ b.signed \in BOOLEAN
ViewOK(e) ==
  /\ DOMAIN e = {"phase", "blocks", "reason"}
  /\ IsList(e.blocks) /\ \A i \in 1 .. Len(e.blocks) : BlockOK(e.blocks[i])

\* A block that may be stopped as it is.
Signed(b) == b.kind = "thinking" /\ b.content # <<>> => b.signed

\* The event v is one that a client with the view e may rely on to come next.
Legal(e, v) ==
  \/ v.type = "message_start" /\ e.phase = "none"
  \/ v.type = "content_block_start" /\ e.phase = "content" /\ v.kind \in AllKinds
  \/ /\ v.type = "content_block_delta" /\ e.phase = "content"
     /\ v.index \in 1 .. Len(e.blocks)
     /\ e.blocks[v.index].open /\ e.blocks[v.index].kind # "redacted_thinking"
  \/ /\ v.type = "content_block_stop" /\ e.phase = "content"
     /\ v.index \in 1 .. Len(e.blocks)
     /\ e.blocks[v.index].open /\ Signed(e.blocks[v.index])
  \/ /\ v.type = "message_delta" /\ e.phase = "content"
     /\ \A i \in 1 .. Len(e.blocks) : ~ e.blocks[i].open
  \/ v.type = "message_stop" /\ e.phase = "summed"

\* A client with the view k that reads the events of events, each of them legal, has
\* the views v on the way and e at the end.
Reading(k, events, e, v) ==
  /\ v[0] = k /\ v[Len(events)] = e
  /\ \A j \in 1 .. Len(events) : Legal(v[j - 1], events[j]) /\ v[j] = Received(v[j - 1], events[j])
Reads(k, events, e) == IsList(events) /\ \E v : Reading(k, events, e, v)

LEMMA ReadNothing == ASSUME NEW k PROVE Reads(k, <<>>, k)
<1>1. Reading(k, <<>>, k, [j \in 0 .. 0 |-> k])
  BY EmptyList DEF Reading
<1> QED
  BY <1>1, EmptyList DEF Reads

LEMMA ReadOneMore ==
  ASSUME NEW k, NEW events, NEW e, Reads(k, events, e), NEW x, Legal(e, x)
  PROVE  Reads(k, Append(events, x), Received(e, x))
<1>1. PICK v : Reading(k, events, e, v)
  BY DEF Reads
<1>2. IsList(events) /\ Len(events) \in Nat
  BY ListLength DEF Reads
<1>3. PICK o : o = Append(events, x)
  OBVIOUS
<1>4. IsList(o) /\ Longer(events, x, o)
  BY ONLY <1>2, <1>3, LongerList
<1> DEFINE w == [j \in 0 .. Len(o) |-> IF j <= Len(events) THEN v[j] ELSE Received(e, x)]
<1>5. Len(o) = Len(events) + 1 /\ \A j \in 0 .. Len(events) : w[j] = v[j]
  BY <1>2, <1>4 DEF Longer
<1>6. w[Len(o)] = Received(e, x)
  BY <1>2, <1>5
<1> HIDE DEF w
<1>7. ASSUME NEW j \in 1 .. Len(o)
      PROVE  Legal(w[j - 1], o[j]) /\ w[j] = Received(w[j - 1], o[j])
  <2>1. CASE j <= Len(events)
    <3>1. j \in 1 .. Len(events) /\ j \in 0 .. Len(events) /\ j - 1 \in 0 .. Len(events)
      BY <2>1, <1>2, <1>5
    <3>2. o[j] = events[j] /\ w[j] = v[j] /\ w[j - 1] = v[j - 1]
      BY <3>1, <1>4, <1>5 DEF Longer
    <3> QED
      BY ONLY <3>1, <3>2, <1>1 DEF Reading
  <2>2. CASE j > Len(events)
    <3>1. j = Len(o) /\ j - 1 = Len(events) /\ j - 1 \in 0 .. Len(events) /\ j = Len(events) + 1
      BY <2>2, <1>2, <1>5
    <3>2. o[j] = x /\ w[j] = Received(e, x) /\ w[j - 1] = v[Len(events)]
      BY <3>1, <1>4, <1>5, <1>6 DEF Longer
    <3>3. v[Len(events)] = e
      BY <1>1 DEF Reading
    <3> QED
      BY ONLY <3>2, <3>3, Legal(e, x)
  <2> QED
    BY <2>1, <2>2, <1>2, <1>5
<1>8. w[0] = k
  BY <1>1, <1>2, <1>5 DEF Reading
<1>9. Reading(k, o, Received(e, x), w)
  BY <1>6, <1>7, <1>8 DEF Reading
<1> QED
  BY <1>3, <1>4, <1>9 DEF Reads

LEMMA ReadFirst ==
  ASSUME NEW k, NEW events, NEW e, Reads(k, events, e), events # <<>>
  PROVE  Legal(k, Head(events)) /\ Reads(Received(k, Head(events)), Tail(events), e)
<1>1. PICK v : Reading(k, events, e, v)
  BY DEF Reads
<1>2. IsList(events) /\ Len(events) \in Nat
  BY ListLength DEF Reads
<1>3. PICK o, x : o = Tail(events) /\ x = Head(events)
  OBVIOUS
<1>4. /\ IsList(o) /\ Len(o) = Len(events) - 1 /\ Len(events) > 0 /\ x = events[1]
      /\ \A i \in 1 .. Len(events) - 1 : o[i] = events[i + 1]
  BY ONLY <1>2, <1>3, events # <<>>, ShorterList
<1>5. Legal(k, x) /\ v[1] = Received(k, x)
  <2>1. 1 \in 1 .. Len(events) /\ 1 - 1 = 0
    BY <1>2, <1>4
  <2> QED
    BY <2>1, <1>1, <1>4 DEF Reading
<1> DEFINE w == [j \in 0 .. Len(o) |-> v[j + 1]]
<1>6. w[0] = v[1] /\ w[Len(o)] = v[Len(events)]
  BY <1>2, <1>4
<1>7. ASSUME NEW j \in 1 .. Len(o)
      PROVE  Legal(w[j - 1], o[j]) /\ w[j] = Received(w[j - 1], o[j])
  <2>1. j \in 0 .. Len(o) /\ j - 1 \in 0 .. Len(o) /\ j + 1 \in 1 .. Len(events) /\ j \in 1 .. Len(events) - 1
        /\ (j - 1) + 1 = j /\ (j + 1) - 1 = j
    BY <1>2, <1>4
  <2>2. w[j] = v[j + 1] /\ w[j - 1] = v[j] /\ o[j] = events[j + 1]
    BY <2>1, <1>4
  <2>3. Legal(v[(j + 1) - 1], events[j + 1]) /\ v[j + 1] = Received(v[(j + 1) - 1], events[j + 1])
    BY <2>1, <1>1 DEF Reading
  <2> QED
    BY ONLY <2>1, <2>2, <2>3
<1> HIDE DEF w
<1>8. Reading(Received(k, x), o, e, w)
  BY <1>1, <1>5, <1>6, <1>7 DEF Reading
<1> QED
  BY <1>3, <1>4, <1>5, <1>8 DEF Reads

\* What the client sees change when a block is started, extended or stopped.
Began(e, e2, kind) ==
  /\ ViewOK(e2) /\ e2.phase = "content" /\ Len(e2.blocks) = Len(e.blocks) + 1
  /\ \A i \in 1 .. Len(e.blocks) : e2.blocks[i] = e.blocks[i]
  /\ e2.blocks[Len(e.blocks) + 1] = [kind |-> kind, open |-> TRUE, deltas |-> 0,
                                     content |-> <<>>, signed |-> FALSE]
Grew(e, e2, i, kind, content) ==
  /\ ViewOK(e2) /\ e2.phase = "content" /\ Len(e2.blocks) = Len(e.blocks)
  /\ \A j \in 1 .. Len(e.blocks) : j # i => e2.blocks[j] = e.blocks[j]
  /\ e2.blocks[i] = [e.blocks[i] EXCEPT !.deltas = @ + 1, !.content = @ \o content,
                                        !.signed = @ \/ kind = "signature_delta"]
Closed(e, e2, i) ==
  /\ ViewOK(e2) /\ e2.phase = "content" /\ Len(e2.blocks) = Len(e.blocks)
  /\ \A j \in 1 .. Len(e.blocks) : j # i => e2.blocks[j] = e.blocks[j]
  /\ e2.blocks[i] = [e.blocks[i] EXCEPT !.open = FALSE]

LEMMA ViewBegan ==
  ASSUME NEW e, ViewOK(e), NEW x, x.type = "content_block_start", Legal(e, x)
  PROVE  Began(e, Received(e, x), x.kind)
<1>1. e.phase = "content" /\ x.kind \in AllKinds
  BY DEF Legal
<1>2. PICK b : b = [kind |-> x.kind, open |-> TRUE, deltas |-> 0, content |-> <<>>, signed |-> FALSE]
  OBVIOUS
<1>3. PICK bs : bs = Append(e.blocks, b)
  OBVIOUS
<1>4. IsList(e.blocks) /\ Len(e.blocks) \in Nat
  BY ListLength DEF ViewOK
<1>5. IsList(bs) /\ Longer(e.blocks, b, bs)
  BY ONLY <1>3, <1>4, LongerList
<1>6. Received(e, x) = [e EXCEPT !.blocks = bs]
  BY <1>2, <1>3 DEF Received
<1>7. PICK e2 : e2 = [e EXCEPT !.blocks = bs]
  OBVIOUS
<1>8. e2.blocks = bs /\ e2.phase = "content" /\ DOMAIN e2 = {"phase", "blocks", "reason"}
  BY <1>1, <1>7 DEF ViewOK
<1>9. BlockOK(b)
  BY <1>1, <1>2 DEF BlockOK, BlockFields
<1>10. \A i \in 1 .. Len(bs) : i \in 1 .. Len(e.blocks) \/ i = Len(e.blocks) + 1
  BY <1>4, <1>5 DEF Longer
<1>11. ViewOK(e2)
  BY <1>5, <1>8, <1>9, <1>10 DEF ViewOK, Longer
<1> QED
  BY <1>2, <1>5, <1>6, <1>7, <1>8, <1>11 DEF Began, Longer

LEMMA ViewGrew ==
  ASSUME NEW e, ViewOK(e), NEW x, x.type = "content_block_delta", Legal(e, x)
  PROVE  Grew(e, Received(e, x), x.index, x.kind, x.content)
<1>1. e.phase = "content" /\ x.index \in 1 .. Len(e.blocks)
  BY DEF Legal
<1>2. PICK i, b : /\ i = x.index
                  /\ b = [e.blocks[i] EXCEPT !.deltas = @ + 1, !.content = @ \o x.content,
                                             !.signed = @ \/ x.kind = "signature_delta"]
  OBVIOUS
<1>3. PICK bs : bs = [e.blocks EXCEPT ![i] = b]
  OBVIOUS
<1>4. IsList(e.blocks) /\ Len(e.blocks) \in Nat /\ DOMAIN e.blocks = 1 .. Len(e.blocks)
  BY ListLength DEF ViewOK
<1>5. /\ IsList(bs) /\ Len(bs) = Len(e.blocks) /\ bs[i] = b
      /\ \A j \in 1 .. Len(e.blocks) : j # i => bs[j] = e.blocks[j]
  <2>1. PICK s : s = e.blocks
    OBVIOUS
  <2>2. IsList(s) /\ i \in 1 .. Len(s) /\ bs = [s EXCEPT ![i] = b]
    BY ONLY <1>1, <1>2, <1>3, <1>4, <2>1
  <2>3. Replaced(s, i, b, bs)
    BY ONLY <2>2, ChangedList, Zenon
  <2> QED
    BY ONLY <2>1, <2>3 DEF Replaced
<1>6. DOMAIN e = {"phase", "blocks", "reason"} /\ BlockOK(e.blocks[i])
  BY <1>1, <1>2 DEF ViewOK
<1>7. Received(e, x) = [e EXCEPT !.blocks[x.index].deltas = @ + 1,
                                 !.blocks[x.index].content = @ \o x.content,
                                 !.blocks[x.index].signed = @ \/ x.kind = "signature_delta"]
  BY DEF Received
<1>8. Received(e, x) = [e EXCEPT !.blocks = bs]
  <2>1. PICK s, a : s = e.blocks /\ a = e.blocks[i]
    OBVIOUS
  <2>2. b = [a EXCEPT !.deltas = @ + 1, !.content = @ \o x.content,
                      !.signed = @ \/ x.kind = "signature_delta"]
    BY <1>2, <2>1
  <2>3. bs = [s EXCEPT ![i].deltas = @ + 1, ![i].content = @ \o x.content,
                       ![i].signed = @ \/ x.kind = "signature_delta"]
    <3>1. DOMAIN a = BlockFields /\ i \in DOMAIN s /\ a = s[i] /\ bs = [s EXCEPT ![i] = b]
      BY <1>1, <1>2, <1>3, <1>4, <1>6, <2>1 DEF BlockOK
    <3> QED
      BY ONLY <3>1, <2>2 DEF BlockFields
  <2>4. Received(e, x) = [e EXCEPT !.blocks = [s EXCEPT ![i].deltas = @ + 1,
                            ![i].content = @ \o x.content,
                            ![i].signed = @ \/ x.kind = "signature_delta"]]
    BY ONLY <1>2, <1>6, <1>7, <2>1
  <2> QED
    BY ONLY <2>3, <2>4
<1>9. PICK e2 : e2 = [e EXCEPT !.blocks = bs]
  OBVIOUS
<1>10. e2.blocks = bs /\ e2.phase = "content" /\ DOMAIN e2 = {"phase", "blocks", "reason"}
  BY <1>1, <1>6, <1>9
<1>11. BlockOK(b)
  BY <1>2, <1>6 DEF BlockOK, BlockFields
<1>12. ViewOK(e2)
  BY <1>5, <1>10, <1>11 DEF ViewOK
<1> QED
  BY <1>2, <1>5, <1>8, <1>9, <1>10, <1>12 DEF Grew

LEMMA ViewClosed ==
  ASSUME NEW e, ViewOK(e), NEW x, x.type = "content_block_stop", Legal(e, x)
  PROVE  Closed(e, Received(e, x), x.index)
<1>1. e.phase = "content" /\ x.index \in 1 .. Len(e.blocks)
  BY DEF Legal
<1>2. PICK i, b : i = x.index /\ b = [e.blocks[i] EXCEPT !.open = FALSE]
  OBVIOUS
<1>3. PICK bs : bs = [e.blocks EXCEPT ![i] = b]
  OBVIOUS
<1>4. IsList(e.blocks) /\ Len(e.blocks) \in Nat /\ DOMAIN e.blocks = 1 .. Len(e.blocks)
  BY ListLength DEF ViewOK
<1>5. /\ IsList(bs) /\ Len(bs) = Len(e.blocks) /\ bs[i] = b
      /\ \A j \in 1 .. Len(e.blocks) : j # i => bs[j] = e.blocks[j]
  <2>1. PICK s : s = e.blocks
    OBVIOUS
  <2>2. IsList(s) /\ i \in 1 .. Len(s) /\ bs = [s EXCEPT ![i] = b]
    BY ONLY <1>1, <1>2, <1>3, <1>4, <2>1
  <2>3. Replaced(s, i, b, bs)
    BY ONLY <2>2, ChangedList, Zenon
  <2> QED
    BY ONLY <2>1, <2>3 DEF Replaced
<1>6. DOMAIN e = {"phase", "blocks", "reason"} /\ BlockOK(e.blocks[i])
  BY <1>1, <1>2 DEF ViewOK
<1>7. Received(e, x) = [e EXCEPT !.blocks[x.index].open = FALSE]
  BY DEF Received
<1>8. Received(e, x) = [e EXCEPT !.blocks = bs]
  BY <1>1, <1>2, <1>3, <1>4, <1>6, <1>7 DEF BlockOK, BlockFields
<1>9. PICK e2 : e2 = [e EXCEPT !.blocks = bs]
  OBVIOUS
<1>10. e2.blocks = bs /\ e2.phase = "content" /\ DOMAIN e2 = {"phase", "blocks", "reason"}
  BY <1>1, <1>6, <1>9
<1>11. BlockOK(b)
  BY <1>2, <1>6 DEF BlockOK, BlockFields
<1>12. ViewOK(e2)
  BY <1>5, <1>10, <1>11 DEF ViewOK
<1> QED
  BY <1>2, <1>5, <1>8, <1>9, <1>10, <1>12 DEF Closed

\* Every legal event leaves a view, and one in which no stopped thinking that has
\* content lacks its signature when there was none before.
ViewSigned(e) == \A i \in 1 .. Len(e.blocks) : ~ e.blocks[i].open => Signed(e.blocks[i])

LEMMA ViewKept ==
  ASSUME NEW e, ViewOK(e), NEW x, Legal(e, x), ViewSigned(e)
  PROVE  ViewOK(Received(e, x)) /\ ViewSigned(Received(e, x))
<1>1. CASE x.type = "content_block_start"
  <2>1. Began(e, Received(e, x), x.kind)
    BY <1>1, ViewBegan
  <2>2. PICK e2 : e2 = Received(e, x)
    OBVIOUS
  <2>3. Len(e.blocks) \in Nat /\ Len(e2.blocks) = Len(e.blocks) + 1
    BY <2>1, <2>2, ListLength DEF Began, ViewOK
  <2>4. \A i \in 1 .. Len(e2.blocks) : i \in 1 .. Len(e.blocks) \/ i = Len(e.blocks) + 1
    BY <2>3
  <2> QED
    BY <2>1, <2>2, <2>4 DEF Began, ViewSigned
<1>2. CASE x.type = "content_block_delta"
  <2>1. Grew(e, Received(e, x), x.index, x.kind, x.content)
    BY <1>2, ViewGrew
  <2>2. x.index \in 1 .. Len(e.blocks) /\ e.blocks[x.index].open /\ BlockOK(e.blocks[x.index])
    BY <1>2 DEF Legal, ViewOK
  <2>3. PICK e2 : e2 = Received(e, x)
    OBVIOUS
  <2>4. e2.blocks[x.index].open
    BY <2>1, <2>2, <2>3 DEF Grew, BlockOK, BlockFields
  <2> QED
    BY <2>1, <2>3, <2>4 DEF Grew, ViewSigned
<1>3. CASE x.type = "content_block_stop"
  <2>1. Closed(e, Received(e, x), x.index)
    BY <1>3, ViewClosed
  <2>2. x.index \in 1 .. Len(e.blocks) /\ Signed(e.blocks[x.index]) /\ BlockOK(e.blocks[x.index])
    BY <1>3 DEF Legal, ViewOK
  <2>3. PICK e2 : e2 = Received(e, x)
    OBVIOUS
  <2>4. Signed(e2.blocks[x.index])
    BY <2>1, <2>2, <2>3 DEF Closed, BlockOK, BlockFields, Signed
  <2> QED
    BY <2>1, <2>3, <2>4 DEF Closed, ViewSigned
<1>4. CASE x.type \in {"message_start", "message_delta", "message_stop"}
  <2>1. PICK e2 : e2 = Received(e, x)
    OBVIOUS
  <2>2. DOMAIN e2 = DOMAIN e /\ e2.blocks = e.blocks
    BY <1>4, <2>1 DEF Received, ViewOK
  <2> QED
    BY <2>1, <2>2 DEF ViewOK, ViewSigned
<1> QED
  BY <1>1, <1>2, <1>3, <1>4 DEF Legal

-----------------------------------------------------------------------------
(* What the functions of SseStateManager do to a context in midstream. *)

Fields == {"thinkingEnabled", "thinkingBuffer", "sniffBuffer", "inThinkingBlock",
           "thinkingExtracted", "stripNewline", "thinkingIndex", "textIndex", "signature",
           "toolIndices", "fence", "guard", "started", "deltaSent", "ended", "hasTool",
           "reason", "blocks", "out"}

\* The cells of a text, those of the code and of reasoning events among them.
TextCells == STRING \cup {"space", "t"}

\* c2 is c but for the fields of S.
Keeps(c, c2, S) == DOMAIN c2 = Fields /\ \A f \in Fields \ S : c2[f] = c[f]

\* What the context and the client at the end of the events know of a block.
SameBlock(b, d) == DOMAIN b = {"kind", "open"} /\ b.kind = d.kind /\ b.open = d.open

\* The message has begun and not ended; a client with the view k that reads what
\* is on its way will have the view e, and the context agrees with it.
Agrees(c, k, e) ==
  /\ DOMAIN c = Fields /\ c.started /\ ~ c.deltaSent /\ ~ c.ended /\ e.phase = "content"
  /\ ViewOK(e) /\ IsList(c.blocks) /\ Len(e.blocks) = Len(c.blocks)
  /\ \A i \in 1 .. Len(c.blocks) : SameBlock(c.blocks[i], e.blocks[i])
  /\ c.sniffBuffer \in Seq(TextCells)
  /\ Reads(k, c.out, e)

HasStarted(k, c, e, c2, e2, kind) ==
  /\ Keeps(c, c2, {"blocks", "out"}) /\ Longer(c.blocks, [kind |-> kind, open |-> TRUE], c2.blocks)
  /\ Agrees(c2, k, e2) /\ Began(e, e2, kind)
HasTold(k, c, e, c2, e2, i, kind, content) ==
  Keeps(c, c2, {"out"}) /\ Agrees(c2, k, e2) /\ Grew(e, e2, i, kind, content)
HasStopped(k, c, e, c2, e2, i) ==
  /\ Keeps(c, c2, {"blocks", "out"})
  /\ Replaced(c.blocks, i, [c.blocks[i] EXCEPT !.open = FALSE], c2.blocks)
  /\ Agrees(c2, k, e2) /\ Closed(e, e2, i)

LEMMA Starts ==
  ASSUME NEW k, NEW c, NEW e, Agrees(c, k, e), NEW kind \in AllKinds,
         NEW i, i = Len(c.blocks) + 1
  PROVE  \E e2 : HasStarted(k, c, e, StartedBlock(c, i, kind), e2, kind)
<1>1. PICK x, b : /\ x = [type |-> "content_block_start", index |-> i, kind |-> kind]
                  /\ b = [kind |-> kind, open |-> TRUE]
  OBVIOUS
<1>2. PICK e2, c2, bs : /\ e2 = Received(e, x) /\ bs = Append(c.blocks, b)
                        /\ c2 = [c EXCEPT !.blocks = bs, !.out = Append(c.out, x)]
  OBVIOUS
<1>3. DOMAIN c = Fields /\ IsList(c.blocks) /\ Len(c.blocks) \in Nat
      /\ DOMAIN c.blocks = 1 .. Len(c.blocks)
  BY ListLength DEF Agrees
<1>4. StartedBlock(c, i, kind) = c2
  <2>1. i \notin DOMAIN c.blocks
    BY <1>3
  <2> QED
    BY <1>1, <1>2, <1>3, <2>1 DEF StartedBlock, Emit, Fields
<1>5. ViewOK(e) /\ x.type = "content_block_start" /\ x.kind = kind /\ Legal(e, x)
  BY <1>1 DEF Agrees, Legal
<1>6. Began(e, e2, kind)
  <2>1. Began(e, Received(e, x), x.kind)
    BY ONLY <1>5, ViewBegan
  <2> QED
    BY <2>1, <1>2, <1>5
<1>7. Reads(k, Append(c.out, x), e2)
  <2>1. Reads(k, c.out, e)
    BY DEF Agrees
  <2>2. PICK o : o = c.out
    OBVIOUS
  <2>3. Reads(k, Append(o, x), Received(e, x))
    BY ONLY <2>1, <2>2, <1>5, ReadOneMore
  <2> QED
    BY <2>2, <2>3, <1>2
<1>8. IsList(bs) /\ Longer(c.blocks, b, bs)
  <2>1. PICK s : s = c.blocks
    OBVIOUS
  <2>2. IsList(Append(s, b)) /\ Longer(s, b, Append(s, b))
    BY ONLY <2>1, <1>3, LongerList
  <2> QED
    BY <2>1, <2>2, <1>2
<1>9. Keeps(c, c2, {"blocks", "out"}) /\ c2.blocks = bs /\ c2.out = Append(c.out, x)
  BY <1>2, <1>3 DEF Keeps, Fields
<1>10. /\ c2.started = c.started /\ c2.deltaSent = c.deltaSent /\ c2.ended = c.ended
       /\ c2.sniffBuffer = c.sniffBuffer /\ DOMAIN c2 = Fields
  BY <1>9 DEF Keeps, Fields
<1>11. Len(e2.blocks) = Len(bs) /\ \A j \in 1 .. Len(bs) : SameBlock(bs[j], e2.blocks[j])
  <2>1. Len(e.blocks) = Len(c.blocks) /\ \A j \in 1 .. Len(c.blocks) : SameBlock(c.blocks[j], e.blocks[j])
    BY DEF Agrees
  <2>2. Len(bs) = Len(c.blocks) + 1 /\ Len(e2.blocks) = Len(bs)
    BY <1>6, <1>8, <2>1 DEF Longer, Began
  <2>3. SameBlock(b, e2.blocks[Len(bs)])
    <3>1. e2.blocks[Len(bs)] = [kind |-> kind, open |-> TRUE, deltas |-> 0, content |-> <<>>,
                                signed |-> FALSE]
      BY <1>6, <2>1, <2>2 DEF Began
    <3> QED
      BY ONLY <1>1, <3>1 DEF SameBlock
  <2>4. \A j \in 1 .. Len(bs) : j \in 1 .. Len(c.blocks) \/ j = Len(bs)
    BY <1>3, <2>2
  <2> QED
    BY <1>6, <1>8, <2>1, <2>2, <2>3, <2>4 DEF Longer, Began
<1>12. Agrees(c2, k, e2)
  BY <1>6, <1>7, <1>8, <1>9, <1>10, <1>11 DEF Agrees, Began
<1> QED
  BY <1>1, <1>4, <1>6, <1>8, <1>9, <1>12 DEF HasStarted

LEMMA Tells ==
  ASSUME NEW k, NEW c, NEW e, Agrees(c, k, e), NEW i \in 1 .. Len(c.blocks),
         c.blocks[i].open, c.blocks[i].kind # "redacted_thinking", NEW kind, NEW content
  PROVE  \E e2 : HasTold(k, c, e, Emit(c, DeltaEvent(i, kind, content)), e2, i, kind, content)
<1>1. PICK x : x = DeltaEvent(i, kind, content)
  OBVIOUS
<1>2. x.type = "content_block_delta" /\ x.index = i /\ x.kind = kind /\ x.content = content
  BY <1>1 DEF DeltaEvent
<1>3. PICK e2, c2 : e2 = Received(e, x) /\ c2 = [c EXCEPT !.out = Append(c.out, x)]
  OBVIOUS
<1>4. DOMAIN c = Fields /\ Emit(c, DeltaEvent(i, kind, content)) = c2
  BY <1>1, <1>3 DEF Agrees, Emit, Fields
<1>5. ViewOK(e) /\ Legal(e, x)
  BY <1>2 DEF Agrees, SameBlock, Legal
<1>6. Grew(e, e2, i, kind, content)
  <2>1. Grew(e, Received(e, x), x.index, x.kind, x.content)
    BY ONLY <1>2, <1>5, ViewGrew
  <2> QED
    BY <2>1, <1>2, <1>3
<1>7. Reads(k, Append(c.out, x), e2)
  <2>1. Reads(k, c.out, e)
    BY DEF Agrees
  <2>2. PICK o : o = c.out
    OBVIOUS
  <2>3. Reads(k, Append(o, x), Received(e, x))
    BY ONLY <2>1, <2>2, <1>5, ReadOneMore
  <2> QED
    BY <2>2, <2>3, <1>3
<1>8. Keeps(c, c2, {"out"}) /\ c2.out = Append(c.out, x)
  BY <1>3, <1>4 DEF Keeps, Fields
<1>9. /\ c2.started = c.started /\ c2.deltaSent = c.deltaSent /\ c2.ended = c.ended
      /\ c2.sniffBuffer = c.sniffBuffer /\ DOMAIN c2 = Fields /\ c2.blocks = c.blocks
  BY <1>8 DEF Keeps, Fields
<1>10. \A j \in 1 .. Len(c.blocks) : SameBlock(c.blocks[j], e2.blocks[j])
  <2>1. Len(e.blocks) = Len(c.blocks) /\ \A j \in 1 .. Len(c.blocks) : SameBlock(c.blocks[j], e.blocks[j])
    BY DEF Agrees
  <2>2. e2.blocks[i].kind = e.blocks[i].kind /\ e2.blocks[i].open = e.blocks[i].open
    <3>1. BlockOK(e.blocks[i])
      BY <1>5, <2>1 DEF ViewOK
    <3> QED
      BY <1>6, <3>1 DEF Grew, BlockOK, BlockFields
  <2>3. SameBlock(c.blocks[i], e2.blocks[i])
    BY <2>1, <2>2 DEF SameBlock
  <2> QED
    BY <1>6, <2>1, <2>3 DEF Grew
<1>11. Agrees(c2, k, e2)
  BY <1>6, <1>7, <1>8, <1>9, <1>10 DEF Agrees, Grew
<1> QED
  BY <1>4, <1>6, <1>8, <1>11 DEF HasTold

LEMMA Stops ==
  ASSUME NEW k, NEW c, NEW e, Agrees(c, k, e), NEW i \in 1 .. Len(c.blocks),
         c.blocks[i].open, Signed(e.blocks[i])
  PROVE  \E e2 : HasStopped(k, c, e, ContentBlockStop(c, i), e2, i)
<1>1. PICK x, b : /\ x = [type |-> "content_block_stop", index |-> i]
                  /\ b = [c.blocks[i] EXCEPT !.open = FALSE]
  OBVIOUS
<1>2. PICK e2, c2, bs : /\ e2 = Received(e, x) /\ bs = [c.blocks EXCEPT ![i] = b]
                        /\ c2 = [c EXCEPT !.blocks = bs, !.out = Append(c.out, x)]
  OBVIOUS
<1>3. DOMAIN c = Fields /\ IsList(c.blocks) /\ Len(c.blocks) \in Nat
      /\ DOMAIN c.blocks = 1 .. Len(c.blocks)
  BY ListLength DEF Agrees
<1>4. ContentBlockStop(c, i) = c2
  BY <1>1, <1>2, <1>3 DEF ContentBlockStop, Emit, Fields
<1>5. ViewOK(e) /\ x.type = "content_block_stop" /\ x.index = i /\ Legal(e, x)
  BY <1>1 DEF Agrees, SameBlock, Legal
<1>6. Closed(e, e2, i)
  <2>1. Closed(e, Received(e, x), x.index)
    BY ONLY <1>5, ViewClosed
  <2> QED
    BY <2>1, <1>2, <1>5
<1>7. Reads(k, Append(c.out, x), e2)
  <2>1. Reads(k, c.out, e)
    BY DEF Agrees
  <2>2. PICK o : o = c.out
    OBVIOUS
  <2>3. Reads(k, Append(o, x), Received(e, x))
    BY ONLY <2>1, <2>2, <1>5, ReadOneMore
  <2> QED
    BY <2>2, <2>3, <1>2
<1>8. Replaced(c.blocks, i, b, bs)
  <2>1. PICK s : s = c.blocks
    OBVIOUS
  <2>2. IsList(s) /\ i \in 1 .. Len(s) /\ bs = [s EXCEPT ![i] = b]
    BY <2>1, <1>2, <1>3
  <2>3. Replaced(s, i, b, bs)
    BY ONLY <2>2, ChangedList, Zenon
  <2> QED
    BY <2>1, <2>3
<1>9. Keeps(c, c2, {"blocks", "out"}) /\ c2.blocks = bs /\ c2.out = Append(c.out, x)
  BY <1>2, <1>3 DEF Keeps, Fields
<1>10. /\ c2.started = c.started /\ c2.deltaSent = c.deltaSent /\ c2.ended = c.ended
       /\ c2.sniffBuffer = c.sniffBuffer /\ DOMAIN c2 = Fields
  BY <1>9 DEF Keeps, Fields
<1>11. Len(e2.blocks) = Len(bs) /\ \A j \in 1 .. Len(bs) : SameBlock(bs[j], e2.blocks[j])
  <2>1. Len(e.blocks) = Len(c.blocks) /\ \A j \in 1 .. Len(c.blocks) : SameBlock(c.blocks[j], e.blocks[j])
    BY DEF Agrees
  <2>2. BlockOK(e.blocks[i])
    BY <1>5, <2>1 DEF ViewOK
  <2>3. SameBlock(b, e2.blocks[i])
    BY <1>1, <1>6, <2>1, <2>2 DEF SameBlock, Closed, BlockOK, BlockFields
  <2> QED
    BY <1>6, <1>8, <2>1, <2>3 DEF Replaced, Closed
<1>12. Agrees(c2, k, e2)
  <2>1. IsList(bs)
    BY <1>8 DEF Replaced
  <2> QED
    BY <1>6, <1>7, <1>9, <1>10, <1>11, <2>1 DEF Agrees, Closed
<1> QED
  BY <1>1, <1>4, <1>6, <1>8, <1>9, <1>12 DEF HasStopped

-----------------------------------------------------------------------------
(* What comes to the client as text leaves the thinking alone.  Whatever the *)
(* state of the text, each of its functions leads from a context that agrees *)
(* with the client to one that does.                                         *)

SameThinking(c, c2) ==
  /\ c2.thinkingEnabled = c.thinkingEnabled /\ c2.thinkingBuffer = c.thinkingBuffer
  /\ c2.inThinkingBlock = c.inThinkingBlock /\ c2.thinkingExtracted = c.thinkingExtracted
  /\ c2.stripNewline = c.stripNewline /\ c2.thinkingIndex = c.thinkingIndex
  /\ c2.toolIndices = c.toolIndices

\* No block of thinking is new or changed, none of the others is one afterwards.
Calm(c, e, c2, e2) ==
  /\ SameThinking(c, c2) /\ Len(c.blocks) <= Len(c2.blocks)
  /\ \A i \in 1 .. Len(c.blocks) : c2.blocks[i].kind = c.blocks[i].kind
  /\ \A i \in 1 .. Len(c2.blocks) :
       c2.blocks[i].kind = "thinking" =>
         /\ i \in 1 .. Len(c.blocks)
         /\ c2.blocks[i] = c.blocks[i] /\ e2.blocks[i] = e.blocks[i]

Goes(k, c, e, c2) == \E e2 : Agrees(c2, k, e2) /\ Calm(c, e, c2, e2)
Fine(c, c2) == \A k, e : Agrees(c, k, e) => Goes(k, c, e, c2)

LEMMA CalmOn ==
  ASSUME NEW k, NEW a, NEW d, Agrees(a, k, d), NEW b, NEW e, Agrees(b, k, e), Calm(a, d, b, e),
         NEW c, NEW f, Agrees(c, k, f), Calm(b, e, c, f)
  PROVE  Calm(a, d, c, f)
<1>1. Len(a.blocks) \in Nat /\ Len(b.blocks) \in Nat /\ Len(c.blocks) \in Nat
  BY ListLength DEF Agrees
<1>2. SameThinking(a, c)
  BY DEF Calm, SameThinking
<1>3. /\ Len(a.blocks) <= Len(b.blocks) /\ Len(b.blocks) <= Len(c.blocks)
      /\ \A i \in 1 .. Len(a.blocks) : b.blocks[i].kind = a.blocks[i].kind
      /\ \A i \in 1 .. Len(b.blocks) : c.blocks[i].kind = b.blocks[i].kind
  BY DEF Calm
<1>4. \A i \in 1 .. Len(a.blocks) : i \in 1 .. Len(b.blocks)
  BY <1>1, <1>3
<1>5. ASSUME NEW i \in 1 .. Len(c.blocks), c.blocks[i].kind = "thinking"
      PROVE  /\ i \in 1 .. Len(a.blocks)
             /\ c.blocks[i] = a.blocks[i] /\ f.blocks[i] = d.blocks[i]
  <2>1. i \in 1 .. Len(b.blocks) /\ c.blocks[i] = b.blocks[i] /\ f.blocks[i] = e.blocks[i]
    BY <1>5 DEF Calm
  <2>2. b.blocks[i].kind = "thinking"
    BY <1>5, <2>1
  <2>3. i \in 1 .. Len(a.blocks) /\ b.blocks[i] = a.blocks[i] /\ e.blocks[i] = d.blocks[i]
    BY <2>1, <2>2 DEF Calm
  <2> QED
    BY <2>1, <2>3
<1>6. Len(a.blocks) <= Len(c.blocks)
  BY ONLY <1>1, <1>3
<1>7. \A i \in 1 .. Len(a.blocks) : c.blocks[i].kind = a.blocks[i].kind
  BY ONLY <1>3, <1>4
<1> QED
  BY <1>2, <1>5, <1>6, <1>7 DEF Calm

LEMMA GoesOnCalmly ==
  ASSUME NEW k, NEW a, NEW d, Agrees(a, k, d), NEW b, Goes(k, a, d, b), NEW c, Fine(b, c)
  PROVE  Goes(k, a, d, c)
<1>1. PICK e : Agrees(b, k, e) /\ Calm(a, d, b, e)
  BY DEF Goes
<1>2. PICK f : Agrees(c, k, f) /\ Calm(b, e, c, f)
  BY <1>1 DEF Fine, Goes
<1>3. Calm(a, d, c, f)
  BY ONLY Agrees(a, k, d), <1>1, <1>2, CalmOn
<1> QED
  BY <1>2, <1>3 DEF Goes

LEMMA FineSame == ASSUME NEW c PROVE Fine(c, c)
<1> SUFFICES ASSUME NEW k, NEW e, Agrees(c, k, e) PROVE Goes(k, c, e, c)
  BY DEF Fine
<1>1. Len(c.blocks) \in Nat
  BY ListLength DEF Agrees
<1>2. Calm(c, e, c, e)
  BY <1>1 DEF Calm, SameThinking
<1> QED
  BY <1>2 DEF Goes

LEMMA FineThen ==
  ASSUME NEW a, NEW b, Fine(a, b), NEW c, Fine(b, c)
  PROVE  Fine(a, c)
<1> SUFFICES ASSUME NEW k, NEW d, Agrees(a, k, d) PROVE Goes(k, a, d, c)
  BY DEF Fine
<1>1. Goes(k, a, d, b)
  BY DEF Fine
<1> QED
  BY ONLY <1>1, Agrees(a, k, d), Fine(b, c), GoesOnCalmly

\* The fields that no rule of the protocol is about.
Loose == {"fence", "guard", "sniffBuffer", "textIndex", "signature", "hasTool", "reason"}
Quiet(c, c2) ==
  DOMAIN c = Fields /\ c.sniffBuffer \in Seq(TextCells) =>
    Keeps(c, c2, Loose) /\ c2.sniffBuffer \in Seq(TextCells)

LEMMA FineQuiet == ASSUME NEW c, NEW c2, Quiet(c, c2) PROVE Fine(c, c2)
<1> SUFFICES ASSUME NEW k, NEW e, Agrees(c, k, e) PROVE Goes(k, c, e, c2)
  BY DEF Fine
<1>1. Keeps(c, c2, Loose) /\ c2.sniffBuffer \in Seq(TextCells)
  BY DEF Agrees, Quiet
<1>2. /\ c2.started = c.started /\ c2.deltaSent = c.deltaSent /\ c2.ended = c.ended
      /\ c2.blocks = c.blocks /\ c2.out = c.out /\ DOMAIN c2 = Fields /\ SameThinking(c, c2)
  BY <1>1 DEF Keeps, Fields, Loose, SameThinking
<1>3. Agrees(c2, k, e)
  BY <1>1, <1>2 DEF Agrees
<1>4. Len(c.blocks) \in Nat
  BY ListLength DEF Agrees
<1>5. Calm(c, e, c2, e)
  BY <1>2, <1>4 DEF Calm
<1> QED
  BY <1>3, <1>5 DEF Goes

LEMMA StartsCalmly ==
  ASSUME NEW k, NEW c, NEW e, Agrees(c, k, e), NEW kind \in AllKinds, kind # "thinking",
         NEW i, i = Len(c.blocks) + 1, NEW c2, c2 = StartedBlock(c, i, kind)
  PROVE  Goes(k, c, e, c2) /\ i \in 1 .. Len(c2.blocks) /\ c2.blocks[i].kind = kind
<1>1. PICK e2 : HasStarted(k, c, e, c2, e2, kind)
  BY Starts
<1>2. Len(c.blocks) \in Nat /\ Len(e.blocks) = Len(c.blocks)
  BY ListLength DEF Agrees
<1>3. SameThinking(c, c2)
  BY <1>1 DEF HasStarted, Keeps, Fields, SameThinking
<1>4. /\ Len(c2.blocks) = Len(c.blocks) + 1 /\ c2.blocks[i] = [kind |-> kind, open |-> TRUE]
      /\ \A j \in 1 .. Len(c.blocks) : c2.blocks[j] = c.blocks[j] /\ e2.blocks[j] = e.blocks[j]
  BY <1>1, <1>2 DEF HasStarted, Longer, Began
<1>5. \A j \in 1 .. Len(c2.blocks) : j \in 1 .. Len(c.blocks) \/ j = i
  BY <1>2, <1>4
<1>6. c2.blocks[i].kind = kind /\ Len(c.blocks) <= Len(c2.blocks) /\ i \in 1 .. Len(c2.blocks)
  BY <1>2, <1>4
<1>7. Calm(c, e, c2, e2)
  BY <1>3, <1>4, <1>5, <1>6 DEF Calm
<1> QED
  BY <1>1, <1>6, <1>7 DEF Goes, HasStarted

LEMMA TellsCalmly ==
  ASSUME NEW k, NEW c, NEW e, Agrees(c, k, e), NEW i \in 1 .. Len(c.blocks),
         c.blocks[i].kind \in {"text", "tool_use"}, NEW kind, NEW content,
         NEW c2, c2 = ContentBlockDelta(c, i, kind, content)
  PROVE  Goes(k, c, e, c2) /\ c2.blocks = c.blocks
<1>1. CASE ~ c.blocks[i].open
  <2>1. c2 = c
    BY <1>1 DEF ContentBlockDelta
  <2> QED
    BY <2>1, FineSame DEF Fine
<1>2. CASE c.blocks[i].open
  <2>1. DOMAIN c.blocks = 1 .. Len(c.blocks)
    BY ListLength DEF Agrees
  <2>2. c2 = Emit(c, DeltaEvent(i, kind, content))
    BY <1>2, <2>1 DEF ContentBlockDelta
  <2>3. c.blocks[i].kind # "redacted_thinking" /\ c.blocks[i].kind # "thinking"
    OBVIOUS
  <2>4. PICK e2 : HasTold(k, c, e, c2, e2, i, kind, content)
    BY <1>2, <2>2, <2>3, Tells
  <2>5. SameThinking(c, c2) /\ c2.blocks = c.blocks
    BY <2>4 DEF HasTold, Keeps, Fields, SameThinking
  <2>6. Len(c.blocks) \in Nat /\ Len(e.blocks) = Len(c.blocks)
    BY ListLength DEF Agrees
  <2>7. Calm(c, e, c2, e2)
    BY <2>3, <2>4, <2>5, <2>6 DEF Calm, HasTold, Grew
  <2> QED
    BY <2>4, <2>5, <2>7 DEF Goes, HasTold
<1> QED
  BY <1>1, <1>2

LEMMA StopsCalmly ==
  ASSUME NEW k, NEW c, NEW e, Agrees(c, k, e), NEW i \in 1 .. Len(c.blocks),
         c.blocks[i].kind # "thinking", NEW c2, c2 = ContentBlockStop(c, i)
  PROVE  Goes(k, c, e, c2)
<1>1. CASE ~ c.blocks[i].open
  <2>1. c2 = c
    BY <1>1 DEF ContentBlockStop
  <2> QED
    BY <2>1, FineSame DEF Fine
<1>2. CASE c.blocks[i].open
  <2>1. Signed(e.blocks[i]) /\ DOMAIN c.blocks[i] = {"kind", "open"}
    BY DEF Agrees, SameBlock, Signed
  <2>2. PICK e2 : HasStopped(k, c, e, c2, e2, i)
    BY <1>2, <2>1, Stops
  <2>3. SameThinking(c, c2)
    BY <2>2 DEF HasStopped, Keeps, Fields, SameThinking
  <2>4. Len(c.blocks) \in Nat /\ Len(e.blocks) = Len(c.blocks)
    BY ListLength DEF Agrees
  <2>5. /\ Len(c2.blocks) = Len(c.blocks) /\ c2.blocks[i].kind = c.blocks[i].kind
        /\ \A j \in 1 .. Len(c.blocks) :
             j # i => c2.blocks[j] = c.blocks[j] /\ e2.blocks[j] = e.blocks[j]
    BY <2>1, <2>2, <2>4 DEF HasStopped, Replaced, Closed
  <2>6. Calm(c, e, c2, e2)
    BY <2>3, <2>4, <2>5 DEF Calm
  <2> QED
    BY <2>2, <2>6 DEF Goes, HasStopped
<1> QED
  BY <1>1, <1>2

\* A context whose first n blocks are stopped, if they are of the kinds, for every n.
StopsFirst(s, kinds, n, f) ==
  f = [k \in 0 .. n |->
        IF k = 0 THEN s
        ELSE IF s.blocks[k].kind \in kinds THEN ContentBlockStop(f[k - 1], k)
        ELSE f[k - 1]]

\* Such a function exists, so StopAll is what its loop says.
LEMMA StopAllDefined ==
  ASSUME NEW s, NEW kinds, Len(s.blocks) \in Nat
  PROVE  \E f : StopsFirst(s, kinds, Len(s.blocks), f) /\ StopAll(s, kinds) = f[Len(s.blocks)]
<1> DEFINE T == {n \in Nat : ~ \E f : StopsFirst(s, kinds, n, f)}
<1>1. T = {}
  <2> SUFFICES ASSUME T # {} PROVE FALSE
    OBVIOUS
  <2>1. PICK m \in T : \A x \in T : m <= x
    <3>1. T \subseteq Nat
      OBVIOUS
    <3> QED
      BY <3>1, Smallest
  <2>2. m # 0
    <3>1. StopsFirst(s, kinds, 0, [k \in 0 .. 0 |-> s])
      BY DEF StopsFirst
    <3> QED
      BY <3>1, <2>1
  <2>3. m \in Nat /\ m - 1 \in Nat /\ m - 1 \notin T
    <3>1. m \in Nat
      OBVIOUS
    <3> HIDE DEF T
    <3> QED
      BY ONLY <2>1, <2>2, <3>1
  <2>4. PICK f : StopsFirst(s, kinds, m - 1, f)
    BY <2>3
  <2> DEFINE g == [k \in 0 .. m |->
        IF k = 0 THEN s
        ELSE IF s.blocks[k].kind \in kinds THEN ContentBlockStop(f[k - 1], k)
        ELSE f[k - 1]]
  <2>5. ASSUME NEW k \in 0 .. m - 1
        PROVE  g[k] = f[k]
    <3>1. k \in 0 .. m
      BY <2>3
    <3>2. f[k] =
          IF k = 0 THEN s
          ELSE IF s.blocks[k].kind \in kinds THEN ContentBlockStop(f[k - 1], k)
          ELSE f[k - 1]
      BY <2>4 DEF StopsFirst
    <3> QED
      BY <3>1, <3>2
  <2>6. \A k \in 0 .. m : k # 0 => k - 1 \in 0 .. m - 1
    BY <2>3
  <2>7. g = [k \in 0 .. m |->
        IF k = 0 THEN s
        ELSE IF s.blocks[k].kind \in kinds THEN ContentBlockStop(g[k - 1], k)
        ELSE g[k - 1]]
    <3> HIDE DEF g
    <3>1. \A k \in 0 .. m : k # 0 => g[k - 1] = f[k - 1]
      BY <2>5, <2>6
    <3>2. g = [k \in 0 .. m |->
          IF k = 0 THEN s
          ELSE IF s.blocks[k].kind \in kinds THEN ContentBlockStop(f[k - 1], k)
          ELSE f[k - 1]]
      BY DEF g
    <3> QED
      BY <3>1, <3>2
  <2>8. StopsFirst(s, kinds, m, g)
    BY <2>7 DEF StopsFirst
  <2> HIDE DEF g
  <2> QED
    BY <2>1, <2>8
<1>2. PICK f : StopsFirst(s, kinds, Len(s.blocks), f)
  BY <1>1
<1> DEFINE h == CHOOSE at : at = [k \in 0 .. Len(s.blocks) |->
                   IF k = 0 THEN s
                   ELSE IF s.blocks[k].kind \in kinds THEN ContentBlockStop(at[k - 1], k)
                   ELSE at[k - 1]]
<1>3. StopsFirst(s, kinds, Len(s.blocks), h)
  BY <1>2 DEF StopsFirst
<1>4. StopAll(s, kinds) = h[Len(s.blocks)]
  BY DEF StopAll
<1> HIDE DEF h
<1> QED
  BY <1>3, <1>4

\* What is left when the blocks of some kinds are stopped.
HasStoppedFirst(k, c, e, c2, e2, kinds, n) ==
  /\ Agrees(c2, k, e2) /\ Keeps(c, c2, {"blocks", "out"}) /\ Len(c2.blocks) = Len(c.blocks)
  /\ \A i \in 1 .. Len(c.blocks) :
       /\ c2.blocks[i].kind = c.blocks[i].kind
       /\ i <= n /\ c.blocks[i].kind \in kinds => ~ c2.blocks[i].open
       /\ i > n \/ c.blocks[i].kind \notin kinds =>
            c2.blocks[i] = c.blocks[i] /\ e2.blocks[i] = e.blocks[i]

LEMMA StopsOneMore ==
  ASSUME NEW k, NEW c, NEW e, Agrees(c, k, e), NEW kinds,
         NEW n \in Nat, n + 1 <= Len(c.blocks),
         c.blocks[n + 1].kind \in kinds,
         c.blocks[n + 1].open => Signed(e.blocks[n + 1]),
         NEW c1, NEW e1, HasStoppedFirst(k, c, e, c1, e1, kinds, n)
  PROVE  \E e2 : HasStoppedFirst(k, c, e, ContentBlockStop(c1, n + 1), e2, kinds, n + 1)
<1>1. PICK i, c2 : i = n + 1 /\ c2 = ContentBlockStop(c1, i)
  OBVIOUS
<1>2. /\ Agrees(c1, k, e1) /\ Keeps(c, c1, {"blocks", "out"}) /\ Len(c1.blocks) = Len(c.blocks)
      /\ i \in 1 .. Len(c.blocks) /\ i > n /\ Len(c.blocks) \in Nat
      /\ c1.blocks[i] = c.blocks[i] /\ e1.blocks[i] = e.blocks[i]
  <2>1. Len(c.blocks) \in Nat
    BY ListLength DEF Agrees
  <2>2. i \in 1 .. Len(c.blocks) /\ i > n
    BY <1>1, <2>1
  <2> QED
    BY <2>1, <2>2 DEF HasStoppedFirst
<1>3. \A j \in 1 .. Len(c.blocks) : j # i => (j <= i <=> j <= n) /\ (j > i <=> j > n)
  BY <1>1, <1>2
<1>4. CASE ~ c1.blocks[i].open
  <2>1. c2 = c1
    BY <1>1, <1>4 DEF ContentBlockStop
  <2>2. HasStoppedFirst(k, c, e, c1, e1, kinds, i)
    <3>1. ~ c1.blocks[i].open /\ c.blocks[i].kind \in kinds
      BY <1>1, <1>4
    <3>2. ~ (i > i)
      BY <1>2
    <3> QED
      BY <1>2, <1>3, <3>1, <3>2 DEF HasStoppedFirst
  <2> QED
    BY <1>1, <2>1, <2>2
<1>5. CASE c1.blocks[i].open
  <2>1. i \in 1 .. Len(c1.blocks) /\ Signed(e1.blocks[i])
    BY <1>1, <1>2, <1>5
  <2>2. PICK e2 : HasStopped(k, c1, e1, c2, e2, i)
    BY ONLY <1>1, <1>2, <1>5, <2>1, Stops
  <2>3. DOMAIN c1.blocks[i] = {"kind", "open"} /\ Len(e1.blocks) = Len(c1.blocks)
    BY <1>2 DEF Agrees, SameBlock
  <2>4. /\ Len(c2.blocks) = Len(c.blocks)
        /\ c2.blocks[i].kind = c1.blocks[i].kind /\ ~ c2.blocks[i].open
        /\ \A j \in 1 .. Len(c.blocks) :
             j # i => c2.blocks[j] = c1.blocks[j] /\ e2.blocks[j] = e1.blocks[j]
    BY <1>2, <2>2, <2>3 DEF HasStopped, Replaced, Closed
  <2>5. Keeps(c, c2, {"blocks", "out"})
    BY <1>2, <2>2 DEF HasStopped, Keeps
  <2>6. Agrees(c2, k, e2)
    BY <2>2 DEF HasStopped
  <2>7. ASSUME NEW j \in 1 .. Len(c.blocks)
        PROVE  /\ c2.blocks[j].kind = c.blocks[j].kind
               /\ j <= i /\ c.blocks[j].kind \in kinds => ~ c2.blocks[j].open
               /\ j > i \/ c.blocks[j].kind \notin kinds =>
                    c2.blocks[j] = c.blocks[j] /\ e2.blocks[j] = e.blocks[j]
    <3>1. CASE j = i
      <4>1. ~ (j > i) /\ c.blocks[j].kind \in kinds
        BY <1>1, <1>2, <3>1
      <4> QED
        BY <1>2, <2>4, <3>1, <4>1
    <3>2. CASE j # i
      BY <1>3, <2>4, <3>2 DEF HasStoppedFirst
    <3> QED
      BY <3>1, <3>2
  <2>8. HasStoppedFirst(k, c, e, c2, e2, kinds, i)
    BY <2>4, <2>5, <2>6, <2>7 DEF HasStoppedFirst
  <2> QED
    BY <1>1, <2>8
<1> QED
  BY <1>4, <1>5

LEMMA StopsAll ==
  ASSUME NEW k, NEW c, NEW e, Agrees(c, k, e), NEW kinds,
         \A i \in 1 .. Len(c.blocks) :
           c.blocks[i].kind \in kinds /\ c.blocks[i].open => Signed(e.blocks[i])
  PROVE  \E e2 : HasStoppedFirst(k, c, e, StopAll(c, kinds), e2, kinds, Len(c.blocks))
<1>1. Len(c.blocks) \in Nat
  BY ListLength DEF Agrees
<1>2. PICK f : StopsFirst(c, kinds, Len(c.blocks), f) /\ StopAll(c, kinds) = f[Len(c.blocks)]
  BY <1>1, StopAllDefined
<1> DEFINE P(n) == \E d : HasStoppedFirst(k, c, e, f[n], d, kinds, n)
           T == {n \in Nat : n <= Len(c.blocks) /\ ~ P(n)}
<1>3. \A n \in 0 .. Len(c.blocks) :
        f[n] = IF n = 0 THEN c
               ELSE IF c.blocks[n].kind \in kinds THEN ContentBlockStop(f[n - 1], n) ELSE f[n - 1]
  BY <1>2 DEF StopsFirst
<1>4. P(0)
  <2>1. HasStoppedFirst(k, c, e, c, e, kinds, 0)
    <3>1. \A i \in 1 .. Len(c.blocks) : ~ (i <= 0)
      BY <1>1
    <3> QED
      BY <3>1 DEF HasStoppedFirst, Keeps, Agrees
  <2>2. f[0] = c
    BY <1>1, <1>3
  <2> QED
    BY <2>1, <2>2
<1>5. ASSUME NEW n \in Nat, n + 1 <= Len(c.blocks), P(n)
      PROVE  P(n + 1)
  <2>1. PICK d : HasStoppedFirst(k, c, e, f[n], d, kinds, n)
    BY <1>5
  <2>2. PICK c1 : c1 = f[n]
    OBVIOUS
  <2>3. n + 1 \in 1 .. Len(c.blocks) /\ (n + 1) - 1 = n /\ n + 1 \in 0 .. Len(c.blocks)
    BY <1>1, <1>5
  <2>4. f[n + 1] = IF c.blocks[n + 1].kind \in kinds THEN ContentBlockStop(c1, n + 1) ELSE c1
    BY <1>3, <2>2, <2>3
  <2>5. CASE c.blocks[n + 1].kind \in kinds
    <3>1. c.blocks[n + 1].open => Signed(e.blocks[n + 1])
      BY <2>3, <2>5
    <3>2. HasStoppedFirst(k, c, e, c1, d, kinds, n)
      BY <2>1, <2>2
    <3>3. \E e2 : HasStoppedFirst(k, c, e, ContentBlockStop(c1, n + 1), e2, kinds, n + 1)
      BY ONLY Agrees(c, k, e), n \in Nat, n + 1 <= Len(c.blocks), <2>5, <3>1, <3>2, StopsOneMore
    <3> QED
      BY <2>4, <2>5, <3>3
  <2>6. CASE c.blocks[n + 1].kind \notin kinds
    <3>1. HasStoppedFirst(k, c, e, c1, d, kinds, n)
      BY <2>1, <2>2
    <3>2. \A j \in 1 .. Len(c.blocks) : (j <= n + 1 <=> j <= n \/ j = n + 1) /\ (j > n + 1 => j > n)
      BY <1>1
    <3>3. HasStoppedFirst(k, c, e, c1, d, kinds, n + 1)
      BY <3>1, <3>2, <2>6 DEF HasStoppedFirst
    <3> QED
      BY <2>4, <2>6, <3>3
  <2> QED
    BY <2>5, <2>6
<1>6. T = {}
  <2> SUFFICES ASSUME T # {} PROVE FALSE
    OBVIOUS
  <2>1. PICK m \in T : \A x \in T : m <= x
    <3>1. T \subseteq Nat
      OBVIOUS
    <3> QED
      BY <3>1, Smallest
  <2>2. m \in Nat /\ m <= Len(c.blocks) /\ ~ P(m)
    OBVIOUS
  <2>3. m # 0
    BY <1>4, <2>2
  <2>4. m - 1 \in Nat /\ (m - 1) + 1 = m /\ ~ (m <= m - 1) /\ m - 1 <= Len(c.blocks)
    BY ONLY <1>1, <2>2, <2>3
  <2>5. P(m - 1)
    <3>1. m - 1 \notin T
      <4> HIDE DEF T
      <4> QED
        BY <2>1, <2>4
    <3> QED
      BY <2>4, <3>1
  <2> HIDE DEF P
  <2> QED
    BY <1>5, <2>2, <2>4, <2>5
<1>7. P(Len(c.blocks))
  BY <1>1, <1>6
<1> QED
  BY <1>2, <1>7

LEMMA StopsAllCalmly ==
  ASSUME NEW k, NEW c, NEW e, Agrees(c, k, e), NEW kinds, "thinking" \notin kinds,
         NEW c2, c2 = StopAll(c, kinds)
  PROVE  Goes(k, c, e, c2) /\ Len(c2.blocks) = Len(c.blocks)
         /\ \A i \in 1 .. Len(c.blocks) : c2.blocks[i].kind = c.blocks[i].kind
<1>1. \A i \in 1 .. Len(c.blocks) :
        c.blocks[i].kind \in kinds /\ c.blocks[i].open => Signed(e.blocks[i])
  BY DEF Agrees, SameBlock, Signed
<1>2. PICK e2 : HasStoppedFirst(k, c, e, c2, e2, kinds, Len(c.blocks))
  BY <1>1, StopsAll
<1>3. SameThinking(c, c2)
  BY <1>2 DEF HasStoppedFirst, Keeps, Fields, SameThinking
<1>4. Len(c.blocks) \in Nat
  BY ListLength DEF Agrees
<1>5. Calm(c, e, c2, e2)
  BY <1>2, <1>3, <1>4 DEF HasStoppedFirst, Calm
<1> QED
  BY <1>2, <1>5 DEF Goes, HasStoppedFirst

\* What n rounds of the loop that looks for calls do.
SniffsOn(first, flush, n, f) ==
  f = [k \in 0 .. n |-> IF k = 0 THEN first ELSE Sniff(f[k - 1], flush)]

\* Such a function exists, so DrainSniffBuffer is what its loop says.
LEMMA DrainDefined ==
  ASSUME NEW c, NEW flush, NEW first,
         first = [c |-> [c EXCEPT !.sniffBuffer = <<>>], b |-> c.sniffBuffer, over |-> FALSE],
         Len(c.sniffBuffer) + 1 \in Nat
  PROVE  \E f : SniffsOn(first, flush, Len(c.sniffBuffer) + 1, f)
              /\ DrainSniffBuffer(c, flush) = f[Len(c.sniffBuffer) + 1].c
<1> DEFINE T == {n \in Nat : ~ \E f : SniffsOn(first, flush, n, f)}
<1>1. T = {}
  <2> SUFFICES ASSUME T # {} PROVE FALSE
    OBVIOUS
  <2>1. PICK m \in T : \A x \in T : m <= x
    <3>1. T \subseteq Nat
      OBVIOUS
    <3> QED
      BY <3>1, Smallest
  <2>2. m # 0
    <3>1. SniffsOn(first, flush, 0, [k \in 0 .. 0 |-> first])
      BY DEF SniffsOn
    <3> QED
      BY <3>1, <2>1
  <2>3. m \in Nat /\ m - 1 \in Nat /\ m - 1 \notin T
    <3>1. m \in Nat
      OBVIOUS
    <3> HIDE DEF T
    <3> QED
      BY ONLY <2>1, <2>2, <3>1
  <2>4. PICK f : SniffsOn(first, flush, m - 1, f)
    BY <2>3
  <2> DEFINE g == [k \in 0 .. m |-> IF k = 0 THEN first ELSE Sniff(f[k - 1], flush)]
  <2>5. ASSUME NEW k \in 0 .. m - 1
        PROVE  g[k] = f[k]
    <3>1. k \in 0 .. m
      BY <2>3
    <3>2. f[k] = IF k = 0 THEN first ELSE Sniff(f[k - 1], flush)
      BY <2>4 DEF SniffsOn
    <3> QED
      BY <3>1, <3>2
  <2>6. \A k \in 0 .. m : k # 0 => k - 1 \in 0 .. m - 1
    BY <2>3
  <2>7. g = [k \in 0 .. m |-> IF k = 0 THEN first ELSE Sniff(g[k - 1], flush)]
    <3> HIDE DEF g
    <3>1. \A k \in 0 .. m : k # 0 => g[k - 1] = f[k - 1]
      BY <2>5, <2>6
    <3>2. g = [k \in 0 .. m |-> IF k = 0 THEN first ELSE Sniff(f[k - 1], flush)]
      BY DEF g
    <3> QED
      BY <3>1, <3>2
  <2>8. SniffsOn(first, flush, m, g)
    BY <2>7 DEF SniffsOn
  <2> HIDE DEF g
  <2> QED
    BY <2>1, <2>8
<1>2. PICK f : SniffsOn(first, flush, Len(c.sniffBuffer) + 1, f)
  BY <1>1
<1> DEFINE h == CHOOSE at : at = [k \in 0 .. Len(c.sniffBuffer) + 1 |->
                   IF k = 0 THEN first ELSE Sniff(at[k - 1], flush)]
<1>3. SniffsOn(first, flush, Len(c.sniffBuffer) + 1, h)
  BY <1>2 DEF SniffsOn
<1>4. DrainSniffBuffer(c, flush) = h[Len(c.sniffBuffer) + 1].c
  BY DEF DrainSniffBuffer, Repeated
<1> HIDE DEF h
<1> QED
  BY <1>3, <1>4

\* Positions in a text.
IsFirst(S, i) == i \in Nat /\ (i # 0 => i \in S)

LEMMA FirstPosition ==
  ASSUME NEW S, S \subseteq Nat
  PROVE  IsFirst(S, First(S))
<1>1. CASE S = {}
  BY <1>1 DEF First, IsFirst
<1>2. CASE S # {}
  <2>1. \E m \in S : \A x \in S : m <= x
    BY <1>2, Smallest
  <2> QED
    BY <1>2, <2>1 DEF First, Min, IsFirst
<1> QED
  BY <1>1, <1>2

LEMMA LastPosition ==
  ASSUME NEW n \in Nat, NEW S, S \subseteq 1 .. n
  PROVE  Last0(S) \in 0 .. n
<1>1. CASE S = {}
  BY <1>1 DEF Last0
<1>2. CASE S # {}
  <2> DEFINE T == {n - x : x \in S}
  <2>1. T \subseteq Nat /\ T # {}
    <3>1. \A x \in S : n - x \in Nat
      OBVIOUS
    <3> QED
      BY <1>2, <3>1
  <2>2. PICK m \in T : \A x \in T : m <= x
    <3> HIDE DEF T
    <3> QED
      BY <2>1, Smallest
  <2>3. PICK x \in S : m = n - x
    BY <2>2
  <2>4. ASSUME NEW y \in S
        PROVE  x >= y
    <3>1. n - y \in T
      OBVIOUS
    <3>2. n - x <= n - y
      BY <2>2, <2>3, <3>1
    <3> QED
      BY <3>2
  <2> HIDE DEF T
  <2> QED
    <3>1. \E y \in S : \A z \in S : y >= z
      BY <2>3, <2>4
    <3>2. Max(S) \in S
      BY <3>1 DEF Max
    <3>3. PICK y : y = Max(S)
      OBVIOUS
    <3>4. Last0(S) = y
      BY <1>2, <3>3 DEF Last0
    <3>5. y \in 1 .. n
      BY <3>2, <3>3
    <3>6. y \in 0 .. n
      BY ONLY <3>5, n \in Nat
    <3> QED
      BY <3>4, <3>6
<1> QED
  BY <1>1, <1>2

LEMMA TextFrom ==
  ASSUME NEW b \in Seq(TextCells), NEW m \in Nat, m > 0
  PROVE  From(b, m) \in Seq(TextCells)
BY DEF From

LEMMA InvokePositions ==
  ASSUME NEW b \in Seq(TextCells)
  PROVE  /\ FindInvokeStart(b) \in Nat
         /\ \A start : FindInvokeBlockEnd(b, start) \in Nat
         /\ PartialInvokeTag(b) \in 0 .. Len(b)
<1>1. DOMAIN b = 1 .. Len(b) /\ Len(b) \in Nat
  OBVIOUS
<1>2. FindInvokeStart(b) \in Nat
  <2> DEFINE S == {i \in DOMAIN b : InvokeAt(b, i) /\ ~ QuotesBefore(b, i)}
  <2>1. S \subseteq Nat
    BY <1>1
  <2> HIDE DEF S
  <2>2. First(S) \in Nat
    BY ONLY <2>1, FirstPosition, Zenon DEF IsFirst
  <2> QED
    BY <2>2 DEF S, FindInvokeStart
<1>3. ASSUME NEW start
      PROVE  FindInvokeBlockEnd(b, start) \in Nat
  <2> DEFINE n == First({i \in DOMAIN b : i > start /\ InvokeAt(b, i)})
             B == IF n = 0 THEN Len(b) + 1 ELSE n
             S == {i \in DOMAIN b : start < i /\ i < B /\ b[i] = "</inv>"}
  <2> HIDE DEF n
  <2>1. S \subseteq 1 .. Len(b)
    BY <1>1
  <2>2. Last0(S) \in 0 .. Len(b)
    <3> HIDE DEF S
    <3> QED
      BY ONLY <1>1, <2>1, LastPosition, Zenon
  <2> QED
    BY <2>2 DEF n, FindInvokeBlockEnd
<1>4. PartialInvokeTag(b) \in 0 .. Len(b)
  <2> DEFINE S == {i \in DOMAIN b : b[i] \in Opens \cup {"</inv>"}}
  <2>1. S \subseteq 1 .. Len(b)
    BY <1>1
  <2> HIDE DEF S
  <2>2. Last0(S) \in 0 .. Len(b)
    BY ONLY <1>1, <2>1, LastPosition, Zenon
  <2> QED
    BY <1>1, <2>2 DEF S, PartialInvokeTag
<1> QED
  BY <1>2, <1>3, <1>4

\* What comes to the client as text.
LEMMA OpensText ==
  ASSUME NEW k, NEW c, NEW e, Agrees(c, k, e), NEW c2, c2 = OpenTextBlock(c)
  PROVE  Goes(k, c, e, c2) /\ c2.textIndex \in 1 .. Len(c2.blocks)
         /\ c2.blocks[c2.textIndex].kind = "text"
<1>1. DOMAIN c = Fields /\ DOMAIN c.blocks = 1 .. Len(c.blocks)
  BY ListLength DEF Agrees
<1>2. CASE IsBlockOpenOfType(c, c.textIndex, "text")
  <2>1. c2 = c
    BY <1>2 DEF OpenTextBlock
  <2> QED
    BY <1>1, <1>2, <2>1, FineSame DEF Fine, IsBlockOpenOfType
<1>3. CASE ~ IsBlockOpenOfType(c, c.textIndex, "text")
  <2>1. PICK i, c1 : i = Len(c.blocks) + 1 /\ c1 = [c EXCEPT !.textIndex = i]
    OBVIOUS
  <2>2. c1.blocks = c.blocks /\ c1.textIndex = i
    BY <1>1, <2>1 DEF Fields
  <2>3. c2 = StartedBlock(c1, i, "text") /\ i = Len(c1.blocks) + 1
    BY <1>3, <2>1, <2>2 DEF OpenTextBlock, NextBlockIndex, StartBlock, ContentBlockStart
  <2>4. Fine(c, c1)
    <3>1. Quiet(c, c1)
      BY <2>1 DEF Quiet, Keeps, Fields, Loose
    <3> QED
      BY <3>1, FineQuiet
  <2>5. PICK d : Agrees(c1, k, d) /\ Calm(c, e, c1, d)
    BY <2>4 DEF Fine, Goes
  <2>6. Goes(k, c1, d, c2) /\ i \in 1 .. Len(c2.blocks) /\ c2.blocks[i].kind = "text"
    <3>1. "text" \in AllKinds /\ "text" # "thinking"
      BY DEF AllKinds
    <3> QED
      BY ONLY <2>3, <2>5, <3>1, StartsCalmly
  <2>7. Goes(k, c, e, c2)
    <3>1. PICK g : Agrees(c2, k, g) /\ Calm(c1, d, c2, g)
      BY <2>6 DEF Goes
    <3>2. Calm(c, e, c2, g)
      BY ONLY Agrees(c, k, e), <2>5, <3>1, CalmOn
    <3> QED
      BY <3>1, <3>2 DEF Goes
  <2>8. c2.textIndex = i
    <3>1. DOMAIN c1 = Fields
      BY <1>1, <2>1
    <3> QED
      BY <2>2, <2>3, <3>1 DEF StartedBlock, Emit, Fields
  <2> QED
    BY <2>6, <2>7, <2>8
<1> QED
  BY <1>2, <1>3

LEMMA FineEmit == ASSUME NEW c, NEW filtered PROVE Fine(c, EmitFiltered(c, filtered))
<1>1. PICK c1 : c1 = [c EXCEPT !.guard = filtered.guard, !.fence = AdvanceFence(@, filtered.kept)]
  OBVIOUS
<1>2. Quiet(c, c1)
  BY <1>1 DEF Quiet, Keeps, Fields, Loose
<1>3. Fine(c, c1)
  BY <1>2, FineQuiet
<1>4. CASE filtered.kept = <<>>
  BY <1>1, <1>3, <1>4 DEF EmitFiltered
<1>5. CASE filtered.kept # <<>>
  <2>1. PICK c2, c3 : c2 = OpenTextBlock(c1) /\ c3 = Shown(c2, filtered.kept)
    OBVIOUS
  <2>2. EmitFiltered(c, filtered) = c3
    BY <1>1, <1>5, <2>1 DEF EmitFiltered
  <2>3. Fine(c1, c3)
    <3> SUFFICES ASSUME NEW k, NEW e, Agrees(c1, k, e) PROVE Goes(k, c1, e, c3)
      BY DEF Fine
    <3>1. /\ Goes(k, c1, e, c2) /\ c2.textIndex \in 1 .. Len(c2.blocks)
          /\ c2.blocks[c2.textIndex].kind = "text"
      BY <2>1, OpensText
    <3>2. PICK d : Agrees(c2, k, d) /\ Calm(c1, e, c2, d)
      BY <3>1 DEF Goes
    <3>3. PICK i, text : i = c2.textIndex /\ text = filtered.kept
      OBVIOUS
    <3>4. i \in 1 .. Len(c2.blocks) /\ c2.blocks[i].kind \in {"text", "tool_use"}
          /\ c3 = ContentBlockDelta(c2, i, "text_delta", text)
      BY <2>1, <3>1, <3>3 DEF Shown
    <3>5. Goes(k, c2, d, c3)
      BY ONLY <3>2, <3>4, TellsCalmly
    <3>6. PICK g : Agrees(c3, k, g) /\ Calm(c2, d, c3, g)
      BY <3>5 DEF Goes
    <3>7. Calm(c1, e, c3, g)
      BY ONLY Agrees(c1, k, e), <3>2, <3>6, CalmOn
    <3> QED
      BY <3>6, <3>7 DEF Goes
  <2> QED
    BY <1>3, <2>2, <2>3, FineThen
<1> QED
  BY <1>4, <1>5

LEMMA FineText == ASSUME NEW c, NEW text PROVE Fine(c, EmitText(c, text))
BY FineEmit DEF EmitText

\* A tool call gets a block, or has one.
HasTool(k, c, e, c2, i) ==
  Goes(k, c, e, c2) /\ i \in 1 .. Len(c2.blocks) /\ c2.blocks[i].kind = "tool_use"

LEMMA StartsTool ==
  ASSUME NEW k, NEW c, NEW e, Agrees(c, k, e), NEW i \in 1 .. Len(c.blocks) + 1,
         i \in 1 .. Len(c.blocks) => c.blocks[i].kind = "tool_use",
         NEW c2, c2 = ContentBlockStart(c, i, "tool_use")
  PROVE  HasTool(k, c, e, c2, i)
<1>1. PICK c0, c1 : c0 = [c EXCEPT !.hasTool = TRUE] /\ c1 = StopAll(c0, {"text"})
  OBVIOUS
<1>2. c2 = StartedBlock(c1, i, "tool_use")
  BY <1>1 DEF ContentBlockStart
<1>3. DOMAIN c = Fields /\ Len(c.blocks) \in Nat
  BY ListLength DEF Agrees
<1>4. c0.blocks = c.blocks
  BY <1>1, <1>3 DEF Fields
<1>5. Fine(c, c0)
  <2>1. Quiet(c, c0)
    BY <1>1 DEF Quiet, Keeps, Fields, Loose
  <2> QED
    BY <2>1, FineQuiet
<1>6. PICK d : Agrees(c0, k, d) /\ Calm(c, e, c0, d)
  BY <1>5 DEF Fine, Goes
<1>7. /\ Goes(k, c0, d, c1) /\ Len(c1.blocks) = Len(c0.blocks)
      /\ \A j \in 1 .. Len(c0.blocks) : c1.blocks[j].kind = c0.blocks[j].kind
  <2>1. PICK kinds : kinds = {"text"}
    OBVIOUS
  <2>2. "thinking" \notin kinds /\ c1 = StopAll(c0, kinds)
    BY <1>1, <2>1
  <2> QED
    BY ONLY <1>6, <2>2, StopsAllCalmly
<1>8. PICK f : Agrees(c1, k, f) /\ Calm(c0, d, c1, f)
  BY <1>7 DEF Goes
<1>9. Goes(k, c1, f, c2) /\ i \in 1 .. Len(c2.blocks) /\ c2.blocks[i].kind = "tool_use"
  <2>1. CASE i \in 1 .. Len(c.blocks)
    <3>1. DOMAIN c1.blocks = 1 .. Len(c1.blocks)
      BY <1>8, ListLength DEF Agrees
    <3>2. i \in 1 .. Len(c1.blocks) /\ c1.blocks[i].kind = "tool_use"
      BY <1>4, <1>7, <2>1
    <3>3. c2 = c1
      BY <1>2, <3>1, <3>2 DEF StartedBlock
    <3> QED
      BY <1>8, <3>2, <3>3, FineSame DEF Fine
  <2>2. CASE i \notin 1 .. Len(c.blocks)
    <3>1. i = Len(c1.blocks) + 1
      BY <1>3, <1>4, <1>7, <2>2
    <3>2. "tool_use" \in AllKinds /\ "tool_use" # "thinking"
      BY DEF AllKinds
    <3> QED
      BY ONLY <1>2, <1>8, <3>1, <3>2, StartsCalmly
  <2> QED
    BY <2>1, <2>2
<1>10. PICK g : Agrees(c2, k, g) /\ Calm(c1, f, c2, g)
  BY <1>9 DEF Goes
<1>11. Calm(c, e, c1, f)
  BY ONLY Agrees(c, k, e), <1>6, <1>8, CalmOn
<1>12. Calm(c, e, c2, g)
  BY ONLY Agrees(c, k, e), <1>8, <1>10, <1>11, CalmOn
<1> QED
  BY <1>9, <1>10, <1>12 DEF Goes, HasTool

LEMMA FineSynthesized == ASSUME NEW c PROVE Fine(c, SynthesizeToolUse(c))
<1> SUFFICES ASSUME NEW k, NEW e, Agrees(c, k, e) PROVE Goes(k, c, e, SynthesizeToolUse(c))
  BY DEF Fine
<1>1. PICK i, content, c0, c1, c2, c3 :
        /\ i = Len(c.blocks) + 1 /\ content = <<"parsed">>
        /\ c0 = [c EXCEPT !.hasTool = TRUE] /\ c1 = ContentBlockStart(c0, i, "tool_use")
        /\ c2 = ContentBlockDelta(c1, i, "input_json_delta", content)
        /\ c3 = ContentBlockStop(c2, i)
  OBVIOUS
<1>2. Len(c.blocks) \in Nat /\ c0.blocks = c.blocks
  BY <1>1, ListLength DEF Agrees, Fields
<1>3. SynthesizeToolUse(c) = c3
  BY <1>1, <1>2 DEF SynthesizeToolUse, NextBlockIndex
<1>4. Quiet(c, c0)
  BY <1>1 DEF Quiet, Keeps, Fields, Loose
<1>5. PICK d0 : Agrees(c0, k, d0) /\ Calm(c, e, c0, d0)
  BY <1>4, FineQuiet DEF Fine, Goes
<1>6. Goes(k, c0, d0, c1) /\ i \in 1 .. Len(c1.blocks) /\ c1.blocks[i].kind = "tool_use"
  <2>1. /\ i \in 1 .. Len(c0.blocks) + 1
        /\ i \in 1 .. Len(c0.blocks) => c0.blocks[i].kind = "tool_use"
    BY <1>1, <1>2
  <2>2. HasTool(k, c0, d0, c1, i)
    BY ONLY <1>1, <1>5, <2>1, StartsTool, Zenon
  <2> QED
    BY <2>2 DEF HasTool
<1>7. PICK d1 : Agrees(c1, k, d1) /\ Calm(c0, d0, c1, d1)
  BY <1>6 DEF Goes
<1>8. Goes(k, c1, d1, c2) /\ c2.blocks = c1.blocks
  <2>1. c1.blocks[i].kind \in {"text", "tool_use"}
    BY <1>6
  <2> QED
    BY ONLY <1>1, <1>6, <1>7, <2>1, TellsCalmly
<1>9. PICK d2 : Agrees(c2, k, d2) /\ Calm(c1, d1, c2, d2)
  BY <1>8 DEF Goes
<1>10. Goes(k, c2, d2, c3)
  <2>1. i \in 1 .. Len(c2.blocks) /\ c2.blocks[i].kind # "thinking"
    BY <1>6, <1>8
  <2> QED
    BY ONLY <1>1, <1>9, <2>1, StopsCalmly
<1>11. PICK d3 : Agrees(c3, k, d3) /\ Calm(c2, d2, c3, d3)
  BY <1>10 DEF Goes
<1>12. Calm(c, e, c1, d1)
  BY ONLY Agrees(c, k, e), <1>5, <1>7, CalmOn
<1>13. Calm(c, e, c2, d2)
  BY ONLY Agrees(c, k, e), <1>7, <1>9, <1>12, CalmOn
<1>14. Calm(c, e, c3, d3)
  BY ONLY Agrees(c, k, e), <1>9, <1>11, <1>13, CalmOn
<1> QED
  BY <1>3, <1>11, <1>14 DEF Goes

LEMMA FineTextKept ==
  ASSUME NEW c, NEW c1, Fine(c, c1), NEW b \in Seq(TextCells)
  PROVE  Fine(c, [c1 EXCEPT !.sniffBuffer = b])
<1>1. PICK c2 : c2 = [c1 EXCEPT !.sniffBuffer = b]
  OBVIOUS
<1>2. Quiet(c1, c2)
  BY <1>1 DEF Quiet, Keeps, Fields, Loose
<1>3. Fine(c1, c2)
  BY <1>2, FineQuiet
<1> QED
  BY <1>1, <1>3, FineThen

LEMMA FineSniff ==
  ASSUME NEW r, r.b \in Seq(TextCells), NEW flush, NEW s, s = Sniff(r, flush)
  PROVE  Fine(r.c, s.c) /\ s.b \in Seq(TextCells)
<1>1. PICK c, b : c = r.c /\ b = r.b
  OBVIOUS
<1>2. b \in Seq(TextCells) /\ <<>> \in Seq(TextCells)
  BY <1>1
<1>3. /\ FindInvokeStart(b) \in Nat /\ PartialInvokeTag(b) \in 0 .. Len(b)
      /\ \A p : FindInvokeBlockEnd(b, p) \in Nat
  BY <1>2, InvokePositions
<1>4. CASE r.over
  <2>1. s = r
    BY <1>4 DEF Sniff
  <2> QED
    BY <2>1, FineSame
<1>5. CASE ~ r.over
  <2>1. PICK start, end, before :
          /\ start = FindInvokeStart(b) /\ end = FindInvokeBlockEnd(b, start)
          /\ before = StripTrailingStrayTokens(Upto(b, start - 1))
    OBVIOUS
  <2>2. start \in Nat /\ end \in Nat
    BY <1>3, <2>1
  <2>3. CASE start = 0
    <3>1. PICK keep : keep = IF flush THEN 0 ELSE PartialInvokeTag(b)
      OBVIOUS
    <3>2. s = [c |-> SniffText(c, b, keep), b |-> <<>>, over |-> TRUE]
      BY <1>1, <1>5, <2>1, <2>3, <3>1 DEF Sniff
    <3>3. Len(b) - keep + 1 \in Nat /\ Len(b) - keep + 1 > 0
      BY <1>2, <1>3, <3>1
    <3>4. From(b, Len(b) - keep + 1) \in Seq(TextCells)
      BY ONLY <1>2, <3>3, TextFrom, Zenon
    <3>5. Fine(c, SniffText(c, b, keep))
      BY <3>4, FineText, FineTextKept DEF SniffText
    <3> QED
      BY <1>1, <1>2, <3>2, <3>5
  <2>4. CASE start # 0 /\ end # 0
    <3>1. s = [c |-> SniffCall(c, b, start, end, before), b |-> From(b, end + 1), over |-> FALSE]
      BY <1>1, <1>5, <2>1, <2>4 DEF Sniff
    <3>2. end + 1 \in Nat /\ end + 1 > 0
      BY <2>2
    <3>3. From(b, end + 1) \in Seq(TextCells)
      BY ONLY <1>2, <3>2, TextFrom, Zenon
    <3>4. Fine(c, SynthesizeToolUse(EmitText(c, before)))
      <4>1. PICK c1 : c1 = EmitText(c, before)
        OBVIOUS
      <4>2. Fine(c, c1) /\ Fine(c1, SynthesizeToolUse(c1))
        BY <4>1, FineText, FineSynthesized
      <4> QED
        BY <4>1, <4>2, FineThen
    <3>5. Fine(c, SniffCall(c, b, start, end, before))
      BY <3>4, FineText DEF SniffCall
    <3> QED
      BY <1>1, <3>1, <3>3, <3>5
  <2>5. CASE start # 0 /\ end = 0 /\ IsLeak(c, before)
    <3>1. PICK held, ahead : held = From(b, start) /\ ahead = Upto(b, start - 1)
      OBVIOUS
    <3>2. s = [c |-> SniffHalfCall(c, ahead, held, flush), b |-> <<>>, over |-> TRUE]
      BY <1>1, <1>5, <2>1, <2>5, <3>1 DEF Sniff
    <3>3. held \in Seq(TextCells)
      BY <1>2, <2>2, <2>5, <3>1, TextFrom
    <3>4. Fine(c, EmitText(EmitText(c, ahead), held))
      <4>1. PICK c1 : c1 = EmitText(c, ahead)
        OBVIOUS
      <4>2. Fine(c, c1) /\ Fine(c1, EmitText(c1, held))
        BY <4>1, FineText
      <4> QED
        BY <4>1, <4>2, FineThen
    <3>5. Fine(c, [EmitText(c, ahead) EXCEPT !.sniffBuffer = held])
      BY <3>3, FineText, FineTextKept
    <3>6. Fine(c, SniffHalfCall(c, ahead, held, flush))
      BY <3>4, <3>5 DEF SniffHalfCall
    <3> QED
      BY <1>1, <1>2, <3>2, <3>6
  <2>6. CASE start # 0 /\ end = 0 /\ ~ IsLeak(c, before)
    <3>1. s = [c |-> EmitText(c, b), b |-> <<>>, over |-> TRUE]
      BY <1>1, <1>5, <2>1, <2>6 DEF Sniff
    <3> QED
      BY <1>1, <1>2, <3>1, FineText
  <2> QED
    BY <2>3, <2>4, <2>5, <2>6
<1> QED
  BY <1>4, <1>5

LEMMA FineDrain == ASSUME NEW c, NEW flush PROVE Fine(c, DrainSniffBuffer(c, flush))
<1> SUFFICES ASSUME c.sniffBuffer \in Seq(TextCells) PROVE Fine(c, DrainSniffBuffer(c, flush))
  BY DEF Fine, Agrees
<1>1. PICK n, c0, first :
        /\ n = Len(c.sniffBuffer) + 1 /\ c0 = [c EXCEPT !.sniffBuffer = <<>>]
        /\ first = [c |-> c0, b |-> c.sniffBuffer, over |-> FALSE]
  OBVIOUS
<1>2. n \in Nat
  BY <1>1
<1>3. PICK f : SniffsOn(first, flush, n, f) /\ DrainSniffBuffer(c, flush) = f[n].c
  BY <1>1, <1>2, DrainDefined
<1>4. \A j \in 0 .. n : f[j] = IF j = 0 THEN first ELSE Sniff(f[j - 1], flush)
  BY <1>3 DEF SniffsOn
<1> DEFINE P(j) == Fine(c, f[j].c) /\ f[j].b \in Seq(TextCells)
           T == {j \in Nat : j <= n /\ ~ P(j)}
<1>5. P(0)
  <2>1. f[0] = first
    BY <1>2, <1>4
  <2>2. Fine(c, c0)
    <3>1. <<>> \in Seq(TextCells)
      OBVIOUS
    <3> QED
      BY <1>1, <3>1, FineSame, FineTextKept
  <2> QED
    BY <1>1, <2>1, <2>2
<1>6. ASSUME NEW j \in Nat, j + 1 <= n, P(j)
      PROVE  P(j + 1)
  <2>1. PICK r, s : r = f[j] /\ s = f[j + 1]
    OBVIOUS
  <2>2. j + 1 \in 0 .. n /\ (j + 1) - 1 = j /\ j + 1 # 0
    BY <1>2, <1>6
  <2>3. s = Sniff(r, flush)
    BY <1>4, <2>1, <2>2
  <2>4. Fine(c, r.c) /\ r.b \in Seq(TextCells)
    BY <1>6, <2>1
  <2>5. Fine(r.c, s.c) /\ s.b \in Seq(TextCells)
    BY ONLY <2>3, <2>4, FineSniff
  <2>6. Fine(c, s.c)
    <3>1. PICK x, y : x = r.c /\ y = s.c
      OBVIOUS
    <3> QED
      BY <2>4, <2>5, <3>1, FineThen
  <2> QED
    BY <2>1, <2>5, <2>6
<1>7. T = {}
  <2> SUFFICES ASSUME T # {} PROVE FALSE
    OBVIOUS
  <2>1. PICK m \in T : \A x \in T : m <= x
    <3>1. T \subseteq Nat
      OBVIOUS
    <3> QED
      BY <3>1, Smallest
  <2>2. m \in Nat /\ m <= n /\ ~ P(m)
    OBVIOUS
  <2>3. m # 0
    BY <1>5, <2>2
  <2>4. m - 1 \in Nat /\ (m - 1) + 1 = m /\ ~ (m <= m - 1) /\ m - 1 <= n
    BY ONLY <1>2, <2>2, <2>3
  <2>5. P(m - 1)
    <3>1. m - 1 \notin T
      <4> HIDE DEF T
      <4> QED
        BY <2>1, <2>4
    <3> QED
      BY <2>4, <3>1
  <2> HIDE DEF P
  <2> QED
    BY <1>6, <2>2, <2>4, <2>5
<1> QED
  BY <1>2, <1>3, <1>7

LEMMA FineDelta == ASSUME NEW c, NEW text \in Seq(TextCells) PROVE Fine(c, TextDelta(c, text))
<1>1. CASE text = <<>>
  BY <1>1, FineSame DEF TextDelta
<1>2. CASE text # <<>>
  <2>1. PICK c1 : c1 = [c EXCEPT !.sniffBuffer = @ \o text]
    OBVIOUS
  <2>2. Quiet(c, c1)
    BY <2>1 DEF Quiet, Keeps, Fields, Loose
  <2>3. Fine(c, c1) /\ Fine(c1, DrainSniffBuffer(c1, FALSE))
    BY <2>2, FineQuiet, FineDrain
  <2>4. TextDelta(c, text) = DrainSniffBuffer(c1, FALSE)
    BY <1>2, <2>1 DEF TextDelta
  <2> QED
    BY <2>3, <2>4, FineThen
<1> QED
  BY <1>1, <1>2

-----------------------------------------------------------------------------
(* Thinking. *)

\* No block of thinking is open but the one that the context knows; the blocks it
\* has for thinking and for tools are of these kinds.
Placed(c) ==
  /\ DOMAIN c.toolIndices = ToolIds
  /\ \A id \in ToolIds : c.toolIndices[id] # 0 =>
       c.toolIndices[id] \in 1 .. Len(c.blocks) /\ c.blocks[c.toolIndices[id]].kind = "tool_use"
  /\ c.thinkingIndex # 0 =>
       c.thinkingIndex \in 1 .. Len(c.blocks) /\ c.blocks[c.thinkingIndex].kind = "thinking"
  /\ \A i \in 1 .. Len(c.blocks) :
       c.blocks[i].kind = "thinking" /\ c.blocks[i].open => i = c.thinkingIndex

\* Within tags the block is open, and once it has content something is held back:
\* it is not stopped before that has been looked at, and then it is signed.
Inside(c, e) ==
  c.inThinkingBlock =>
    /\ c.thinkingIndex # 0 /\ c.blocks[c.thinkingIndex].open
    /\ e.blocks[c.thinkingIndex].content # <<>> => c.thinkingBuffer # <<>> /\ ~ c.stripNewline

\* t: has the model said a tag?
Buffered(c, t) ==
  c.thinkingBuffer \in Seq(TextCells) /\ (c.inThinkingBlock \/ TagsIn(c.thinkingBuffer) => t)

InTurn(k, c, e, t) == Agrees(c, k, e) /\ Placed(c) /\ Inside(c, e) /\ Buffered(c, t)
Runs(k, c, t) == \E e : InTurn(k, c, e, t)

NoneOpen(c) == \A i \in 1 .. Len(c.blocks) : c.blocks[i].kind = "thinking" => ~ c.blocks[i].open

\* Fields that neither the client nor the blocks depend on.
Hidden == Fields \ {"started", "deltaSent", "ended", "blocks", "out", "sniffBuffer"}

LEMMA AgreesStill ==
  ASSUME NEW k, NEW c, NEW e, Agrees(c, k, e), NEW c2, Keeps(c, c2, Hidden)
  PROVE  Agrees(c2, k, e) /\ c2.blocks = c.blocks
<1>1. /\ c2.started = c.started /\ c2.deltaSent = c.deltaSent /\ c2.ended = c.ended
      /\ c2.blocks = c.blocks /\ c2.out = c.out /\ c2.sniffBuffer = c.sniffBuffer
      /\ DOMAIN c2 = Fields
  BY DEF Keeps, Hidden, Fields
<1> QED
  BY <1>1 DEF Agrees

LEMMA CalmKeeps ==
  ASSUME NEW k, NEW c, NEW e, Agrees(c, k, e), NEW c2, NEW e2, Agrees(c2, k, e2),
         Calm(c, e, c2, e2)
  PROVE  /\ Placed(c) => Placed(c2)
         /\ Placed(c) /\ Inside(c, e) => Inside(c2, e2)
         /\ NoneOpen(c) => NoneOpen(c2)
         /\ \A t : Buffered(c, t) => Buffered(c2, t)
<1>1. Len(c.blocks) \in Nat /\ Len(c2.blocks) \in Nat
  BY ListLength DEF Agrees
<1>2. /\ SameThinking(c, c2) /\ Len(c.blocks) <= Len(c2.blocks)
      /\ \A i \in 1 .. Len(c.blocks) : c2.blocks[i].kind = c.blocks[i].kind
      /\ \A i \in 1 .. Len(c2.blocks) : c2.blocks[i].kind = "thinking" =>
           i \in 1 .. Len(c.blocks) /\ c2.blocks[i] = c.blocks[i] /\ e2.blocks[i] = e.blocks[i]
  BY DEF Calm
<1>3. \A i \in 1 .. Len(c.blocks) : i \in 1 .. Len(c2.blocks)
  BY ONLY <1>1, <1>2
<1>4. ASSUME Placed(c) PROVE Placed(c2)
  <2>1. ASSUME NEW i \in 1 .. Len(c2.blocks), c2.blocks[i].kind = "thinking", c2.blocks[i].open
        PROVE  i = c2.thinkingIndex
    <3>1. i \in 1 .. Len(c.blocks) /\ c2.blocks[i] = c.blocks[i]
      BY <2>1 DEF Calm
    <3>2. i = c.thinkingIndex
      BY <1>4, <2>1, <3>1 DEF Placed
    <3> QED
      BY <1>2, <3>2 DEF SameThinking
  <2>2. ASSUME NEW id \in ToolIds, c2.toolIndices[id] # 0
        PROVE  c2.toolIndices[id] \in 1 .. Len(c2.blocks)
               /\ c2.blocks[c2.toolIndices[id]].kind = "tool_use"
    <3>1. PICK i : i = c2.toolIndices[id]
      OBVIOUS
    <3>2. i \in 1 .. Len(c.blocks) /\ c.blocks[i].kind = "tool_use"
      BY <1>2, <1>4, <2>2, <3>1 DEF Placed, SameThinking
    <3> QED
      BY <1>2, <1>3, <3>1, <3>2
  <2>3. ASSUME c2.thinkingIndex # 0
        PROVE  c2.thinkingIndex \in 1 .. Len(c2.blocks)
               /\ c2.blocks[c2.thinkingIndex].kind = "thinking"
    <3>1. PICK i : i = c2.thinkingIndex
      OBVIOUS
    <3>2. i \in 1 .. Len(c.blocks) /\ c.blocks[i].kind = "thinking"
      BY <1>2, <1>4, <2>3, <3>1 DEF Placed, SameThinking
    <3> QED
      BY <1>2, <1>3, <3>1, <3>2
  <2>4. DOMAIN c2.toolIndices = ToolIds
    BY <1>2, <1>4 DEF Placed, SameThinking
  <2> QED
    BY <2>1, <2>2, <2>3, <2>4 DEF Placed
<1>5. ASSUME Placed(c), Inside(c, e) PROVE Inside(c2, e2)
  <2>1. SUFFICES ASSUME c.inThinkingBlock PROVE Inside(c2, e2)
    BY <1>2 DEF Inside, SameThinking
  <2>2. PICK i : i = c.thinkingIndex
    OBVIOUS
  <2>3. i \in 1 .. Len(c.blocks) /\ c.blocks[i].kind = "thinking"
    BY <1>5, <2>1, <2>2 DEF Placed, Inside
  <2>4. c2.blocks[i] = c.blocks[i] /\ e2.blocks[i] = e.blocks[i]
    BY <1>2, <1>3, <2>3
  <2> QED
    BY <1>2, <1>5, <2>2, <2>4 DEF Inside, SameThinking
<1>6. ASSUME NoneOpen(c) PROVE NoneOpen(c2)
  <2>1. ASSUME NEW i \in 1 .. Len(c2.blocks), c2.blocks[i].kind = "thinking"
        PROVE  ~ c2.blocks[i].open
    <3>1. i \in 1 .. Len(c.blocks) /\ c2.blocks[i] = c.blocks[i]
      BY <2>1 DEF Calm
    <3> QED
      BY <1>6, <2>1, <3>1 DEF NoneOpen
  <2> QED
    BY <2>1 DEF NoneOpen
<1>7. ASSUME NEW t, Buffered(c, t) PROVE Buffered(c2, t)
  BY <1>2, <1>7 DEF Buffered, SameThinking
<1> QED
  BY <1>4, <1>5, <1>6, <1>7

\* What is fine leaves everything in order.
RunsAs(k, c, c2, t) == Runs(k, c2, t) /\ SameThinking(c, c2) /\ (NoneOpen(c) => NoneOpen(c2))

LEMMA FineRuns ==
  ASSUME NEW k, NEW c, NEW t, Runs(k, c, t), NEW c2, Fine(c, c2)
  PROVE  RunsAs(k, c, c2, t)
<1>1. PICK e : InTurn(k, c, e, t)
  BY DEF Runs
<1>2. PICK e2 : Agrees(c2, k, e2) /\ Calm(c, e, c2, e2)
  BY <1>1 DEF InTurn, Fine, Goes
<1>3. Agrees(c, k, e)
  BY <1>1 DEF InTurn
<1>4. /\ Placed(c) => Placed(c2)
      /\ Placed(c) /\ Inside(c, e) => Inside(c2, e2)
      /\ NoneOpen(c) => NoneOpen(c2)
      /\ \A u : Buffered(c, u) => Buffered(c2, u)
  BY ONLY <1>2, <1>3, CalmKeeps
<1>5. InTurn(k, c2, e2, t)
  BY <1>1, <1>2, <1>4 DEF InTurn
<1> QED
  BY <1>2, <1>4, <1>5 DEF Runs, RunsAs, Calm

\* The signature that the block of thinking gets before it is stopped.
HasClosed(k, c, c2) ==
  /\ \E e2 : Agrees(c2, k, e2)
  /\ Keeps(c, c2, {"blocks", "out"})
  /\ Replaced(c.blocks, c.thinkingIndex, [c.blocks[c.thinkingIndex] EXCEPT !.open = FALSE],
              c2.blocks)

LEMMA EndsThinking ==
  ASSUME NEW k, NEW c, NEW e, Agrees(c, k, e), c.thinkingIndex \in 1 .. Len(c.blocks),
         c.thinkingIndex # 0,
         c.blocks[c.thinkingIndex].kind = "thinking", c.blocks[c.thinkingIndex].open,
         NEW c2, c2 = EndThinkingBlock(c)
  PROVE  HasClosed(k, c, c2)
<1>1. PICK i, none, c0, c1 :
        /\ i = c.thinkingIndex /\ none = <<>>
        /\ c0 = Emit(c, DeltaEvent(i, "thinking_delta", none))
        /\ c1 = Emit(c0, DeltaEvent(i, "signature_delta", none))
  OBVIOUS
<1>2. /\ i \in 1 .. Len(c.blocks) /\ c.blocks[i].open /\ c.blocks[i].kind = "thinking"
      /\ c.blocks[i].kind # "redacted_thinking"
  BY <1>1
<1>3. PICK e0 : HasTold(k, c, e, c0, e0, i, "thinking_delta", none)
  BY ONLY Agrees(c, k, e), <1>1, <1>2, Tells
<1>4. Agrees(c0, k, e0) /\ Keeps(c, c0, {"out"})
  BY <1>3 DEF HasTold
<1>5. c0.thinkingIndex = i /\ c0.blocks = c.blocks
  BY <1>1, <1>4 DEF Keeps, Fields
<1>6. PICK e1 : HasTold(k, c0, e0, c1, e1, i, "signature_delta", none)
  <2>1. i \in 1 .. Len(c0.blocks) /\ c0.blocks[i].open /\ c0.blocks[i].kind # "redacted_thinking"
    BY <1>2, <1>5
  <2> QED
    BY ONLY <1>1, <1>4, <2>1, Tells
<1>7. Agrees(c1, k, e1) /\ Keeps(c0, c1, {"out"}) /\ Grew(e0, e1, i, "signature_delta", none)
  BY <1>6 DEF HasTold
<1>8. c1.thinkingIndex = i /\ c1.blocks = c.blocks
  BY <1>5, <1>7 DEF Keeps, Fields
<1>9. Signed(e1.blocks[i])
  <2>1. BlockOK(e0.blocks[i])
    BY <1>2, <1>4, <1>5 DEF Agrees, ViewOK
  <2>2. e1.blocks[i].signed
    BY <1>7, <2>1 DEF Grew, BlockOK, BlockFields
  <2> QED
    BY <2>2 DEF Signed
<1>10. c2 = ContentBlockStop(c1, i)
  <2>1. i # 0
    BY <1>1
  <2> QED
    BY <1>1, <1>5, <1>8, <2>1 DEF EndThinkingBlock, ThinkingDelta, SignatureDelta
<1>11. PICK e2 : HasStopped(k, c1, e1, c2, e2, i)
  <2>1. i \in 1 .. Len(c1.blocks) /\ c1.blocks[i].open
    BY <1>2, <1>8
  <2> QED
    BY ONLY <1>7, <1>9, <1>10, <2>1, Stops
<1>12. Keeps(c, c2, {"blocks", "out"})
  BY <1>4, <1>7, <1>11 DEF HasStopped, Keeps
<1> QED
  BY <1>1, <1>8, <1>11, <1>12 DEF HasStopped, HasClosed

\* Thinking that is not empty.
LEMMA TellsThought ==
  ASSUME NEW k, NEW c, NEW e, Agrees(c, k, e), c.thinkingIndex \in 1 .. Len(c.blocks),
         c.thinkingIndex # 0,
         c.blocks[c.thinkingIndex].kind = "thinking", c.blocks[c.thinkingIndex].open,
         NEW text, NEW c2, c2 = ThinkingDelta(c, text)
  PROVE  Keeps(c, c2, {"out"}) /\ \E e2 : Agrees(c2, k, e2)
<1>1. PICK i : i = c.thinkingIndex
  OBVIOUS
<1>2. c.blocks[i].kind # "redacted_thinking" /\ i \in 1 .. Len(c.blocks) /\ c.blocks[i].open
  BY <1>1
<1>3. c2 = Emit(c, DeltaEvent(i, "thinking_delta", text))
  BY <1>1 DEF ThinkingDelta
<1>4. PICK e2 : HasTold(k, c, e, c2, e2, i, "thinking_delta", text)
  BY ONLY Agrees(c, k, e), <1>2, <1>3, Tells
<1> QED
  BY <1>4 DEF HasTold

LEMMA RunsMore ==
  ASSUME NEW k, NEW c, NEW t, Runs(k, c, t), NEW u, t => u
  PROVE  Runs(k, c, u)
BY DEF Runs, InTurn, Buffered

\* The fields of the thinking but for its buffer.
SameState(c, c2) ==
  /\ c2.thinkingEnabled = c.thinkingEnabled /\ c2.inThinkingBlock = c.inThinkingBlock
  /\ c2.thinkingExtracted = c.thinkingExtracted /\ c2.stripNewline = c.stripNewline
  /\ c2.thinkingIndex = c.thinkingIndex

\* c2 is c with the buffer b.
HasBuffer(k, c, c2, t, b) ==
  /\ Runs(k, c2, t) /\ SameState(c, c2) /\ c2.thinkingBuffer = b /\ (NoneOpen(c) => NoneOpen(c2))

MayBuffer(c, b, t) ==
  /\ b \in Seq(TextCells) /\ (TagsIn(b) => t)
  /\ (c.inThinkingBlock /\ c.thinkingBuffer # <<>> => b # <<>>)

LEMMA BufferSet ==
  ASSUME NEW k, NEW c, NEW t, Runs(k, c, t), NEW u, t => u, NEW b, MayBuffer(c, b, u),
         NEW c2, DOMAIN c = Fields => Keeps(c, c2, {"thinkingBuffer"}) /\ c2.thinkingBuffer = b
  PROVE  HasBuffer(k, c, c2, u, b)
<1>1. PICK e : InTurn(k, c, e, t)
  BY DEF Runs
<1>2. Agrees(c, k, e) /\ DOMAIN c = Fields
  BY <1>1 DEF InTurn, Agrees
<1>3. Keeps(c, c2, {"thinkingBuffer"}) /\ c2.thinkingBuffer = b
  BY <1>2
<1>4. Keeps(c, c2, Hidden)
  BY <1>3 DEF Keeps, Hidden, Fields
<1>5. Agrees(c2, k, e) /\ c2.blocks = c.blocks
  BY ONLY <1>2, <1>4, AgreesStill
<1>6. SameState(c, c2) /\ c2.toolIndices = c.toolIndices
  BY <1>3 DEF Keeps, Fields, SameState
<1>7. Placed(c2) /\ Inside(c2, e) /\ Buffered(c2, u)
  BY <1>1, <1>3, <1>5, <1>6 DEF InTurn, Placed, Inside, Buffered, SameState, MayBuffer
<1> QED
  BY <1>3, <1>5, <1>6, <1>7 DEF Runs, InTurn, NoneOpen, HasBuffer

LEMMA BufferIs ==
  ASSUME NEW k, NEW c, NEW t, Runs(k, c, t), NEW u, t => u, NEW b, MayBuffer(c, b, u),
         NEW c2, c2 = [c EXCEPT !.thinkingBuffer = b]
  PROVE  HasBuffer(k, c, c2, u, b)
<1>1. DOMAIN c = Fields => Keeps(c, c2, {"thinkingBuffer"}) /\ c2.thinkingBuffer = b
  BY DEF Keeps, Fields
<1> QED
  BY ONLY Runs(k, c, t), t => u, MayBuffer(c, b, u), <1>1, BufferSet, Zenon

\* Once the block of thinking is stopped none is open.
LEMMA ClosedPlaced ==
  ASSUME NEW k, NEW c, NEW e, Agrees(c, k, e), Placed(c), c.thinkingIndex # 0,
         NEW c2, HasClosed(k, c, c2)
  PROVE  Placed(c2) /\ NoneOpen(c2)
<1>1. PICK i : i = c.thinkingIndex
  OBVIOUS
<1>2. i \in 1 .. Len(c.blocks) /\ c.blocks[i].kind = "thinking" /\ DOMAIN c.blocks[i] = {"kind", "open"}
  BY <1>1 DEF Placed, Agrees, SameBlock
<1>3. Replaced(c.blocks, i, [c.blocks[i] EXCEPT !.open = FALSE], c2.blocks)
  BY <1>1 DEF HasClosed
<1>4. c2.thinkingIndex = i /\ c2.toolIndices = c.toolIndices
  BY <1>1 DEF HasClosed, Keeps, Fields
<1>5. /\ Len(c2.blocks) = Len(c.blocks) /\ c2.blocks[i].kind = "thinking" /\ ~ c2.blocks[i].open
      /\ \A j \in 1 .. Len(c.blocks) : j # i => c2.blocks[j] = c.blocks[j]
  BY <1>2, <1>3 DEF Replaced
<1>6. NoneOpen(c2)
  <2>1. ASSUME NEW j \in 1 .. Len(c2.blocks), c2.blocks[j].kind = "thinking"
        PROVE  ~ c2.blocks[j].open
    <3>1. CASE j = i
      BY <1>5, <3>1
    <3>2. CASE j # i
      <4>1. j \in 1 .. Len(c.blocks) /\ c2.blocks[j] = c.blocks[j]
        BY <1>5, <2>1, <3>2
      <4> QED
        BY <1>1, <2>1, <3>2, <4>1 DEF Placed
    <3> QED
      BY <3>1, <3>2
  <2> QED
    BY <2>1 DEF NoneOpen
<1>7. \A j \in 1 .. Len(c.blocks) : c2.blocks[j].kind = c.blocks[j].kind
  BY <1>2, <1>5
<1>8. Placed(c2)
  <2>1. \A id \in ToolIds : c2.toolIndices[id] # 0 =>
          c2.toolIndices[id] \in 1 .. Len(c2.blocks)
          /\ c2.blocks[c2.toolIndices[id]].kind = "tool_use"
    BY <1>4, <1>5, <1>7 DEF Placed
  <2>2. DOMAIN c2.toolIndices = ToolIds
    BY <1>4 DEF Placed
  <2> QED
    BY <1>2, <1>4, <1>5, <1>6, <2>1, <2>2 DEF Placed, NoneOpen
<1> QED
  BY <1>6, <1>8

LEMMA ClosesThinking ==
  ASSUME NEW k, NEW c, NEW t, Runs(k, c, t), ~ c.inThinkingBlock,
         NEW c2, c2 = CloseOpenThinkingBlock(c)
  PROVE  RunsAs(k, c, c2, t) /\ NoneOpen(c2)
<1>1. PICK e : InTurn(k, c, e, t)
  BY DEF Runs
<1>2. Agrees(c, k, e) /\ Placed(c) /\ DOMAIN c.blocks = 1 .. Len(c.blocks)
  BY <1>1, ListLength DEF InTurn, Agrees
<1>3. CASE ~ IsThinkingBlockOpen(c)
  <2>1. c2 = c
    BY <1>3 DEF CloseOpenThinkingBlock
  <2>2. NoneOpen(c)
    <3>1. ASSUME NEW j \in 1 .. Len(c.blocks), c.blocks[j].kind = "thinking", c.blocks[j].open
          PROVE  FALSE
      <4>1. j = c.thinkingIndex
        BY <1>2, <3>1 DEF Placed
      <4> QED
        BY <1>2, <1>3, <3>1, <4>1 DEF IsThinkingBlockOpen, IsBlockOpenOfType
    <3> QED
      BY <3>1 DEF NoneOpen
  <2> QED
    BY <2>1, <2>2, FineSame, FineRuns
<1>4. CASE IsThinkingBlockOpen(c)
  <2>1. PICK c0 : c0 = [c EXCEPT !.signature = "placeholder"]
    OBVIOUS
  <2>2. c2 = EndThinkingBlock(c0)
    BY <1>4, <2>1 DEF CloseOpenThinkingBlock
  <2>3. Fine(c, c0)
    <3>1. Quiet(c, c0)
      BY <2>1 DEF Quiet, Keeps, Fields, Loose
    <3> QED
      BY <3>1, FineQuiet
  <2>4. RunsAs(k, c, c0, t)
    BY <2>3, FineRuns
  <2>5. PICK e0 : InTurn(k, c0, e0, t)
    BY <2>4 DEF RunsAs, Runs
  <2>6. c0.blocks = c.blocks /\ c0.thinkingIndex = c.thinkingIndex
    BY <1>2, <2>1 DEF Agrees, Fields
  <2>7. Agrees(c0, k, e0) /\ Placed(c0) /\ Buffered(c0, t)
    BY <2>5 DEF InTurn
  <2>8. /\ c0.thinkingIndex \in 1 .. Len(c0.blocks) /\ c0.thinkingIndex # 0
        /\ c0.blocks[c0.thinkingIndex].kind = "thinking" /\ c0.blocks[c0.thinkingIndex].open
    BY <1>2, <1>4, <2>6 DEF IsThinkingBlockOpen, IsBlockOpenOfType
  <2>9. HasClosed(k, c0, c2)
    BY ONLY <2>2, <2>7, <2>8, EndsThinking
  <2>10. Placed(c2) /\ NoneOpen(c2)
    BY ONLY <2>7, <2>8, <2>9, ClosedPlaced
  <2>11. SameThinking(c0, c2)
    BY <2>9 DEF HasClosed, Keeps, Fields, SameThinking
  <2>12. SameThinking(c, c2)
    BY <2>4, <2>11 DEF RunsAs, SameThinking
  <2>13. PICK e2 : Agrees(c2, k, e2)
    BY <2>9 DEF HasClosed
  <2>14. Inside(c2, e2) /\ Buffered(c2, t)
    BY <2>7, <2>11, <2>12 DEF Inside, Buffered, SameThinking
  <2> QED
    BY <2>10, <2>12, <2>13, <2>14 DEF Runs, RunsAs, InTurn
<1> QED
  BY <1>3, <1>4

LEMMA EndsNative ==
  ASSUME NEW k, NEW c, NEW t, Runs(k, c, t), NEW c2, c2 = EndNativeThinking(c)
  PROVE  RunsAs(k, c, c2, t) /\ (~ c.inThinkingBlock => NoneOpen(c2))
<1>1. CASE c.inThinkingBlock
  <2>1. c2 = c
    BY <1>1 DEF EndNativeThinking
  <2> QED
    BY <1>1, <2>1, FineSame, FineRuns
<1>2. CASE ~ c.inThinkingBlock
  <2>1. c2 = CloseOpenThinkingBlock(c)
    BY <1>2 DEF EndNativeThinking
  <2> QED
    BY ONLY Runs(k, c, t), <1>2, <2>1, ClosesThinking
<1> QED
  BY <1>1, <1>2

LEMMA FineCloseText == ASSUME NEW c PROVE Fine(c, CloseOpenTextBlock(c))
<1>1. PICK c1 : c1 = [c EXCEPT !.textIndex = 0]
  OBVIOUS
<1>2. Fine(c, c1)
  <2>1. Quiet(c, c1)
    BY <1>1 DEF Quiet, Keeps, Fields, Loose
  <2> QED
    BY <2>1, FineQuiet
<1>3. CASE ~ IsBlockOpenOfType(c, c.textIndex, "text")
  BY <1>1, <1>2, <1>3 DEF CloseOpenTextBlock
<1>4. CASE IsBlockOpenOfType(c, c.textIndex, "text")
  <2> SUFFICES ASSUME NEW k, NEW e, Agrees(c, k, e)
               PROVE  Goes(k, c, e, CloseOpenTextBlock(c))
    BY DEF Fine
  <2>1. PICK i, c2 : i = c.textIndex /\ c2 = ContentBlockStop(c1, i)
    OBVIOUS
  <2>2. CloseOpenTextBlock(c) = c2
    BY <1>1, <1>4, <2>1 DEF CloseOpenTextBlock
  <2>3. PICK d : Agrees(c1, k, d) /\ Calm(c, e, c1, d)
    BY <1>2 DEF Fine, Goes
  <2>4. i \in 1 .. Len(c1.blocks) /\ c1.blocks[i].kind # "thinking"
    <3>1. DOMAIN c = Fields /\ DOMAIN c.blocks = 1 .. Len(c.blocks)
      BY ListLength DEF Agrees
    <3>2. c1.blocks = c.blocks
      BY <1>1, <3>1 DEF Fields
    <3> QED
      BY <1>4, <2>1, <3>1, <3>2 DEF IsBlockOpenOfType
  <2>5. Goes(k, c1, d, c2)
    BY ONLY <2>1, <2>3, <2>4, StopsCalmly
  <2>6. PICK g : Agrees(c2, k, g) /\ Calm(c1, d, c2, g)
    BY <2>5 DEF Goes
  <2>7. Calm(c, e, c2, g)
    BY ONLY Agrees(c, k, e), <2>3, <2>6, CalmOn
  <2> QED
    BY <2>2, <2>6, <2>7 DEF Goes
<1> QED
  BY <1>3, <1>4

\* Parts of a text.
PartOf(b, part) == part \in Seq(TextCells) /\ (TagsIn(part) => TagsIn(b))

LEMMA FromPart ==
  ASSUME NEW b \in Seq(TextCells), NEW m \in Nat, m > 0
  PROVE  PartOf(b, From(b, m))
<1>1. PICK part : part = From(b, m)
  OBVIOUS
<1>2. part \in Seq(TextCells)
  BY <1>1, TextFrom
<1>3. ASSUME NEW i \in DOMAIN part, part[i] = "<think"
      PROVE  TagsIn(b)
  <2>1. i \in 1 .. Len(b) - m + 1 /\ m + i - 1 \in DOMAIN b /\ part[i] = b[m + i - 1]
    BY <1>1 DEF From
  <2> QED
    BY <1>3, <2>1 DEF TagsIn
<1> QED
  BY <1>1, <1>2, <1>3 DEF PartOf, TagsIn

LEMMA UptoPart ==
  ASSUME NEW b \in Seq(TextCells), NEW n \in Int, n <= Len(b)
  PROVE  PartOf(b, Upto(b, n))
<1>1. PICK part : part = Upto(b, n)
  OBVIOUS
<1>2. part \in Seq(TextCells)
  BY <1>1 DEF Upto
<1>3. ASSUME NEW i \in DOMAIN part, part[i] = "<think"
      PROVE  TagsIn(b)
  <2>1. i \in DOMAIN b /\ part[i] = b[i]
    BY <1>1 DEF Upto
  <2> QED
    BY <1>3, <2>1 DEF TagsIn
<1> QED
  BY <1>1, <1>2, <1>3 DEF PartOf, TagsIn

LEMMA NoText == <<>> \in Seq(TextCells) /\ ~ TagsIn(<<>>)
BY DEF TagsIn

LEMMA JoinedText ==
  ASSUME NEW a \in Seq(TextCells), NEW b \in Seq(TextCells)
  PROVE  /\ a \o b \in Seq(TextCells) /\ (TagsIn(a \o b) <=> TagsIn(a) \/ TagsIn(b))
         /\ (a # <<>> => a \o b # <<>>)
<1>1. PICK j : j = a \o b
  OBVIOUS
<1>2. /\ j \in Seq(TextCells) /\ Len(j) = Len(a) + Len(b) /\ DOMAIN j = 1 .. Len(j)
      /\ \A i \in 1 .. Len(a) : j[i] = a[i]
      /\ \A i \in 1 .. Len(b) : j[Len(a) + i] = b[i]
  BY <1>1
<1>3. DOMAIN a = 1 .. Len(a) /\ DOMAIN b = 1 .. Len(b) /\ Len(a) \in Nat /\ Len(b) \in Nat
  OBVIOUS
<1>4. \A i \in 1 .. Len(a) : i \in 1 .. Len(j)
  BY <1>2, <1>3
<1>5. \A i \in 1 .. Len(b) : Len(a) + i \in 1 .. Len(j)
  BY <1>2, <1>3
<1>6. \A i \in 1 .. Len(j) : i \in 1 .. Len(a) \/ (i - Len(a) \in 1 .. Len(b) /\ i = Len(a) + (i - Len(a)))
  BY <1>2, <1>3
<1>7. TagsIn(a) \/ TagsIn(b) => TagsIn(j)
  BY <1>2, <1>3, <1>4, <1>5 DEF TagsIn
<1>8. TagsIn(j) => TagsIn(a) \/ TagsIn(b)
  <2>1. ASSUME NEW i \in 1 .. Len(j), j[i] = "<think" PROVE TagsIn(a) \/ TagsIn(b)
    <3>1. CASE i \in 1 .. Len(a)
      BY <1>2, <1>3, <2>1, <3>1 DEF TagsIn
    <3>2. CASE i \notin 1 .. Len(a)
      <4>1. PICK x : x = i - Len(a)
        OBVIOUS
      <4>2. x \in 1 .. Len(b) /\ i = Len(a) + x
        BY <1>6, <3>2, <4>1
      <4>3. b[x] = "<think"
        BY <1>2, <2>1, <4>2
      <4> QED
        BY <1>3, <4>2, <4>3 DEF TagsIn
    <3> QED
      BY <3>1, <3>2
  <2> QED
    BY <1>2, <2>1 DEF TagsIn
<1>9. a # <<>> => j # <<>>
  BY <1>2, <1>3
<1> QED
  BY <1>1, <1>2, <1>7, <1>8, <1>9

LEMMA TagPositions ==
  ASSUME NEW b \in Seq(TextCells)
  PROVE  /\ FindStartTag(b) \in Nat /\ (FindStartTag(b) # 0 => TagsIn(b))
         /\ FindStartTag(b) <= Len(b) + 1
         /\ FindEndTag(b) \in Nat /\ FindEndTag(b) <= Len(b) + 1
         /\ FindEndTagAtBufferEnd(b) \in Nat /\ FindEndTagAtBufferEnd(b) <= Len(b) + 1
<1>1. DOMAIN b = 1 .. Len(b) /\ Len(b) \in Nat
  OBVIOUS
<1>2. ASSUME NEW S, S \subseteq DOMAIN b
      PROVE  First(S) \in Nat /\ First(S) <= Len(b) + 1 /\ (First(S) # 0 => First(S) \in S)
  <2>1. S \subseteq Nat
    BY <1>1, <1>2
  <2>2. IsFirst(S, First(S))
    BY ONLY <2>1, FirstPosition, Zenon
  <2>3. PICK i : i = First(S)
    OBVIOUS
  <2>4. i \in Nat /\ (i # 0 => i \in S)
    BY <2>2, <2>3 DEF IsFirst
  <2>5. i # 0 => i <= Len(b)
    BY <1>1, <1>2, <2>4
  <2>6. i <= Len(b) + 1
    BY ONLY <1>1, <2>4, <2>5
  <2> QED
    BY ONLY <2>3, <2>4, <2>6
<1>3. /\ FindStartTag(b) \in Nat /\ FindStartTag(b) <= Len(b) + 1
      /\ (FindStartTag(b) # 0 => TagsIn(b))
  <2>1. PICK S : S = {i \in DOMAIN b : Unquoted(b, i, StartTag)}
    OBVIOUS
  <2>2. First(S) \in Nat /\ First(S) <= Len(b) + 1 /\ (First(S) # 0 => First(S) \in S)
    BY <1>2, <2>1
  <2>3. PICK i : i = First(S)
    OBVIOUS
  <2>4. FindStartTag(b) = i
    BY <2>1, <2>3 DEF FindStartTag
  <2>5. ASSUME i # 0 PROVE TagsIn(b)
    <3>1. i \in 1 .. Len(b) /\ At(b, i, StartTag)
      BY <1>1, <2>1, <2>2, <2>3, <2>5 DEF Unquoted
    <3>2. Len(StartTag) = 2 /\ StartTag[1] = "<think"
      BY DEF StartTag
    <3>3. i + 2 - 1 <= Len(b) /\ SubSeq(b, i, i + 2 - 1) = StartTag
      BY <3>1, <3>2 DEF At
    <3>4. SubSeq(b, i, i + 2 - 1)[1] = b[i]
      BY <1>1, <3>1, <3>3
    <3> QED
      BY <1>1, <3>1, <3>2, <3>3, <3>4 DEF TagsIn
  <2> QED
    BY <2>2, <2>3, <2>4, <2>5
<1>4. FindEndTag(b) \in Nat /\ FindEndTag(b) <= Len(b) + 1
  <2>1. PICK S : S = {i \in DOMAIN b : Unquoted(b, i, EndTag) /\ At(b, i + 2, <<"n", "n">>)}
    OBVIOUS
  <2>2. FindEndTag(b) = First(S)
    BY <2>1 DEF FindEndTag
  <2> QED
    BY <1>2, <2>1, <2>2
<1>5. FindEndTagAtBufferEnd(b) \in Nat /\ FindEndTagAtBufferEnd(b) <= Len(b) + 1
  <2>1. PICK S : S = {i \in DOMAIN b : Unquoted(b, i, EndTag) /\ IsBlank(From(b, i + 2))}
    OBVIOUS
  <2>2. FindEndTagAtBufferEnd(b) = First(S)
    BY <2>1 DEF FindEndTagAtBufferEnd
  <2> QED
    BY <1>2, <2>1, <2>2
<1> QED
  BY <1>3, <1>4, <1>5

LEMMA Trimmed == ASSUME NEW b \in Seq(TextCells) PROVE TrimStart(b) \in Seq(TextCells)
<1> DEFINE S == {i \in DOMAIN b : b[i] \notin Blank}
<1>1. CASE S = {}
  BY <1>1, NoText DEF TrimStart
<1>2. CASE S # {}
  <2>1. S \subseteq Nat
    OBVIOUS
  <2>2. \E m \in S : \A x \in S : m <= x
    <3> HIDE DEF S
    <3> QED
      BY <1>2, <2>1, Smallest
  <2>3. Min(S) \in S
    BY <2>2 DEF Min
  <2>4. PICK m : m = Min(S)
    OBVIOUS
  <2>5. m \in Nat /\ m > 0
    BY <2>3, <2>4
  <2>6. From(b, m) \in Seq(TextCells)
    BY <2>5, TextFrom
  <2> QED
    BY <1>2, <2>4, <2>6 DEF TrimStart
<1> QED
  BY <1>1, <1>2

\* What the functions for text and thinking leave in order.
RunsIn(k, c, c2, t) == Runs(k, c2, t) /\ SameState(c, c2) /\ (NoneOpen(c) => NoneOpen(c2))

LEMMA RunsText ==
  ASSUME NEW k, NEW c, NEW t, Runs(k, c, t), NEW text \in Seq(TextCells),
         NEW c2, c2 = TextDelta(c, text)
  PROVE  RunsAs(k, c, c2, t)
<1>1. Fine(c, c2)
  BY FineDelta
<1> QED
  BY ONLY <1>1, Runs(k, c, t), FineRuns

LEMMA FlushesBuffer ==
  ASSUME NEW k, NEW c, NEW t, Runs(k, c, t), ~ c.inThinkingBlock, NEW text \in Seq(TextCells),
         NEW c2, c2 = TextDelta([c EXCEPT !.thinkingBuffer = <<>>], text)
  PROVE  RunsIn(k, c, c2, t)
<1>1. PICK b : b = <<>>
  OBVIOUS
<1>2. MayBuffer(c, b, t) /\ (t => t)
  BY <1>1, NoText DEF MayBuffer
<1>3. PICK c1 : c1 = [c EXCEPT !.thinkingBuffer = b]
  OBVIOUS
<1>4. HasBuffer(k, c, c1, t, b)
  BY ONLY Runs(k, c, t), <1>2, <1>3, BufferIs, Zenon
<1>5. Runs(k, c1, t) /\ SameState(c, c1) /\ (NoneOpen(c) => NoneOpen(c1))
  BY <1>4 DEF HasBuffer
<1>6. c2 = TextDelta(c1, text)
  BY <1>1, <1>3
<1>7. RunsAs(k, c1, c2, t)
  BY ONLY <1>5, <1>6, text \in Seq(TextCells), RunsText
<1> QED
  BY <1>5, <1>7 DEF RunsAs, RunsIn, SameThinking, SameState

LEMMA RunsBehind ==
  ASSUME NEW k, NEW c, NEW t, Runs(k, c, t), ~ c.inThinkingBlock,
         NEW c2, c2 = ContentBehind(c)
  PROVE  RunsIn(k, c, c2, t)
<1>1. PICK text : text = c.thinkingBuffer
  OBVIOUS
<1>2. text \in Seq(TextCells)
  BY <1>1 DEF Runs, InTurn, Buffered
<1>3. c2 = TextDelta([c EXCEPT !.thinkingBuffer = <<>>], text)
  BY <1>1 DEF ContentBehind
<1> QED
  BY ONLY Runs(k, c, t), ~ c.inThinkingBlock, <1>2, <1>3, FlushesBuffer

\* A context within the tags of a thought.
Thinking(k, c, e, t) ==
  /\ InTurn(k, c, e, t) /\ c.inThinkingBlock
  /\ c.thinkingIndex \in 1 .. Len(c.blocks) /\ c.thinkingIndex # 0
  /\ c.blocks[c.thinkingIndex].kind = "thinking" /\ c.blocks[c.thinkingIndex].open

LEMMA WithinTags ==
  ASSUME NEW k, NEW c, NEW t, Runs(k, c, t), c.inThinkingBlock
  PROVE  \E e : Thinking(k, c, e, t)
<1>1. PICK e : InTurn(k, c, e, t)
  BY DEF Runs
<1> QED
  BY <1>1 DEF InTurn, Placed, Inside, Thinking

LEMMA LeavesThinking ==
  ASSUME NEW k, NEW c, NEW t, Runs(k, c, t), c.inThinkingBlock,
         NEW end \in Nat, NEW skip \in Nat, skip > 0, NEW c2, c2 = LeaveThinking(c, end, skip)
  PROVE  /\ Runs(k, c2, t) /\ NoneOpen(c2) /\ ~ c2.inThinkingBlock
         /\ c2.thinkingEnabled = c.thinkingEnabled
<1>1. PICK e : Thinking(k, c, e, t)
  BY WithinTags
<1>2. PICK text, c0, c1 :
        /\ text = Upto(c.thinkingBuffer, end - 1) /\ c0 = ThinkingText(c, text)
        /\ c1 = EndThinkingBlock(c0)
  OBVIOUS
<1>3. Agrees(c, k, e) /\ Placed(c) /\ Buffered(c, t) /\ DOMAIN c = Fields
  BY <1>1 DEF Thinking, InTurn, Agrees
<1>4. Keeps(c, c0, {"out"}) /\ \E e0 : Agrees(c0, k, e0)
  <2>1. CASE text = <<>>
    BY <1>2, <1>3, <2>1 DEF ThinkingText, Keeps
  <2>2. CASE text # <<>>
    <3>1. c0 = ThinkingDelta(c, text)
      BY <1>2, <2>2 DEF ThinkingText
    <3>2. /\ c.thinkingIndex \in 1 .. Len(c.blocks) /\ c.thinkingIndex # 0
          /\ c.blocks[c.thinkingIndex].kind = "thinking" /\ c.blocks[c.thinkingIndex].open
      BY <1>1 DEF Thinking
    <3> QED
      BY ONLY <1>3, <3>1, <3>2, TellsThought
  <2> QED
    BY <2>1, <2>2
<1>5. PICK e0 : Agrees(c0, k, e0)
  BY <1>4
<1>6. /\ c0.blocks = c.blocks /\ c0.thinkingIndex = c.thinkingIndex
      /\ c0.toolIndices = c.toolIndices /\ c0.thinkingBuffer = c.thinkingBuffer
      /\ c0.thinkingEnabled = c.thinkingEnabled
  BY <1>4 DEF Keeps, Fields
<1>7. Placed(c0)
  BY <1>3, <1>6 DEF Placed
<1>8. /\ c0.thinkingIndex \in 1 .. Len(c0.blocks) /\ c0.thinkingIndex # 0
      /\ c0.blocks[c0.thinkingIndex].kind = "thinking" /\ c0.blocks[c0.thinkingIndex].open
  BY <1>1, <1>6 DEF Thinking
<1>9. HasClosed(k, c0, c1)
  BY ONLY <1>2, <1>5, <1>8, EndsThinking
<1>10. Placed(c1) /\ NoneOpen(c1)
  BY ONLY <1>5, <1>7, <1>8, <1>9, ClosedPlaced
<1>11. PICK e1 : Agrees(c1, k, e1)
  BY <1>9 DEF HasClosed
<1>12. /\ c1.thinkingBuffer = c.thinkingBuffer /\ c1.thinkingEnabled = c.thinkingEnabled
       /\ DOMAIN c1 = Fields
  BY <1>6, <1>9 DEF HasClosed, Keeps, Fields
<1>13. c2 = [c1 EXCEPT !.inThinkingBlock = FALSE, !.thinkingExtracted = TRUE,
                       !.thinkingBuffer = From(@, end + skip)]
  BY <1>2 DEF LeaveThinking
<1>14. /\ Keeps(c1, c2, {"inThinkingBlock", "thinkingExtracted", "thinkingBuffer"})
       /\ ~ c2.inThinkingBlock /\ c2.thinkingBuffer = From(c.thinkingBuffer, end + skip)
  <2>1. PICK b : b = From(c.thinkingBuffer, end + skip)
    OBVIOUS
  <2>2. c2 = [c1 EXCEPT !.inThinkingBlock = FALSE, !.thinkingExtracted = TRUE,
                        !.thinkingBuffer = b]
    BY <1>12, <1>13, <2>1
  <2>3. /\ Keeps(c1, c2, {"inThinkingBlock", "thinkingExtracted", "thinkingBuffer"})
        /\ ~ c2.inThinkingBlock /\ c2.thinkingBuffer = b
    BY ONLY <1>12, <2>2 DEF Keeps, Fields
  <2> QED
    BY ONLY <2>1, <2>3
<1>15. Keeps(c1, c2, Hidden)
  BY <1>14 DEF Keeps, Hidden, Fields
<1>16. Agrees(c2, k, e1) /\ c2.blocks = c1.blocks
  BY ONLY <1>11, <1>15, AgreesStill
<1>17. /\ c2.thinkingIndex = c1.thinkingIndex /\ c2.toolIndices = c1.toolIndices
       /\ c2.thinkingEnabled = c1.thinkingEnabled
  BY <1>14 DEF Keeps, Fields
<1>18. Placed(c2) /\ NoneOpen(c2)
  BY <1>10, <1>16, <1>17 DEF Placed, NoneOpen
<1>19. Buffered(c2, t)
  <2>1. PICK b, m : b = c.thinkingBuffer /\ m = end + skip
    OBVIOUS
  <2>2. b \in Seq(TextCells) /\ m \in Nat /\ m > 0
    BY <1>3, <2>1 DEF Buffered
  <2>3. PartOf(b, From(b, m))
    BY ONLY <2>2, FromPart
  <2> QED
    BY <1>3, <1>14, <2>1, <2>3 DEF Buffered, PartOf
<1>20. Inside(c2, e1)
  BY <1>14 DEF Inside
<1> QED
  BY <1>12, <1>14, <1>16, <1>17, <1>18, <1>19, <1>20 DEF Runs, InTurn

\* The newline behind the tag.
LEMMA StripsNewline ==
  ASSUME NEW k, NEW c, NEW t, Runs(k, c, t), c.inThinkingBlock, NEW c2, c2 = StripNewline(c)
  PROVE  /\ Runs(k, c2, t) /\ c2.inThinkingBlock /\ (c2.stripNewline => c2.thinkingBuffer = <<>>)
         /\ c2.thinkingEnabled = c.thinkingEnabled
<1>1. CASE ~ c.stripNewline \/ c.thinkingBuffer = <<>>
  <2>1. c2 = c
    BY <1>1 DEF StripNewline
  <2> QED
    BY <1>1, <2>1
<1>2. CASE c.stripNewline /\ c.thinkingBuffer # <<>>
  <2>1. PICK e : Thinking(k, c, e, t)
    BY WithinTags
  <2>2. PICK b, b2 : b = c.thinkingBuffer /\ b2 = IF b[1] = "n" THEN From(b, 2) ELSE b
    OBVIOUS
  <2>3. Agrees(c, k, e) /\ Placed(c) /\ Inside(c, e) /\ Buffered(c, t) /\ DOMAIN c = Fields
    BY <2>1 DEF Thinking, InTurn, Agrees
  <2>4. c2 = [c EXCEPT !.stripNewline = FALSE, !.thinkingBuffer = b2]
    BY <1>2, <2>2 DEF StripNewline
  <2>5. Keeps(c, c2, {"stripNewline", "thinkingBuffer"}) /\ ~ c2.stripNewline
        /\ c2.thinkingBuffer = b2
    BY <2>3, <2>4 DEF Keeps, Fields
  <2>6. Keeps(c, c2, Hidden)
    BY <2>5 DEF Keeps, Hidden, Fields
  <2>7. Agrees(c2, k, e) /\ c2.blocks = c.blocks
    BY ONLY <2>3, <2>6, AgreesStill
  <2>8. /\ c2.thinkingIndex = c.thinkingIndex /\ c2.toolIndices = c.toolIndices
        /\ c2.thinkingEnabled = c.thinkingEnabled /\ c2.inThinkingBlock = c.inThinkingBlock
    BY <2>5 DEF Keeps, Fields
  <2>9. Placed(c2)
    BY <2>3, <2>7, <2>8 DEF Placed
  <2>10. Buffered(c2, t)
    <3>1. b \in Seq(TextCells)
      BY <2>2, <2>3 DEF Buffered
    <3>2. PartOf(b, From(b, 2))
      BY <3>1, FromPart
    <3> QED
      BY <2>2, <2>3, <2>5, <2>8, <3>1, <3>2 DEF Buffered, PartOf
  <2>11. Inside(c2, e)
    BY <1>2, <2>3, <2>7, <2>8 DEF Inside
  <2> QED
    BY <2>5, <2>7, <2>8, <2>9, <2>10, <2>11 DEF Runs, InTurn
<1> QED
  BY <1>1, <1>2

\* All but the end of the buffer is thinking.
LEMMA StaysInside ==
  ASSUME NEW k, NEW c, NEW t, Runs(k, c, t), c.inThinkingBlock,
         c.stripNewline => c.thinkingBuffer = <<>>,
         NEW tag \in Nat, tag > 0, NEW c2, c2 = InThinking(c, Safe(c.thinkingBuffer, tag))
  PROVE  Runs(k, c2, t)
<1>1. PICK e : Thinking(k, c, e, t)
  BY WithinTags
<1>2. PICK b, thought, c1 :
        b = c.thinkingBuffer /\ thought = Upto(b, Len(b) - tag) /\ c1 = ThinkingText(c, thought)
  OBVIOUS
<1>3. Agrees(c, k, e) /\ Placed(c) /\ Inside(c, e) /\ Buffered(c, t) /\ DOMAIN c = Fields
      /\ b \in Seq(TextCells)
  BY <1>1, <1>2 DEF Thinking, InTurn, Agrees, Buffered
<1>4. c2 = [c1 EXCEPT !.thinkingBuffer = From(@, Len(thought) + 1)]
  BY <1>2 DEF InThinking, Safe
<1>5. CASE thought = <<>>
  <2>1. c1 = c
    BY <1>2, <1>5 DEF ThinkingText
  <2>2. From(b, Len(thought) + 1) = b
    <3>1. Len(thought) = 0
      BY <1>5
    <3>2. From(b, 1) = b
      BY <1>3 DEF From
    <3> QED
      BY <3>1, <3>2
  <2>3. c2 = [c EXCEPT !.thinkingBuffer = b]
    BY <1>2, <1>4, <2>1, <2>2
  <2>4. MayBuffer(c, b, t) /\ (t => t)
    BY <1>2, <1>3 DEF Buffered, MayBuffer
  <2>5. HasBuffer(k, c, c2, t, b)
    BY ONLY Runs(k, c, t), <2>3, <2>4, BufferIs, Zenon
  <2> QED
    BY <2>5 DEF HasBuffer
<1>6. CASE thought # <<>>
  <2>1. Len(b) > tag /\ Len(thought) = Len(b) - tag /\ Len(b) \in Nat
    BY <1>2, <1>3, <1>6 DEF Upto
  <2>2. c1 = ThinkingDelta(c, thought)
    BY <1>2, <1>6 DEF ThinkingText
  <2>3. Keeps(c, c1, {"out"}) /\ \E e1 : Agrees(c1, k, e1)
    <3>1. /\ c.thinkingIndex \in 1 .. Len(c.blocks) /\ c.thinkingIndex # 0
          /\ c.blocks[c.thinkingIndex].kind = "thinking" /\ c.blocks[c.thinkingIndex].open
      BY <1>1 DEF Thinking
    <3> QED
      BY ONLY <1>3, <2>2, <3>1, TellsThought
  <2>4. PICK e1 : Agrees(c1, k, e1)
    BY <2>3
  <2>5. /\ c1.thinkingBuffer = b /\ c1.blocks = c.blocks /\ c1.thinkingIndex = c.thinkingIndex
        /\ c1.toolIndices = c.toolIndices /\ c1.stripNewline = c.stripNewline
        /\ c1.inThinkingBlock = c.inThinkingBlock /\ DOMAIN c1 = Fields
    BY <1>2, <2>3 DEF Keeps, Fields
  <2>6. PICK m : m = Len(thought) + 1
    OBVIOUS
  <2>7. m \in Nat /\ m > 0 /\ m <= Len(b)
    BY ONLY <2>1, <2>6, tag \in Nat, tag > 0
  <2>8. Keeps(c1, c2, {"thinkingBuffer"}) /\ c2.thinkingBuffer = From(b, m)
    BY <1>4, <2>5, <2>6 DEF Keeps, Fields
  <2>9. Keeps(c1, c2, Hidden)
    BY <2>8 DEF Keeps, Hidden, Fields
  <2>10. Agrees(c2, k, e1) /\ c2.blocks = c1.blocks
    BY ONLY <2>4, <2>9, AgreesStill
  <2>11. /\ c2.thinkingIndex = c.thinkingIndex /\ c2.toolIndices = c.toolIndices
         /\ c2.stripNewline = c.stripNewline /\ c2.inThinkingBlock = c.inThinkingBlock
    BY <2>5, <2>8 DEF Keeps, Fields
  <2>12. Placed(c2)
    BY <1>3, <2>5, <2>10, <2>11 DEF Placed
  <2>13. PartOf(b, From(b, m))
    BY ONLY <1>3, <2>7, FromPart
  <2>14. Buffered(c2, t)
    BY <1>2, <1>3, <2>8, <2>11, <2>13 DEF Buffered, PartOf
  <2>15. From(b, m) # <<>>
    <3>1. Len(From(b, m)) = Len(b) - m + 1
      BY ONLY <1>3, <2>7 DEF From
    <3>2. Len(From(b, m)) > 0
      BY ONLY <1>3, <2>7, <3>1
    <3> QED
      BY ONLY <3>2
  <2>16. ~ c.stripNewline
    <3>1. b # <<>>
      BY <2>1
    <3> QED
      BY <1>2, <3>1
  <2>17. Inside(c2, e1)
    BY <1>1, <2>5, <2>8, <2>10, <2>11, <2>15, <2>16 DEF Inside, Thinking
  <2> QED
    BY <2>10, <2>12, <2>14, <2>17 DEF Runs, InTurn
<1> QED
  BY <1>5, <1>6

LEMMA RunsInside ==
  ASSUME NEW k, NEW c, NEW t, Runs(k, c, t), c.inThinkingBlock, NEW c2, c2 = ContentInside(c)
  PROVE  Runs(k, c2, t)
<1>1. PICK c1 : c1 = StripNewline(c)
  OBVIOUS
<1>2. /\ Runs(k, c1, t) /\ c1.inThinkingBlock /\ (c1.stripNewline => c1.thinkingBuffer = <<>>)
      /\ c1.thinkingEnabled = c.thinkingEnabled
  BY ONLY Runs(k, c, t), c.inThinkingBlock, <1>1, StripsNewline
<1>3. PICK end, tag : end = FindEndTag(c1.thinkingBuffer) /\ tag = Len(EndTag) + 2
  OBVIOUS
<1>4. end \in Nat
  BY <1>2, <1>3, TagPositions DEF Runs, InTurn, Buffered
<1>5. CASE end # 0
  <2>1. PICK skip, c3 : skip = 4 /\ c3 = LeaveThinking(c1, end, skip)
    OBVIOUS
  <2>2. skip \in Nat /\ skip > 0
    BY <2>1
  <2>3. /\ Runs(k, c3, t) /\ NoneOpen(c3) /\ ~ c3.inThinkingBlock
        /\ c3.thinkingEnabled = c1.thinkingEnabled
    BY ONLY <1>2, <1>4, <2>1, <2>2, LeavesThinking
  <2>4. c2 = ContentBehind(c3)
    BY <1>1, <1>3, <1>5, <2>1 DEF ContentInside
  <2>5. RunsIn(k, c3, c2, t)
    BY ONLY <2>3, <2>4, RunsBehind
  <2> QED
    BY <2>5 DEF RunsIn
<1>6. CASE end = 0
  <2>1. c2 = InThinking(c1, Safe(c1.thinkingBuffer, tag))
    BY <1>1, <1>3, <1>6 DEF ContentInside
  <2>2. tag \in Nat /\ tag > 0
    BY <1>3 DEF EndTag
  <2> QED
    BY ONLY <1>2, <2>1, <2>2, StaysInside
<1> QED
  BY <1>5, <1>6

\* The text before a tag.
LEMMA RunsBefore ==
  ASSUME NEW k, NEW c, NEW t, Runs(k, c, t), ~ c.inThinkingBlock,
         NEW n \in Int, n <= Len(c.thinkingBuffer),
         NEW safe, safe = Upto(c.thinkingBuffer, n), NEW c2, c2 = BeforeThinking(c, safe)
  PROVE  RunsIn(k, c, c2, t)
<1>1. PICK kept : kept = c.thinkingBuffer
  OBVIOUS
<1>2. kept \in Seq(TextCells) /\ (TagsIn(kept) => t)
  BY <1>1 DEF Runs, InTurn, Buffered
<1>3. safe \in Seq(TextCells)
  BY <1>1, <1>2, UptoPart DEF PartOf
<1>4. CASE IsBlank(safe)
  <2>1. c2 = c
    BY <1>4 DEF BeforeThinking
  <2> QED
    BY <2>1 DEF RunsIn, SameState
<1>5. CASE ~ IsBlank(safe)
  <2>1. PICK c1, m : c1 = TextDelta(c, safe) /\ m = Len(safe) + 1
    OBVIOUS
  <2>2. RunsAs(k, c, c1, t)
    BY ONLY Runs(k, c, t), <1>3, <2>1, RunsText
  <2>3. PICK b : b = From(kept, m)
    OBVIOUS
  <2>4. PartOf(kept, b)
    <3>1. m \in Nat /\ m > 0
      BY <1>3, <2>1
    <3> QED
      BY ONLY <1>2, <2>3, <3>1, FromPart
  <2>5. c1.thinkingBuffer = kept /\ ~ c1.inThinkingBlock /\ Runs(k, c1, t)
    BY <1>1, <2>2 DEF RunsAs, SameThinking
  <2>6. MayBuffer(c1, b, t) /\ (t => t)
    BY <1>2, <2>4, <2>5 DEF MayBuffer, PartOf
  <2>7. c2 = [c1 EXCEPT !.thinkingBuffer = b]
    BY <1>5, <2>1, <2>3, <2>5 DEF BeforeThinking
  <2>8. HasBuffer(k, c1, c2, t, b)
    BY ONLY <2>5, <2>6, <2>7, BufferIs, Zenon
  <2> QED
    BY <2>2, <2>8 DEF RunsAs, RunsIn, HasBuffer, SameThinking, SameState
<1> QED
  BY <1>4, <1>5

\* A block of thinking is begun where none is open.
BegunThinking(k, c, c2, e2) ==
  /\ Agrees(c2, k, e2) /\ Placed(c2) /\ Keeps(c, c2, {"blocks", "out", "thinkingIndex"})
  /\ c2.thinkingIndex \in 1 .. Len(c2.blocks) /\ c2.thinkingIndex # 0
  /\ c2.blocks[c2.thinkingIndex].kind = "thinking" /\ c2.blocks[c2.thinkingIndex].open
  /\ e2.blocks[c2.thinkingIndex].content = <<>>

LEMMA StartsThinking ==
  ASSUME NEW k, NEW c, NEW e, Agrees(c, k, e), Placed(c), NoneOpen(c),
         NEW c2, c2 = StartThinkingBlock(c)
  PROVE  \E e2 : BegunThinking(k, c, c2, e2)
<1>1. PICK i, kind, c1 : /\ i = Len(c.blocks) + 1 /\ kind = "thinking"
                         /\ c1 = [c EXCEPT !.thinkingIndex = i]
  OBVIOUS
<1>2. DOMAIN c = Fields /\ Len(c.blocks) \in Nat /\ Len(e.blocks) = Len(c.blocks)
  BY ListLength DEF Agrees
<1>3. Keeps(c, c1, {"thinkingIndex"}) /\ c1.thinkingIndex = i
  BY <1>1, <1>2 DEF Keeps, Fields
<1>4. Keeps(c, c1, Hidden)
  BY <1>3 DEF Keeps, Hidden, Fields
<1>5. Agrees(c1, k, e) /\ c1.blocks = c.blocks
  BY ONLY Agrees(c, k, e), <1>4, AgreesStill
<1>6. c2 = StartedBlock(c1, i, kind)
  BY <1>1, <1>5 DEF StartThinkingBlock, StartBlock, NextBlockIndex, ContentBlockStart
<1>7. PICK e2 : HasStarted(k, c1, e, c2, e2, kind)
  <2>1. kind \in AllKinds /\ i = Len(c1.blocks) + 1
    BY <1>1, <1>5 DEF AllKinds
  <2> QED
    BY ONLY <1>5, <1>6, <2>1, Starts
<1>8. Keeps(c1, c2, {"blocks", "out"}) /\ Agrees(c2, k, e2)
  BY <1>7 DEF HasStarted
<1>9. Keeps(c, c2, {"blocks", "out", "thinkingIndex"}) /\ c2.thinkingIndex = i
      /\ c2.toolIndices = c.toolIndices
  BY <1>3, <1>8 DEF Keeps, Fields
<1>10. /\ Len(c2.blocks) = Len(c.blocks) + 1 /\ c2.blocks[i] = [kind |-> kind, open |-> TRUE]
       /\ \A j \in 1 .. Len(c.blocks) : c2.blocks[j] = c.blocks[j]
  BY <1>1, <1>5, <1>7 DEF HasStarted, Longer
<1>11. i \in 1 .. Len(c2.blocks) /\ i # 0 /\ c2.blocks[i].kind = "thinking" /\ c2.blocks[i].open
  BY <1>1, <1>2, <1>10
<1>12. e2.blocks[i].content = <<>>
  BY <1>1, <1>2, <1>7 DEF HasStarted, Began
<1>13. Placed(c2)
  <2>1. \A j \in 1 .. Len(c2.blocks) : j = i \/ j \in 1 .. Len(c.blocks)
    BY <1>1, <1>2, <1>10
  <2>2. \A j \in 1 .. Len(c.blocks) : j \in 1 .. Len(c2.blocks)
    BY <1>2, <1>10
  <2>3. \A j \in 1 .. Len(c2.blocks) : c2.blocks[j].kind = "thinking" /\ c2.blocks[j].open => j = i
    BY <1>10, <2>1 DEF NoneOpen
  <2>4. \A id \in ToolIds : c2.toolIndices[id] # 0 =>
          c2.toolIndices[id] \in 1 .. Len(c2.blocks)
          /\ c2.blocks[c2.toolIndices[id]].kind = "tool_use"
    BY <1>9, <1>10, <2>2 DEF Placed
  <2>5. DOMAIN c2.toolIndices = ToolIds
    BY <1>9 DEF Placed
  <2> QED
    BY <1>9, <1>11, <2>3, <2>4, <2>5 DEF Placed
<1> QED
  BY <1>8, <1>9, <1>11, <1>12, <1>13 DEF BegunThinking

LEMMA EntersThinking ==
  ASSUME NEW k, NEW c, NEW t, Runs(k, c, t), ~ c.inThinkingBlock, NoneOpen(c), t,
         NEW start \in Nat, start # 0, start <= Len(c.thinkingBuffer) + 1,
         NEW c2, c2 = EnterThinking(c, start)
  PROVE  Runs(k, c2, t) /\ c2.inThinkingBlock
<1>1. PICK kept, n, m : kept = c.thinkingBuffer /\ n = start - 1 /\ m = start + 2
  OBVIOUS
<1>2. PICK safe, c1 : safe = Upto(kept, n) /\ c1 = BeforeThinking(c, safe)
  OBVIOUS
<1>3. kept \in Seq(TextCells) /\ n \in Int /\ n <= Len(kept) /\ m \in Nat /\ m > 0
  BY <1>1 DEF Runs, InTurn, Buffered
<1>4. RunsIn(k, c, c1, t)
  BY ONLY Runs(k, c, t), ~ c.inThinkingBlock, <1>1, <1>2, <1>3, RunsBefore
<1>5. PICK b, c3 : /\ b = From(kept, m)
                   /\ c3 = [c1 EXCEPT !.inThinkingBlock = TRUE, !.stripNewline = TRUE,
                                      !.thinkingBuffer = b]
  OBVIOUS
<1>6. c2 = StartThinkingBlock(c3)
  BY <1>1, <1>2, <1>5 DEF EnterThinking
<1>7. PICK e1 : InTurn(k, c1, e1, t)
  BY <1>4 DEF RunsIn, Runs
<1>8. NoneOpen(c1) /\ Agrees(c1, k, e1) /\ Placed(c1) /\ DOMAIN c1 = Fields
  BY <1>4, <1>7 DEF RunsIn, InTurn, Agrees
<1>9. /\ Keeps(c1, c3, {"inThinkingBlock", "stripNewline", "thinkingBuffer"})
      /\ c3.inThinkingBlock /\ c3.thinkingBuffer = b
  BY <1>5, <1>8 DEF Keeps, Fields
<1>10. Keeps(c1, c3, Hidden) /\ c3.thinkingIndex = c1.thinkingIndex
       /\ c3.toolIndices = c1.toolIndices
  BY <1>9 DEF Keeps, Hidden, Fields
<1>11. Agrees(c3, k, e1) /\ c3.blocks = c1.blocks
  BY ONLY <1>8, <1>10, AgreesStill
<1>12. Placed(c3) /\ NoneOpen(c3)
  BY <1>8, <1>10, <1>11 DEF Placed, NoneOpen
<1>13. PICK e2 : BegunThinking(k, c3, c2, e2)
  BY ONLY <1>6, <1>11, <1>12, StartsThinking
<1>14. Keeps(c3, c2, {"blocks", "out", "thinkingIndex"})
  BY <1>13 DEF BegunThinking
<1>15. c2.inThinkingBlock /\ c2.thinkingBuffer = b
  BY <1>9, <1>14 DEF Keeps, Fields
<1>16. PartOf(kept, b)
  BY ONLY <1>3, <1>5, FromPart
<1>17. Buffered(c2, t)
  BY <1>15, <1>16 DEF Buffered, PartOf
<1>18. Inside(c2, e2)
  BY <1>13 DEF BegunThinking, Inside
<1> QED
  BY <1>13, <1>15, <1>17, <1>18 DEF BegunThinking, Runs, InTurn

LEMMA RunsAhead ==
  ASSUME NEW k, NEW c, NEW t, Runs(k, c, t), ~ c.inThinkingBlock, NoneOpen(c),
         NEW c2, c2 = ContentAhead(c)
  PROVE  Runs(k, c2, t)
<1>1. PICK kept, start : kept = c.thinkingBuffer /\ start = FindStartTag(kept)
  OBVIOUS
<1>2. kept \in Seq(TextCells) /\ (TagsIn(kept) => t)
  BY <1>1 DEF Runs, InTurn, Buffered
<1>3. start \in Nat /\ (start # 0 => TagsIn(kept)) /\ start <= Len(kept) + 1
  BY <1>1, <1>2, TagPositions
<1>4. CASE start # 0
  <2>1. PICK c1 : c1 = EnterThinking(c, start)
    OBVIOUS
  <2>2. t /\ start <= Len(c.thinkingBuffer) + 1
    BY <1>1, <1>2, <1>3, <1>4
  <2>3. Runs(k, c1, t) /\ c1.inThinkingBlock
    BY ONLY Runs(k, c, t), ~ c.inThinkingBlock, NoneOpen(c), <1>3, <1>4, <2>1, <2>2, EntersThinking
  <2>4. c2 = ContentInside(c1)
    BY <1>1, <1>4, <2>1 DEF ContentAhead
  <2> QED
    BY ONLY <2>3, <2>4, RunsInside
<1>5. CASE start = 0
  <2>1. PICK n, safe : n = Len(kept) - Len(StartTag) /\ safe = Upto(kept, n)
    OBVIOUS
  <2>2. n \in Int /\ n <= Len(kept)
    BY <1>2, <2>1 DEF StartTag
  <2>3. c2 = BeforeThinking(c, safe)
    BY <1>1, <1>5, <2>1 DEF ContentAhead, Safe
  <2>4. RunsIn(k, c, c2, t)
    BY ONLY Runs(k, c, t), ~ c.inThinkingBlock, <1>1, <2>1, <2>2, <2>3, RunsBefore
  <2> QED
    BY <2>4 DEF RunsIn
<1> QED
  BY <1>4, <1>5

LEMMA RunsContent ==
  ASSUME NEW k, NEW c, NEW t, Runs(k, c, t), ~ c.inThinkingBlock => NoneOpen(c),
         NEW c2, c2 = ContentWithThinking(c)
  PROVE  Runs(k, c2, t)
<1>1. CASE c.inThinkingBlock
  <2>1. c2 = ContentInside(c)
    BY <1>1 DEF ContentWithThinking
  <2> QED
    BY ONLY Runs(k, c, t), <1>1, <2>1, RunsInside
<1>2. CASE ~ c.inThinkingBlock /\ c.thinkingExtracted
  <2>1. c2 = ContentBehind(c)
    BY <1>2 DEF ContentWithThinking
  <2>2. RunsIn(k, c, c2, t)
    BY ONLY Runs(k, c, t), <1>2, <2>1, RunsBehind
  <2> QED
    BY <2>2 DEF RunsIn
<1>3. CASE ~ c.inThinkingBlock /\ ~ c.thinkingExtracted
  <2>1. c2 = ContentAhead(c)
    BY <1>3 DEF ContentWithThinking
  <2>2. NoneOpen(c)
    BY <1>3
  <2> QED
    BY ONLY Runs(k, c, t), <1>3, <2>1, <2>2, RunsAhead
<1> QED
  BY <1>1, <1>2, <1>3

LEMMA RunsAnswer ==
  ASSUME NEW k, NEW c, NEW t, Runs(k, c, t), NEW text \in Seq(TextCells),
         NEW u, t => u, TagsIn(text) => u, NEW c2, c2 = AssistantResponse(c, text)
  PROVE  Runs(k, c2, u)
<1>1. PICK c1 : c1 = EndNativeThinking(c)
  OBVIOUS
<1>2. RunsAs(k, c, c1, t) /\ (~ c.inThinkingBlock => NoneOpen(c1))
  BY ONLY Runs(k, c, t), <1>1, EndsNative
<1>3. Runs(k, c1, t) /\ c1.thinkingEnabled = c.thinkingEnabled
      /\ c1.inThinkingBlock = c.inThinkingBlock
  BY <1>2 DEF RunsAs, SameThinking
<1>4. CASE c.thinkingEnabled
  <2>1. PICK kept, b, c3 : /\ kept = c1.thinkingBuffer /\ b = kept \o text
                             /\ c3 = [c1 EXCEPT !.thinkingBuffer = b]
    OBVIOUS
  <2>2. kept \in Seq(TextCells) /\ (TagsIn(kept) => t)
    BY <1>3, <2>1 DEF Runs, InTurn, Buffered
  <2>3. /\ b \in Seq(TextCells) /\ (TagsIn(b) <=> TagsIn(kept) \/ TagsIn(text))
        /\ (kept # <<>> => b # <<>>)
    BY ONLY text \in Seq(TextCells), <2>1, <2>2, JoinedText
  <2>4. MayBuffer(c1, b, u)
    BY <2>1, <2>2, <2>3 DEF MayBuffer
  <2>5. c3 = [c1 EXCEPT !.thinkingBuffer = b]
    BY <2>1
  <2>6. HasBuffer(k, c1, c3, u, b)
    BY ONLY <1>3, t => u, <2>4, <2>5, BufferIs, Zenon
  <2>7. Runs(k, c3, u) /\ (~ c3.inThinkingBlock => NoneOpen(c3))
    BY <1>2, <1>3, <2>6 DEF HasBuffer, SameState
  <2>8. c2 = ContentWithThinking(c3)
    <3>1. c1.thinkingBuffer \o text = b
      BY <2>1
    <3> QED
      BY <1>1, <1>4, <2>5, <3>1 DEF AssistantResponse
  <2> QED
    BY ONLY <2>7, <2>8, RunsContent
<1>5. CASE ~ c.thinkingEnabled
  <2>1. c2 = TextDelta(c1, text)
    BY <1>1, <1>5 DEF AssistantResponse
  <2>2. RunsAs(k, c1, c2, t)
    BY ONLY <1>3, <2>1, text \in Seq(TextCells), RunsText
  <2>3. Runs(k, c2, t)
    BY <2>2 DEF RunsAs
  <2> QED
    BY ONLY <2>3, t => u, RunsMore
<1> QED
  BY <1>4, <1>5

\* Thinking that comes in events of its own, where no tag was said.
LEMMA NoneKnownOpen ==
  ASSUME NEW c, Placed(c), DOMAIN c.blocks = 1 .. Len(c.blocks), ~ IsThinkingBlockOpen(c)
  PROVE  NoneOpen(c)
<1>1. ASSUME NEW j \in 1 .. Len(c.blocks), c.blocks[j].kind = "thinking", c.blocks[j].open
      PROVE  FALSE
  <2>1. j = c.thinkingIndex
    BY <1>1 DEF Placed
  <2> QED
    BY <1>1, <2>1 DEF IsThinkingBlockOpen, IsBlockOpenOfType
<1> QED
  BY <1>1 DEF NoneOpen

ThinkingOpen(k, c, e, t) ==
  /\ InTurn(k, c, e, t) /\ ~ c.inThinkingBlock
  /\ c.thinkingIndex \in 1 .. Len(c.blocks) /\ c.thinkingIndex # 0
  /\ c.blocks[c.thinkingIndex].kind = "thinking" /\ c.blocks[c.thinkingIndex].open

LEMMA EnsuresThinking ==
  ASSUME NEW k, NEW c, NEW t, Runs(k, c, t), ~ c.inThinkingBlock,
         NEW c2, c2 = EnsureThinkingBlock(c)
  PROVE  \E e2 : ThinkingOpen(k, c2, e2, t)
<1>1. PICK e : InTurn(k, c, e, t)
  BY DEF Runs
<1>2. Placed(c) /\ DOMAIN c.blocks = 1 .. Len(c.blocks) /\ c.thinkingBuffer \in Seq(TextCells)
  BY <1>1, ListLength DEF InTurn, Agrees, Buffered
<1>3. CASE IsThinkingBlockOpen(c)
  <2>1. c2 = c
    BY <1>3 DEF EnsureThinkingBlock
  <2>2. c.thinkingIndex \in 1 .. Len(c.blocks) /\ c.thinkingIndex # 0
    BY <1>2, <1>3 DEF IsThinkingBlockOpen, IsBlockOpenOfType
  <2> QED
    BY <1>1, <1>3, <2>1, <2>2 DEF IsThinkingBlockOpen, IsBlockOpenOfType, ThinkingOpen
<1>4. CASE ~ IsThinkingBlockOpen(c)
  <2>1. NoneOpen(c)
    BY ONLY <1>2, <1>4, NoneKnownOpen
  <2>2. PICK text, c0, c1, c3 :
          /\ text = IF IsBlank(c.thinkingBuffer) THEN <<>> ELSE c.thinkingBuffer
          /\ c0 = TextDelta([c EXCEPT !.thinkingBuffer = <<>>], text)
          /\ c1 = CloseOpenTextBlock(c0) /\ c3 = [c1 EXCEPT !.thinkingExtracted = TRUE]
    OBVIOUS
  <2>3. c2 = StartThinkingBlock(c3)
    BY <1>4, <2>2 DEF EnsureThinkingBlock, FlushThinkingBuffer
  <2>4. text \in Seq(TextCells)
    BY <1>2, <2>2, NoText
  <2>5. RunsIn(k, c, c0, t)
    BY ONLY Runs(k, c, t), ~ c.inThinkingBlock, <2>2, <2>4, FlushesBuffer
  <2>6. RunsAs(k, c0, c1, t)
    <3>1. Runs(k, c0, t) /\ Fine(c0, c1)
      BY <2>2, <2>5, FineCloseText DEF RunsIn
    <3> QED
      BY ONLY <3>1, FineRuns
  <2>7. PICK d : InTurn(k, c1, d, t)
    BY <2>6 DEF RunsAs, Runs
  <2>8. Agrees(c1, k, d) /\ Placed(c1) /\ NoneOpen(c1) /\ Buffered(c1, t) /\ DOMAIN c1 = Fields
    BY <2>1, <2>5, <2>6, <2>7 DEF RunsIn, RunsAs, InTurn, Agrees
  <2>9. ~ c1.inThinkingBlock
    BY <2>5, <2>6 DEF RunsIn, SameState, RunsAs, SameThinking
  <2>10. Keeps(c1, c3, {"thinkingExtracted"})
    BY <2>2, <2>8 DEF Keeps, Fields
  <2>11. Keeps(c1, c3, Hidden)
    BY <2>10 DEF Keeps, Hidden, Fields
  <2>12. Agrees(c3, k, d) /\ c3.blocks = c1.blocks
    BY ONLY <2>8, <2>11, AgreesStill
  <2>13. Placed(c3) /\ NoneOpen(c3)
    BY <2>8, <2>10, <2>12 DEF Placed, NoneOpen, Keeps, Fields
  <2>14. PICK e2 : BegunThinking(k, c3, c2, e2)
    BY ONLY <2>3, <2>12, <2>13, StartsThinking
  <2>15. ~ c2.inThinkingBlock /\ c2.thinkingBuffer = c1.thinkingBuffer
    BY <2>9, <2>10, <2>14 DEF BegunThinking, Keeps, Fields
  <2>16. Inside(c2, e2) /\ Buffered(c2, t)
    BY <2>8, <2>9, <2>15 DEF Inside, Buffered
  <2> QED
    BY <2>14, <2>15, <2>16 DEF BegunThinking, ThinkingOpen, InTurn
<1> QED
  BY <1>3, <1>4

LEMMA TakesThought ==
  ASSUME NEW k, NEW c, NEW t, Runs(k, c, t), ~ c.inThinkingBlock,
         NEW r, NEW c2, c2 = TakeThought(c, r)
  PROVE  Runs(k, c2, t) /\ ~ c2.inThinkingBlock
<1>1. CASE r.text = <<>>
  BY <1>1 DEF TakeThought
<1>2. CASE r.text # <<>>
  <2>1. PICK text, c1 : text = r.text /\ c1 = EnsureThinkingBlock(c)
    OBVIOUS
  <2>2. c2 = ThinkingDelta(c1, text)
    BY <1>2, <2>1 DEF TakeThought
  <2>3. PICK e1 : ThinkingOpen(k, c1, e1, t)
    BY ONLY Runs(k, c, t), ~ c.inThinkingBlock, <2>1, EnsuresThinking
  <2>4. Agrees(c1, k, e1) /\ Placed(c1) /\ Buffered(c1, t)
    BY <2>3 DEF ThinkingOpen, InTurn
  <2>5. /\ c1.thinkingIndex \in 1 .. Len(c1.blocks) /\ c1.thinkingIndex # 0
        /\ c1.blocks[c1.thinkingIndex].kind = "thinking" /\ c1.blocks[c1.thinkingIndex].open
        /\ ~ c1.inThinkingBlock
    BY <2>3 DEF ThinkingOpen
  <2>6. Keeps(c1, c2, {"out"}) /\ \E e2 : Agrees(c2, k, e2)
    BY ONLY <2>2, <2>4, <2>5, TellsThought
  <2>7. PICK e2 : Agrees(c2, k, e2)
    BY <2>6
  <2>8. /\ c2.blocks = c1.blocks /\ c2.thinkingIndex = c1.thinkingIndex
        /\ c2.toolIndices = c1.toolIndices /\ c2.inThinkingBlock = c1.inThinkingBlock
        /\ c2.thinkingBuffer = c1.thinkingBuffer
    BY <2>6 DEF Keeps, Fields
  <2>9. Placed(c2) /\ Inside(c2, e2) /\ Buffered(c2, t)
    BY <2>4, <2>5, <2>8 DEF Placed, Inside, Buffered
  <2> QED
    BY <2>5, <2>7, <2>8, <2>9 DEF Runs, InTurn
<1> QED
  BY <1>1, <1>2

LEMMA FineRedacted ==
  ASSUME NEW c, NEW i, i = Len(c.blocks) + 1,
         NEW c1, c1 = StartedBlock(c, i, "redacted_thinking"), NEW c2, c2 = ContentBlockStop(c1, i)
  PROVE  Fine(c, c2)
<1> SUFFICES ASSUME NEW k, NEW e, Agrees(c, k, e) PROVE Goes(k, c, e, c2)
  BY DEF Fine
<1>1. PICK kind : kind = "redacted_thinking"
  OBVIOUS
<1>2. kind \in AllKinds /\ kind # "thinking" /\ c1 = StartedBlock(c, i, kind)
  BY <1>1 DEF AllKinds
<1>3. Goes(k, c, e, c1) /\ i \in 1 .. Len(c1.blocks) /\ c1.blocks[i].kind = kind
  BY ONLY Agrees(c, k, e), i = Len(c.blocks) + 1, <1>2, StartsCalmly
<1>4. PICK e1 : Agrees(c1, k, e1) /\ Calm(c, e, c1, e1)
  BY <1>3 DEF Goes
<1>5. Goes(k, c1, e1, c2)
  <2>1. c1.blocks[i].kind # "thinking"
    BY <1>2, <1>3
  <2> QED
    BY ONLY <1>3, <1>4, <2>1, c2 = ContentBlockStop(c1, i), StopsCalmly
<1>6. PICK e2 : Agrees(c2, k, e2) /\ Calm(c1, e1, c2, e2)
  BY <1>5 DEF Goes
<1>7. Calm(c, e, c2, e2)
  BY ONLY Agrees(c, k, e), <1>4, <1>6, CalmOn
<1> QED
  BY <1>6, <1>7 DEF Goes

LEMMA RunsRedacted ==
  ASSUME NEW k, NEW c, NEW t, Runs(k, c, t), ~ c.inThinkingBlock,
         NEW c2, c2 = RedactedThinking(c)
  PROVE  Runs(k, c2, t)
<1>1. PICK c0, c1 : c0 = CloseOpenThinkingBlock(c) /\ c1 = CloseOpenTextBlock(c0)
  OBVIOUS
<1>2. PICK i, kind, c3 : i = Len(c1.blocks) + 1 /\ c3 = StartedBlock(c1, i, "redacted_thinking")
  OBVIOUS
<1>3. c2 = ContentBlockStop(c3, i)
  BY <1>1, <1>2 DEF RedactedThinking, StartBlock, NextBlockIndex, ContentBlockStart
<1>4. RunsAs(k, c, c0, t)
  BY ONLY Runs(k, c, t), ~ c.inThinkingBlock, <1>1, ClosesThinking
<1>5. RunsAs(k, c0, c1, t)
  <2>1. Runs(k, c0, t) /\ Fine(c0, c1)
    BY <1>1, <1>4, FineCloseText DEF RunsAs
  <2> QED
    BY ONLY <2>1, FineRuns
<1>6. Fine(c1, c2)
  BY ONLY <1>2, <1>3, FineRedacted
<1>7. Runs(k, c1, t)
  BY <1>5 DEF RunsAs
<1>8. RunsAs(k, c1, c2, t)
  BY ONLY <1>6, <1>7, FineRuns
<1> QED
  BY <1>8 DEF RunsAs

LEMMA RunsReasoning ==
  ASSUME NEW k, NEW c, NEW t, Runs(k, c, t), ~ c.inThinkingBlock,
         NEW r, r.text \in Seq(TextCells), NEW c2, c2 = ReasoningContent(c, r)
  PROVE  Runs(k, c2, t)
<1>1. CASE ~ c.thinkingEnabled
  <2>1. PICK text : text = r.text
    OBVIOUS
  <2>2. text \in Seq(TextCells) /\ c2 = TextDelta(c, text)
    BY <1>1, <2>1 DEF ReasoningContent
  <2>3. RunsAs(k, c, c2, t)
    BY ONLY Runs(k, c, t), <2>2, RunsText
  <2> QED
    BY <2>3 DEF RunsAs
<1>2. CASE c.thinkingEnabled
  <2>1. PICK c0, c1 : /\ c0 = IF r.signature THEN [c EXCEPT !.signature = "upstream"] ELSE c
                      /\ c1 = TakeThought(c0, r)
    OBVIOUS
  <2>2. RunsAs(k, c, c0, t)
    <3>1. CASE r.signature
      <4>1. Quiet(c, c0)
        BY <2>1, <3>1 DEF Quiet, Keeps, Fields, Loose
      <4>2. Fine(c, c0)
        BY <4>1, FineQuiet
      <4> QED
        BY ONLY Runs(k, c, t), <4>2, FineRuns
    <3>2. CASE ~ r.signature
      BY <2>1, <3>2 DEF RunsAs, SameThinking
    <3> QED
      BY <3>1, <3>2
  <2>3. Runs(k, c0, t) /\ ~ c0.inThinkingBlock
    BY <2>2 DEF RunsAs, SameThinking
  <2>4. Runs(k, c1, t) /\ ~ c1.inThinkingBlock
    BY ONLY <2>1, <2>3, TakesThought
  <2>5. CASE r.redacted
    <3>1. c2 = RedactedThinking(c1)
      BY <1>2, <2>1, <2>5 DEF ReasoningContent
    <3> QED
      BY ONLY <2>4, <3>1, RunsRedacted
  <2>6. CASE ~ r.redacted
    <3>1. c2 = c1
      BY <1>2, <2>1, <2>6 DEF ReasoningContent
    <3> QED
      BY <2>4, <3>1
  <2> QED
    BY <2>5, <2>6
<1> QED
  BY <1>1, <1>2

-----------------------------------------------------------------------------
(* Tool calls. *)

LEMMA RunsAtBufferEnd ==
  ASSUME NEW k, NEW c, NEW t, Runs(k, c, t), c.inThinkingBlock,
         NEW c2, c2 = LeaveThinkingAtBufferEnd(c)
  PROVE  Runs(k, c2, t) /\ NoneOpen(c2)
<1>1. PICK end, skip, c1 : /\ end = FindEndTagAtBufferEnd(c.thinkingBuffer) /\ skip = 2
                           /\ c1 = LeaveThinking(c, end, skip)
  OBVIOUS
<1>2. end \in Nat /\ skip \in Nat /\ skip > 0
  BY <1>1, TagPositions DEF Runs, InTurn, Buffered
<1>3. /\ Runs(k, c1, t) /\ NoneOpen(c1) /\ ~ c1.inThinkingBlock
      /\ c1.thinkingEnabled = c.thinkingEnabled
  BY ONLY Runs(k, c, t), c.inThinkingBlock, <1>1, <1>2, LeavesThinking
<1>4. PICK text : text = TrimStart(c1.thinkingBuffer)
  OBVIOUS
<1>5. text \in Seq(TextCells)
  BY <1>3, <1>4, Trimmed DEF Runs, InTurn, Buffered
<1>6. c2 = TextDelta([c1 EXCEPT !.thinkingBuffer = <<>>], text)
  BY <1>1, <1>4 DEF LeaveThinkingAtBufferEnd
<1>7. RunsIn(k, c1, c2, t)
  BY ONLY <1>3, <1>5, <1>6, FlushesBuffer
<1> QED
  BY <1>3, <1>7 DEF RunsIn

LEMMA RunsBeforeTool ==
  ASSUME NEW k, NEW c, NEW t, Runs(k, c, t), NEW c1, c1 = LeaveThinkingForTool(c),
         NEW c2, c2 = FlushForTool(c1)
  PROVE  Runs(k, c2, t)
<1>1. Runs(k, c1, t)
  <2>1. CASE c.inThinkingBlock /\ FindEndTagAtBufferEnd(c.thinkingBuffer) # 0
    <3>1. c1 = LeaveThinkingAtBufferEnd(c)
      BY <2>1 DEF LeaveThinkingForTool
    <3> QED
      BY ONLY Runs(k, c, t), <2>1, <3>1, RunsAtBufferEnd
  <2>2. CASE ~ (c.inThinkingBlock /\ FindEndTagAtBufferEnd(c.thinkingBuffer) # 0)
    BY <2>2 DEF LeaveThinkingForTool
  <2> QED
    BY <2>1, <2>2
<1>2. CASE c1.thinkingEnabled /\ ~ c1.inThinkingBlock /\ ~ c1.thinkingExtracted
  <2>1. PICK text : text = c1.thinkingBuffer
    OBVIOUS
  <2>2. text \in Seq(TextCells)
    BY <1>1, <2>1 DEF Runs, InTurn, Buffered
  <2>3. c2 = TextDelta([c1 EXCEPT !.thinkingBuffer = <<>>], text)
    BY <1>2, <2>1 DEF FlushForTool
  <2>4. RunsIn(k, c1, c2, t)
    BY ONLY <1>1, <1>2, <2>2, <2>3, FlushesBuffer
  <2> QED
    BY <2>4 DEF RunsIn
<1>3. CASE ~ (c1.thinkingEnabled /\ ~ c1.inThinkingBlock /\ ~ c1.thinkingExtracted)
  BY <1>1, <1>3 DEF FlushForTool
<1> QED
  BY <1>2, <1>3

LEMMA GoesRuns ==
  ASSUME NEW k, NEW c, NEW e, NEW t, InTurn(k, c, e, t), NEW c2, Goes(k, c, e, c2)
  PROVE  Runs(k, c2, t)
<1>1. PICK e2 : Agrees(c2, k, e2) /\ Calm(c, e, c2, e2)
  BY DEF Goes
<1>2. Agrees(c, k, e)
  BY DEF InTurn
<1>3. /\ Placed(c) => Placed(c2)
      /\ Placed(c) /\ Inside(c, e) => Inside(c2, e2)
      /\ NoneOpen(c) => NoneOpen(c2)
      /\ \A u : Buffered(c, u) => Buffered(c2, u)
  BY ONLY <1>1, <1>2, CalmKeeps
<1> QED
  BY <1>1, <1>3 DEF InTurn, Runs

\* The block of a tool call: its own, or a new one.
HasPlace(k, c, e, t, i) ==
  InTurn(k, c, e, t) /\ i \in 1 .. Len(c.blocks) /\ c.blocks[i].kind = "tool_use"

LEMMA PlacesTool ==
  ASSUME NEW k, NEW c, NEW e, NEW t, InTurn(k, c, e, t), NEW id \in ToolIds,
         NEW i \in 1 .. Len(c.blocks) + 1,
         i \in 1 .. Len(c.blocks) => c.blocks[i].kind = "tool_use",
         NEW c1, c1 = [c EXCEPT !.toolIndices[id] = i],
         NEW c2, c2 = ContentBlockStart(c1, i, "tool_use")
  PROVE  \E e2 : HasPlace(k, c2, e2, t, i)
<1>1. Agrees(c, k, e) /\ Placed(c) /\ Inside(c, e) /\ Buffered(c, t) /\ DOMAIN c = Fields
  BY DEF InTurn, Agrees
<1>2. PICK ids : ids = [c.toolIndices EXCEPT ![id] = i]
  OBVIOUS
<1>3. c1 = [c EXCEPT !.toolIndices = ids]
  BY <1>2
<1>4. Keeps(c, c1, {"toolIndices"}) /\ c1.toolIndices = ids
  BY <1>1, <1>3 DEF Keeps, Fields
<1>5. Keeps(c, c1, Hidden)
  BY <1>4 DEF Keeps, Hidden, Fields
<1>6. Agrees(c1, k, e) /\ c1.blocks = c.blocks
  BY ONLY <1>1, <1>5, AgreesStill
<1>7. HasTool(k, c1, e, c2, i)
  <2>1. i \in 1 .. Len(c1.blocks) + 1 /\ (i \in 1 .. Len(c1.blocks) => c1.blocks[i].kind = "tool_use")
    BY <1>6
  <2> QED
    BY ONLY <1>6, <2>1, c2 = ContentBlockStart(c1, i, "tool_use"), StartsTool, Zenon
<1>8. PICK e2 : Agrees(c2, k, e2) /\ Calm(c1, e, c2, e2)
  BY <1>7 DEF HasTool, Goes
<1>9. i \in 1 .. Len(c2.blocks) /\ c2.blocks[i].kind = "tool_use"
  BY <1>7 DEF HasTool
<1>10. Len(c.blocks) \in Nat /\ Len(c2.blocks) \in Nat /\ Len(c.blocks) <= Len(c2.blocks)
  BY <1>1, <1>6, <1>8, ListLength DEF Agrees, Calm
<1>11. \A j \in 1 .. Len(c.blocks) : j \in 1 .. Len(c2.blocks) /\ c2.blocks[j].kind = c.blocks[j].kind
  BY <1>6, <1>8, <1>10 DEF Calm
<1>12. \A j \in 1 .. Len(c2.blocks) : c2.blocks[j].kind = "thinking" =>
         j \in 1 .. Len(c.blocks) /\ c2.blocks[j] = c.blocks[j] /\ e2.blocks[j] = e.blocks[j]
  BY <1>6, <1>8 DEF Calm
<1>13. /\ c2.thinkingIndex = c.thinkingIndex /\ c2.inThinkingBlock = c.inThinkingBlock
       /\ c2.thinkingBuffer = c.thinkingBuffer /\ c2.stripNewline = c.stripNewline
       /\ c2.toolIndices = ids
  BY <1>4, <1>8 DEF Calm, SameThinking, Keeps, Fields
<1>14. Placed(c2)
  <2>1. DOMAIN ids = ToolIds /\ ids[id] = i /\ \A x \in ToolIds : x # id => ids[x] = c.toolIndices[x]
    BY <1>1, <1>2 DEF Placed
  <2>2. \A x \in ToolIds : c.toolIndices[x] # 0 =>
          c.toolIndices[x] \in 1 .. Len(c.blocks) /\ c.blocks[c.toolIndices[x]].kind = "tool_use"
    BY <1>1 DEF Placed
  <2>3. ASSUME NEW x \in ToolIds, c2.toolIndices[x] # 0
        PROVE  c2.toolIndices[x] \in 1 .. Len(c2.blocks)
               /\ c2.blocks[c2.toolIndices[x]].kind = "tool_use"
    <3>1. CASE x = id
      BY <1>9, <1>13, <2>1, <3>1
    <3>2. CASE x # id
      <4>1. PICK y : y = c.toolIndices[x]
        OBVIOUS
      <4>2. c2.toolIndices[x] = y /\ y # 0
        BY <1>13, <2>1, <2>3, <3>2, <4>1
      <4>3. y \in 1 .. Len(c.blocks) /\ c.blocks[y].kind = "tool_use"
        BY ONLY <2>2, <4>1, <4>2
      <4>4. y \in 1 .. Len(c2.blocks) /\ c2.blocks[y].kind = "tool_use"
        BY ONLY <1>11, <4>3
      <4> QED
        BY ONLY <4>2, <4>4
    <3> QED
      BY <3>1, <3>2
  <2>4. c2.thinkingIndex # 0 =>
          c2.thinkingIndex \in 1 .. Len(c2.blocks) /\ c2.blocks[c2.thinkingIndex].kind = "thinking"
    BY <1>1, <1>11, <1>13 DEF Placed
  <2>5. ASSUME NEW j \in 1 .. Len(c2.blocks), c2.blocks[j].kind = "thinking", c2.blocks[j].open
        PROVE  j = c2.thinkingIndex
    BY <1>1, <1>12, <1>13, <2>5 DEF Placed
  <2> QED
    BY <1>13, <2>1, <2>3, <2>4, <2>5 DEF Placed
<1>15. Inside(c2, e2)
  <2>1. SUFFICES ASSUME c.inThinkingBlock PROVE Inside(c2, e2)
    BY <1>13 DEF Inside
  <2>2. PICK j : j = c.thinkingIndex
    OBVIOUS
  <2>3. j \in 1 .. Len(c.blocks) /\ c.blocks[j].kind = "thinking"
    BY <1>1, <2>1, <2>2 DEF Placed, Inside
  <2>4. c2.blocks[j] = c.blocks[j] /\ e2.blocks[j] = e.blocks[j]
    BY <1>11, <1>12, <2>3
  <2> QED
    BY <1>1, <1>13, <2>2, <2>4 DEF Inside
<1>16. Buffered(c2, t)
  BY <1>1, <1>13 DEF Buffered
<1> QED
  BY <1>8, <1>9, <1>14, <1>15, <1>16 DEF InTurn, HasPlace

LEMMA RunsInput ==
  ASSUME NEW k, NEW c, NEW e, NEW t, NEW i, HasPlace(k, c, e, t, i), NEW input,
         NEW c1, c1 = ToolInput(c, i, input), NEW stop,
         NEW c2, c2 = IF stop THEN ContentBlockStop(c1, i) ELSE c1
  PROVE  Runs(k, c2, t)
<1>1. InTurn(k, c, e, t) /\ Agrees(c, k, e) /\ i \in 1 .. Len(c.blocks)
      /\ c.blocks[i].kind = "tool_use"
  BY DEF HasPlace, InTurn
<1>2. Runs(k, c1, t) /\ c1.blocks = c.blocks
  <2>1. CASE input = <<>>
    BY <1>1, <2>1 DEF ToolInput, Runs
  <2>2. CASE input # <<>>
    <3>1. PICK kind : kind = "input_json_delta"
      OBVIOUS
    <3>2. c1 = ContentBlockDelta(c, i, kind, input)
      BY <2>2, <3>1 DEF ToolInput
    <3>3. c.blocks[i].kind \in {"text", "tool_use"}
      BY <1>1
    <3>4. Goes(k, c, e, c1) /\ c1.blocks = c.blocks
      BY ONLY <1>1, <3>2, <3>3, TellsCalmly
    <3> QED
      BY ONLY <1>1, <3>4, GoesRuns
  <2> QED
    BY <2>1, <2>2
<1>3. CASE stop
  <2>1. PICK e1 : InTurn(k, c1, e1, t)
    BY <1>2 DEF Runs
  <2>2. Agrees(c1, k, e1) /\ i \in 1 .. Len(c1.blocks) /\ c1.blocks[i].kind # "thinking"
    BY <1>1, <1>2, <2>1 DEF InTurn
  <2>3. c2 = ContentBlockStop(c1, i)
    BY <1>3
  <2>4. Goes(k, c1, e1, c2)
    BY ONLY <2>2, <2>3, StopsCalmly
  <2> QED
    BY ONLY <2>1, <2>4, GoesRuns
<1>4. CASE ~ stop
  BY <1>2, <1>4
<1> QED
  BY <1>3, <1>4

LEMMA RunsTool ==
  ASSUME NEW k, NEW c, NEW t, Runs(k, c, t), NEW id \in ToolIds, NEW input, NEW stop,
         NEW c2, c2 = ToolUse(c, id, input, stop)
  PROVE  Runs(k, c2, t)
<1>1. PICK c0, c1, c3, c4 :
        /\ c0 = [c EXCEPT !.hasTool = TRUE] /\ c1 = EndNativeThinking(c0)
        /\ c3 = LeaveThinkingForTool(c1) /\ c4 = FlushForTool(c3)
  OBVIOUS
<1>2. PICK i : i = IF c4.toolIndices[id] # 0 THEN c4.toolIndices[id] ELSE Len(c4.blocks) + 1
  OBVIOUS
<1>3. PICK c5, c6, c7 : /\ c5 = [c4 EXCEPT !.toolIndices[id] = i]
                        /\ c6 = ContentBlockStart(c5, i, "tool_use") /\ c7 = ToolInput(c6, i, input)
  OBVIOUS
<1>4. c2 = IF stop THEN ContentBlockStop(c7, i) ELSE c7
  BY <1>1, <1>2, <1>3 DEF ToolUse, NextBlockIndex
<1>5. Runs(k, c0, t)
  <2>1. Quiet(c, c0)
    BY <1>1 DEF Quiet, Keeps, Fields, Loose
  <2>2. Fine(c, c0)
    BY <2>1, FineQuiet
  <2>3. RunsAs(k, c, c0, t)
    BY ONLY Runs(k, c, t), <2>2, FineRuns
  <2> QED
    BY <2>3 DEF RunsAs
<1>6. RunsAs(k, c0, c1, t) /\ (~ c0.inThinkingBlock => NoneOpen(c1))
  BY ONLY <1>1, <1>5, EndsNative
<1>7. Runs(k, c4, t)
  <2>1. Runs(k, c1, t)
    BY <1>6 DEF RunsAs
  <2> QED
    BY ONLY <1>1, <2>1, RunsBeforeTool
<1>8. PICK e : InTurn(k, c4, e, t)
  BY <1>7 DEF Runs
<1>9. i \in 1 .. Len(c4.blocks) + 1 /\ (i \in 1 .. Len(c4.blocks) => c4.blocks[i].kind = "tool_use")
  <2>1. Placed(c4) /\ Len(c4.blocks) \in Nat
    BY <1>8, ListLength DEF InTurn, Agrees
  <2>2. PICK j : j = c4.toolIndices[id]
    OBVIOUS
  <2>3. j # 0 => j \in 1 .. Len(c4.blocks) /\ c4.blocks[j].kind = "tool_use"
    BY <2>1, <2>2 DEF Placed
  <2>4. i = IF j # 0 THEN j ELSE Len(c4.blocks) + 1
    BY <1>2, <2>2
  <2> QED
    BY ONLY <2>1, <2>3, <2>4
<1>10. PICK e6 : HasPlace(k, c6, e6, t, i)
  BY ONLY <1>3, <1>8, <1>9, id \in ToolIds, PlacesTool, Zenon
<1> QED
  BY ONLY <1>3, <1>4, <1>10, RunsInput

-----------------------------------------------------------------------------
(* The end of the stream, and its beginning. *)

\* Every block of thinking may be stopped as it is.
Stoppable(k, c, e) ==
  /\ Agrees(c, k, e)
  /\ \A i \in 1 .. Len(c.blocks) :
       c.blocks[i].kind = "thinking" /\ c.blocks[i].open => Signed(e.blocks[i])
Ready(k, c) == \E e : Stoppable(k, c, e)

LEMMA FineReady ==
  ASSUME NEW k, NEW c, Ready(k, c), NEW c2, Fine(c, c2)
  PROVE  Ready(k, c2)
<1>1. PICK e : Stoppable(k, c, e)
  BY DEF Ready
<1>2. PICK e2 : Agrees(c2, k, e2) /\ Calm(c, e, c2, e2)
  BY <1>1 DEF Stoppable, Fine, Goes
<1>3. ASSUME NEW i \in 1 .. Len(c2.blocks), c2.blocks[i].kind = "thinking", c2.blocks[i].open
      PROVE  Signed(e2.blocks[i])
  <2>1. i \in 1 .. Len(c.blocks) /\ c2.blocks[i] = c.blocks[i] /\ e2.blocks[i] = e.blocks[i]
    BY <1>2, <1>3 DEF Calm
  <2> QED
    BY <1>1, <1>3, <2>1 DEF Stoppable
<1> QED
  BY <1>2, <1>3 DEF Stoppable, Ready

LEMMA NoneOpenReady ==
  ASSUME NEW k, NEW c, NEW t, Runs(k, c, t), NoneOpen(c)
  PROVE  Ready(k, c)
BY DEF Runs, InTurn, NoneOpen, Stoppable, Ready

\* Within tags: the block ends with its signature and what was held back.
LEMMA EndsThought ==
  ASSUME NEW k, NEW c, NEW t, Runs(k, c, t), c.inThinkingBlock, NEW text,
         NEW c2, c2 = EndThinkingBlock(ThinkingDelta(c, text))
  PROVE  Ready(k, c2)
<1>1. PICK e : Thinking(k, c, e, t)
  BY WithinTags
<1>2. Agrees(c, k, e) /\ Placed(c)
  BY <1>1 DEF Thinking, InTurn
<1>3. /\ c.thinkingIndex \in 1 .. Len(c.blocks) /\ c.thinkingIndex # 0
      /\ c.blocks[c.thinkingIndex].kind = "thinking" /\ c.blocks[c.thinkingIndex].open
  BY <1>1 DEF Thinking
<1>4. PICK c1 : c1 = ThinkingDelta(c, text)
  OBVIOUS
<1>5. Keeps(c, c1, {"out"}) /\ \E e1 : Agrees(c1, k, e1)
  BY ONLY <1>2, <1>3, <1>4, TellsThought
<1>6. PICK e1 : Agrees(c1, k, e1)
  BY <1>5
<1>7. c1.blocks = c.blocks /\ c1.thinkingIndex = c.thinkingIndex /\ c1.toolIndices = c.toolIndices
  BY <1>5 DEF Keeps, Fields
<1>8. /\ c1.thinkingIndex \in 1 .. Len(c1.blocks) /\ c1.thinkingIndex # 0
      /\ c1.blocks[c1.thinkingIndex].kind = "thinking" /\ c1.blocks[c1.thinkingIndex].open
      /\ Placed(c1)
  BY <1>2, <1>3, <1>7 DEF Placed
<1>9. c2 = EndThinkingBlock(c1)
  BY <1>4
<1>10. HasClosed(k, c1, c2)
  BY ONLY <1>6, <1>8, <1>9, EndsThinking
<1>11. Placed(c2) /\ NoneOpen(c2)
  BY ONLY <1>6, <1>8, <1>10, ClosedPlaced
<1> QED
  BY <1>10, <1>11 DEF HasClosed, NoneOpen, Stoppable, Ready

LEMMA FinishesThinking ==
  ASSUME NEW k, NEW c, NEW t, Runs(k, c, t), ~ c.inThinkingBlock => NoneOpen(c),
         NEW c2, c2 = FinishThinking(c)
  PROVE  Ready(k, c2)
<1>1. PICK e : InTurn(k, c, e, t)
  BY DEF Runs
<1>2. PICK text : text = c.thinkingBuffer
  OBVIOUS
<1>3. Agrees(c, k, e) /\ Placed(c) /\ Inside(c, e) /\ text \in Seq(TextCells)
  BY <1>1, <1>2 DEF InTurn, Buffered
<1>4. CASE text = <<>>
  <2>1. c2 = c
    BY <1>2, <1>4 DEF FinishThinking
  <2>2. CASE ~ c.inThinkingBlock
    BY <2>1, <2>2, NoneOpenReady
  <2>3. CASE c.inThinkingBlock
    <3>1. e.blocks[c.thinkingIndex].content = <<>>
      BY <1>2, <1>3, <1>4, <2>3 DEF Inside
    <3>2. ASSUME NEW i \in 1 .. Len(c.blocks), c.blocks[i].kind = "thinking", c.blocks[i].open
          PROVE  Signed(e.blocks[i])
      <4>1. i = c.thinkingIndex
        BY <1>3, <3>2 DEF Placed
      <4> QED
        BY <3>1, <4>1 DEF Signed
    <3> QED
      BY <1>3, <2>1, <3>2 DEF Stoppable, Ready
  <2> QED
    BY <2>2, <2>3
<1>5. CASE text # <<>> /\ ~ c.inThinkingBlock
  <2>1. c2 = TextDelta(c, text)
    BY <1>2, <1>5 DEF FinishThinking
  <2>2. RunsAs(k, c, c2, t)
    BY ONLY Runs(k, c, t), <1>3, <2>1, RunsText
  <2>3. Runs(k, c2, t) /\ NoneOpen(c2)
    BY <1>5, <2>2 DEF RunsAs
  <2> QED
    BY ONLY <2>3, NoneOpenReady
<1>6. CASE text # <<>> /\ c.inThinkingBlock /\ FindEndTagAtBufferEnd(text) # 0
  <2>1. c2 = LeaveThinkingAtBufferEnd(c)
    BY <1>2, <1>6 DEF FinishThinking
  <2>2. Runs(k, c2, t) /\ NoneOpen(c2)
    BY ONLY Runs(k, c, t), <1>6, <2>1, RunsAtBufferEnd
  <2> QED
    BY ONLY <2>2, NoneOpenReady
<1>7. CASE text # <<>> /\ c.inThinkingBlock /\ FindEndTagAtBufferEnd(text) = 0
  <2>1. c2 = EndThinkingBlock(ThinkingDelta(c, text))
    BY <1>2, <1>7 DEF FinishThinking
  <2> QED
    BY ONLY Runs(k, c, t), <1>7, <2>1, EndsThought
<1> QED
  BY <1>4, <1>5, <1>6, <1>7

\* The message is over, whole.
Over(k, c2) == DOMAIN c2 = Fields /\ c2.ended /\ \E e : Reads(k, c2.out, e)

LEMMA EndsMessage ==
  ASSUME NEW k, NEW c, Ready(k, c), NEW c2, c2 = FinalEvents(c)
  PROVE  Over(k, c2)
<1>1. PICK e : Stoppable(k, c, e)
  BY DEF Ready
<1>2. PICK kinds, c1 : kinds = AllKinds /\ c1 = StopAll(c, kinds)
  OBVIOUS
<1>3. Agrees(c, k, e) /\ Len(c.blocks) \in Nat
  BY <1>1, ListLength DEF Stoppable, Agrees
<1>4. \A i \in 1 .. Len(c.blocks) :
        c.blocks[i].kind \in kinds /\ c.blocks[i].open => Signed(e.blocks[i])
  BY <1>1 DEF Stoppable, Signed, Agrees, SameBlock
<1>5. PICK e1 : HasStoppedFirst(k, c, e, c1, e1, kinds, Len(c.blocks))
  BY ONLY <1>2, <1>3, <1>4, StopsAll
<1>6. Agrees(c1, k, e1) /\ Len(c1.blocks) = Len(c.blocks)
  BY <1>5 DEF HasStoppedFirst
<1>7. \A i \in 1 .. Len(e1.blocks) : ~ e1.blocks[i].open
  <2>1. ASSUME NEW i \in 1 .. Len(c.blocks) PROVE ~ c1.blocks[i].open
    <3>1. c.blocks[i].kind \in kinds
      BY <1>2, <1>3 DEF Agrees, SameBlock, ViewOK, BlockOK
    <3>2. i <= Len(c.blocks)
      BY <1>3
    <3> QED
      BY <1>5, <3>1, <3>2 DEF HasStoppedFirst
  <2> QED
    BY <1>6, <2>1 DEF Agrees, SameBlock
<1>8. PICK x, y : x = [type |-> "message_delta", reason |-> StopReason(c1)] /\ y = [type |-> "message_stop"]
  OBVIOUS
<1>9. PICK c3, c4 : /\ c3 = [c1 EXCEPT !.deltaSent = TRUE, !.out = Append(c1.out, x)]
                    /\ c4 = [c3 EXCEPT !.ended = TRUE, !.out = Append(c3.out, y)]
  OBVIOUS
<1>10. DOMAIN c1 = Fields /\ ~ c1.deltaSent /\ ~ c1.ended /\ e1.phase = "content"
       /\ ViewOK(e1) /\ Reads(k, c1.out, e1)
  BY <1>6 DEF Agrees
<1>11. SummedUp(c1) = c3
  <2>1. StopReason([c1 EXCEPT !.deltaSent = TRUE]) = StopReason(c1)
    BY <1>10 DEF StopReason, Fields
  <2>2. PICK c0 : c0 = [c1 EXCEPT !.deltaSent = TRUE]
    OBVIOUS
  <2>3. c0.out = c1.out /\ c3 = [c0 EXCEPT !.out = Append(c1.out, x)]
    BY <1>9, <1>10, <2>2 DEF Fields
  <2> QED
    BY <1>8, <1>10, <2>1, <2>2, <2>3 DEF SummedUp, Emit
<1>12. DOMAIN c3 = Fields /\ ~ c3.ended /\ c3.out = Append(c1.out, x)
  BY <1>9, <1>10 DEF Fields
<1>13. EndedMessage(c3) = c4
  <2>1. PICK c0 : c0 = [c3 EXCEPT !.ended = TRUE]
    OBVIOUS
  <2>2. c0.out = c3.out /\ c4 = [c0 EXCEPT !.out = Append(c3.out, y)]
    BY <1>9, <1>12, <2>1 DEF Fields
  <2> QED
    BY <1>8, <1>12, <2>1, <2>2 DEF EndedMessage, Emit
<1>14. c2 = c4
  BY <1>2, <1>11, <1>13 DEF FinalEvents
<1>15. DOMAIN c4 = Fields /\ c4.ended /\ c4.out = Append(c3.out, y)
  BY <1>9, <1>12 DEF Fields
<1>16. PICK e3 : e3 = Received(e1, x)
  OBVIOUS
<1>17. Legal(e1, x)
  BY <1>7, <1>8, <1>10 DEF Legal
<1>18. Reads(k, c3.out, e3)
  BY <1>10, <1>12, <1>16, <1>17, ReadOneMore
<1>19. e3.phase = "summed"
  <2>1. x.type = "message_delta"
    BY <1>8
  <2>2. e3 = [e1 EXCEPT !.phase = "summed", !.reason = x.reason]
    BY <1>16, <2>1 DEF Received
  <2> QED
    BY <1>10, <2>2 DEF ViewOK
<1>20. Legal(e3, y)
  BY <1>8, <1>19 DEF Legal
<1>21. Reads(k, c4.out, Received(e3, y))
  BY <1>15, <1>18, <1>20, ReadOneMore
<1> QED
  BY <1>14, <1>15, <1>21 DEF Over

LEMMA RunsOut ==
  ASSUME NEW k, NEW c, NEW t, Runs(k, c, t), NEW c2, c2 = GenerateFinalEvents(c)
  PROVE  Over(k, c2)
<1>1. PICK c0, c1, c3, c4, c5 :
        /\ c0 = EndNativeThinking(c) /\ c1 = FinishThinking(c0)
        /\ c3 = [c1 EXCEPT !.thinkingBuffer = <<>>] /\ c4 = FillOnlyThinking(c3)
        /\ c5 = DrainSniffBuffer(c4, TRUE)
  OBVIOUS
<1>2. RunsAs(k, c, c0, t) /\ (~ c.inThinkingBlock => NoneOpen(c0))
  BY ONLY Runs(k, c, t), <1>1, EndsNative
<1>3. Runs(k, c0, t) /\ (~ c0.inThinkingBlock => NoneOpen(c0))
  BY <1>2 DEF RunsAs, SameThinking
<1>4. Ready(k, c1)
  BY ONLY <1>1, <1>3, FinishesThinking
<1>5. Ready(k, c3)
  <2>1. PICK e : Stoppable(k, c1, e)
    BY <1>4 DEF Ready
  <2>2. Agrees(c1, k, e) /\ DOMAIN c1 = Fields
    BY <2>1 DEF Stoppable, Agrees
  <2>3. Keeps(c1, c3, Hidden)
    BY <1>1, <2>2 DEF Keeps, Hidden, Fields
  <2>4. Agrees(c3, k, e) /\ c3.blocks = c1.blocks
    BY ONLY <2>2, <2>3, AgreesStill
  <2> QED
    BY <2>1, <2>4 DEF Stoppable, Ready
<1>6. Fine(c3, c4)
  <2>1. CASE OnlyThinking(c3)
    <3>1. PICK d, text : d = [c3 EXCEPT !.reason = "max_tokens"] /\ text = <<"space">>
      OBVIOUS
    <3>2. c4 = TextDelta(d, text)
      BY <1>1, <2>1, <3>1 DEF FillOnlyThinking
    <3>3. Quiet(c3, d)
      BY <3>1 DEF Quiet, Keeps, Fields, Loose
    <3>4. Fine(c3, d)
      BY <3>3, FineQuiet
    <3>5. text \in Seq(TextCells)
      BY <3>1 DEF TextCells
    <3>6. Fine(d, c4)
      BY ONLY <3>2, <3>5, FineDelta
    <3> QED
      BY ONLY <3>4, <3>6, FineThen
  <2>2. CASE ~ OnlyThinking(c3)
    BY <1>1, <2>2, FineSame DEF FillOnlyThinking
  <2> QED
    BY <2>1, <2>2
<1>7. Fine(c4, c5)
  BY <1>1, FineDrain
<1>8. Ready(k, c4)
  BY ONLY <1>5, <1>6, FineReady
<1>9. Ready(k, c5)
  BY ONLY <1>7, <1>8, FineReady
<1>10. c2 = FinalEvents(c5)
  BY <1>1 DEF GenerateFinalEvents
<1> QED
  BY ONLY <1>9, <1>10, EndsMessage

LEMMA ContextBegins ==
  ASSUME NEW thinking \in BOOLEAN, NEW c, c = Context(thinking)
  PROVE  /\ DOMAIN c = Fields /\ c.thinkingBuffer = <<>> /\ c.sniffBuffer = <<>>
         /\ c.inThinkingBlock = FALSE /\ c.thinkingIndex = 0
         /\ c.toolIndices = [id \in ToolIds |-> 0] /\ c.started = FALSE
         /\ c.deltaSent = FALSE /\ c.ended = FALSE /\ c.blocks = <<>> /\ c.out = <<>>
<1>1. PICK f, g : /\ f = [thinkingEnabled |-> thinking, thinkingBuffer |-> <<>>,
                          sniffBuffer |-> <<>>, inThinkingBlock |-> FALSE,
                          thinkingExtracted |-> FALSE, stripNewline |-> FALSE,
                          thinkingIndex |-> 0, textIndex |-> 0, signature |-> "placeholder",
                          toolIndices |-> [id \in ToolIds |-> 0], fence |-> NoFence,
                          guard |-> NoRepeat]
                  /\ g = ManagerInit
  OBVIOUS
<1>2. c = [x \in DOMAIN f \cup DOMAIN g |-> IF x \in DOMAIN f THEN f[x] ELSE g[x]]
  BY <1>1 DEF Context
<1>3. DOMAIN f = {"thinkingEnabled", "thinkingBuffer", "sniffBuffer", "inThinkingBlock",
                  "thinkingExtracted", "stripNewline", "thinkingIndex", "textIndex",
                  "signature", "toolIndices", "fence", "guard"}
  BY <1>1
<1>4. DOMAIN g = {"started", "deltaSent", "ended", "hasTool", "reason", "blocks", "out"}
  BY <1>1 DEF ManagerInit
<1>5. DOMAIN c = Fields
  BY <1>2, <1>3, <1>4 DEF Fields
<1>6. /\ c.thinkingBuffer = f.thinkingBuffer /\ c.sniffBuffer = f.sniffBuffer
      /\ c.inThinkingBlock = f.inThinkingBlock /\ c.thinkingIndex = f.thinkingIndex
      /\ c.toolIndices = f.toolIndices
  BY <1>2, <1>3
<1>7. /\ c.started = g.started /\ c.deltaSent = g.deltaSent /\ c.ended = g.ended
      /\ c.blocks = g.blocks /\ c.out = g.out
  BY <1>2, <1>3, <1>4
<1> QED
  BY <1>1, <1>5, <1>6, <1>7 DEF ManagerInit

LEMMA StreamBegins ==
  ASSUME NEW thinking \in BOOLEAN, NEW c2, c2 = InitialEvents(Context(thinking)),
         NEW k, k = [phase |-> "none", blocks |-> <<>>, reason |-> "none"]
  PROVE  Runs(k, c2, FALSE) /\ ViewOK(k) /\ ViewSigned(k)
<1>1. PICK c : c = Context(thinking)
  OBVIOUS
<1>2. /\ DOMAIN c = Fields /\ c.thinkingBuffer = <<>> /\ c.sniffBuffer = <<>>
      /\ c.inThinkingBlock = FALSE /\ c.thinkingIndex = 0
      /\ c.toolIndices = [id \in ToolIds |-> 0] /\ c.started = FALSE
      /\ c.deltaSent = FALSE /\ c.ended = FALSE /\ c.blocks = <<>> /\ c.out = <<>>
  BY ONLY <1>1, ContextBegins
<1>3. ViewOK(k) /\ ViewSigned(k)
  BY EmptyList DEF ViewOK, ViewSigned
<1>4. PICK x, e, o, c1 : /\ x = [type |-> "message_start"] /\ e = [k EXCEPT !.phase = "content"]
                         /\ o = Append(<<>>, x) /\ c1 = [c EXCEPT !.started = TRUE, !.out = o]
  OBVIOUS
<1>5. Legal(k, x) /\ Received(k, x) = e
  BY <1>4 DEF Legal, Received
<1>6. Reads(k, o, e)
  <2>1. PICK none : none = <<>>
    OBVIOUS
  <2>2. Reads(k, none, k)
    BY <2>1, ReadNothing
  <2>3. Reads(k, Append(none, x), Received(k, x))
    BY ONLY <1>5, <2>2, ReadOneMore
  <2> QED
    BY <1>4, <1>5, <2>1, <2>3
<1>7. /\ Keeps(c, c1, {"started", "out"}) /\ c1.started /\ c1.out = o
  BY <1>2, <1>4 DEF Keeps, Fields
<1>8. /\ c1.deltaSent = FALSE /\ c1.ended = FALSE /\ c1.blocks = <<>>
      /\ c1.sniffBuffer = <<>> /\ c1.thinkingBuffer = <<>> /\ c1.inThinkingBlock = FALSE
      /\ c1.thinkingIndex = 0 /\ c1.toolIndices = [id \in ToolIds |-> 0] /\ DOMAIN c1 = Fields
  BY <1>2, <1>7 DEF Keeps, Fields
<1>9. MessageStart(c) = c1
  <2>1. PICK c0 : c0 = [c EXCEPT !.started = TRUE]
    OBVIOUS
  <2>2. c0.out = <<>> /\ c1 = [c0 EXCEPT !.out = o]
    BY <1>2, <1>4, <2>1 DEF Fields
  <2> QED
    BY <1>2, <1>4, <2>1, <2>2 DEF MessageStart, Emit
<1>10. Agrees(c1, k, e)
  <2>1. e.phase = "content" /\ e.blocks = <<>> /\ DOMAIN e = {"phase", "blocks", "reason"}
    BY <1>4
  <2> QED
    BY <1>6, <1>7, <1>8, <2>1, EmptyList, NoText DEF Agrees, ViewOK
<1>11. Placed(c1) /\ Inside(c1, e) /\ Buffered(c1, FALSE)
  BY <1>8, EmptyList, NoText DEF Placed, Inside, Buffered
<1>12. Runs(k, c1, FALSE)
  BY <1>10, <1>11 DEF Runs, InTurn
<1>13. CASE c1.thinkingEnabled
  <2>1. c2 = c1
    BY <1>1, <1>7, <1>9, <1>13 DEF InitialEvents, Keeps, Fields
  <2> QED
    BY <1>3, <1>12, <2>1
<1>14. CASE ~ c1.thinkingEnabled
  <2>1. c2 = OpenTextBlock(c1)
    BY <1>1, <1>7, <1>9, <1>14 DEF InitialEvents, Keeps, Fields
  <2>2. Fine(c1, c2)
    <3>1. ASSUME NEW d, NEW b, Agrees(c1, d, b) PROVE Goes(d, c1, b, c2)
      BY ONLY <2>1, <3>1, OpensText
    <3> QED
      BY <3>1 DEF Fine
  <2>3. RunsAs(k, c1, c2, FALSE)
    BY ONLY <1>12, <2>2, FineRuns
  <2> QED
    BY <1>3, <2>3 DEF RunsAs
<1> QED
  BY <1>13, <1>14

-----------------------------------------------------------------------------
(* The stream as a whole. *)

LEMMA RunsKeeps ==
  ASSUME NEW k, NEW c, NEW t, Runs(k, c, t)
  PROVE  DOMAIN c = Fields /\ ~ c.ended
BY DEF Runs, InTurn, Agrees

\* The next event goes to the client.
Sent(k, c, c2, k2, t) ==
  /\ Legal(k, Head(c.out)) /\ DOMAIN c2 = Fields
  /\ (c2.ended => \E e : Reads(k2, c2.out, e)) /\ (~ c2.ended => Runs(k2, c2, t))

LEMMA SendsNext ==
  ASSUME NEW k, NEW c, NEW t, DOMAIN c = Fields, c.out # <<>>,
         c.ended => \E e : Reads(k, c.out, e), ~ c.ended => Runs(k, c, t),
         NEW c2, c2 = [c EXCEPT !.out = Tail(@)], NEW k2, k2 = Received(k, Head(c.out))
  PROVE  Sent(k, c, c2, k2, t)
<1>1. PICK x, o : x = Head(c.out) /\ o = Tail(c.out)
  OBVIOUS
<1>2. Keeps(c, c2, {"out"}) /\ c2.out = o
  BY <1>1 DEF Keeps, Fields
<1>3. /\ c2.started = c.started /\ c2.deltaSent = c.deltaSent /\ c2.ended = c.ended
      /\ c2.blocks = c.blocks /\ c2.sniffBuffer = c.sniffBuffer /\ DOMAIN c2 = Fields
      /\ c2.thinkingIndex = c.thinkingIndex /\ c2.toolIndices = c.toolIndices
      /\ c2.stripNewline = c.stripNewline /\ c2.inThinkingBlock = c.inThinkingBlock
      /\ c2.thinkingBuffer = c.thinkingBuffer
  BY <1>2 DEF Keeps, Fields
<1>4. ASSUME NEW e, Reads(k, c.out, e)
      PROVE  Legal(k, x) /\ Reads(k2, o, e)
  BY ONLY <1>1, <1>4, c.out # <<>>, k2 = Received(k, Head(c.out)), ReadFirst
<1>5. CASE c.ended
  <2>1. PICK e : Reads(k, c.out, e)
    BY <1>5
  <2> QED
    BY <1>1, <1>2, <1>3, <1>4, <1>5, <2>1 DEF Sent
<1>6. CASE ~ c.ended
  <2>1. PICK e : InTurn(k, c, e, t)
    BY <1>6 DEF Runs
  <2>2. Agrees(c, k, e) /\ Reads(k, c.out, e)
    BY <2>1 DEF InTurn, Agrees
  <2>3. Legal(k, x) /\ Reads(k2, o, e)
    BY <1>4, <2>2
  <2>4. Agrees(c2, k2, e)
    BY <1>2, <1>3, <2>2, <2>3 DEF Agrees
  <2>5. Placed(c2) /\ Inside(c2, e) /\ Buffered(c2, t)
    BY <1>3, <2>1 DEF InTurn, Placed, Inside, Buffered
  <2>6. Runs(k2, c2, t)
    BY <2>4, <2>5 DEF Runs, InTurn
  <2> QED
    BY <1>1, <1>3, <1>6, <2>3, <2>6 DEF Sent
<1> QED
  BY <1>5, <1>6

\* The client has read legal events only, and those on their way are legal.
StreamOK(c, k, g, r) ==
  /\ ViewOK(k) /\ ViewSigned(k) /\ DOMAIN c = Fields
  /\ g \in Seq(TextCells) /\ r \in Seq(TextCells)
  /\ c.ended => \E e : Reads(k, c.out, e)
  /\ ~ c.ended => Runs(k, c, TagsIn(g))
StreamInv == StreamOK(ctx, client, given, rest)

LEMMA InitStreamInv == InitStream => StreamInv
<1> SUFFICES ASSUME InitStream PROVE StreamInv
  OBVIOUS
<1>1. PICK thinking \in BOOLEAN : ctx = InitialEvents(Context(thinking))
  BY DEF InitStream
<1>2. client = [phase |-> "none", blocks |-> <<>>, reason |-> "none"] /\ given = <<>>
  BY DEF InitStream
<1>3. PICK c, k : c = ctx /\ k = client
  OBVIOUS
<1>4. Runs(k, c, FALSE) /\ ViewOK(k) /\ ViewSigned(k)
  <2>1. c = InitialEvents(Context(thinking))
        /\ k = [phase |-> "none", blocks |-> <<>>, reason |-> "none"]
    BY <1>1, <1>2, <1>3
  <2> QED
    BY ONLY <2>1, thinking \in BOOLEAN, StreamBegins
<1>5. DOMAIN c = Fields /\ ~ c.ended
  BY ONLY <1>4, RunsKeeps
<1>6. rest \in Seq(TextCells)
  <2>1. PICK s \in Scripts : rest = s.text
    BY DEF InitStream
  <2>2. rest \in Seq(STRING)
    BY <2>1, ScriptsAssumption
  <2> QED
    BY <2>2 DEF TextCells
<1>7. given \in Seq(TextCells)
  BY <1>2, NoText
<1>8. PICK t : t = TagsIn(given)
  OBVIOUS
<1>9. Runs(k, c, t)
  BY ONLY <1>4, RunsMore
<1> QED
  BY <1>3, <1>4, <1>5, <1>6, <1>7, <1>8, <1>9 DEF StreamInv, StreamOK

\* Everything but sending happens while nothing is on its way.
StreamAdded(k, c, c2, u) == Runs(k, c2, u) \/ Over(k, c2)

LEMMA AddsInv ==
  ASSUME StreamInv, client' = client, given' \in Seq(TextCells), rest' \in Seq(TextCells),
         StreamAdded(client, ctx, ctx', TagsIn(given'))
  PROVE  StreamInv'
<1>1. PICK c, k, c2, t : c = ctx /\ k = client /\ c2 = ctx' /\ t = TagsIn(given')
  OBVIOUS
<1>2. ViewOK(k) /\ ViewSigned(k)
  BY <1>1 DEF StreamInv, StreamOK
<1>3. CASE Runs(k, c2, t)
  <2>1. DOMAIN c2 = Fields /\ ~ c2.ended
    BY ONLY <1>3, RunsKeeps
  <2> QED
    BY <1>1, <1>2, <1>3, <2>1 DEF StreamInv, StreamOK
<1>4. CASE Over(k, c2)
  BY <1>1, <1>2, <1>4 DEF StreamInv, StreamOK, Over
<1> QED
  BY <1>1, <1>3, <1>4 DEF StreamAdded

LEMMA SendInv == ASSUME StreamInv, Send PROVE StreamInv' /\ Legal(client, Head(ctx.out))
<1>1. PICK c, k, c2, k2, g, r :
        c = ctx /\ k = client /\ c2 = ctx' /\ k2 = client' /\ g = given /\ r = rest
  OBVIOUS
<1>2. PICK t : t = TagsIn(g)
  OBVIOUS
<1>3. /\ c.out # <<>> /\ c2 = [c EXCEPT !.out = Tail(@)] /\ k2 = Received(k, Head(c.out))
      /\ given' = g /\ rest' = r
  BY <1>1 DEF Send
<1>4. /\ ViewOK(k) /\ ViewSigned(k) /\ DOMAIN c = Fields
      /\ g \in Seq(TextCells) /\ r \in Seq(TextCells)
      /\ (c.ended => \E e : Reads(k, c.out, e)) /\ (~ c.ended => Runs(k, c, t))
  BY <1>1, <1>2 DEF StreamInv, StreamOK
<1>5. Sent(k, c, c2, k2, t)
  BY ONLY <1>3, <1>4, SendsNext
<1>6. PICK x : x = Head(c.out)
  OBVIOUS
<1>7. Legal(k, x)
  BY <1>5, <1>6 DEF Sent
<1>8. ViewOK(Received(k, x)) /\ ViewSigned(Received(k, x))
  BY ONLY <1>4, <1>7, ViewKept
<1>9. StreamOK(c2, k2, g, r)
  BY <1>2, <1>3, <1>4, <1>5, <1>6, <1>8 DEF StreamOK, Sent
<1> QED
  BY <1>1, <1>3, <1>6, <1>7, <1>9 DEF StreamInv

LEMMA IdleRuns ==
  ASSUME StreamInv, Idle
  PROVE  /\ Runs(client, ctx, TagsIn(given)) /\ given \in Seq(TextCells) /\ rest \in Seq(TextCells)
BY DEF StreamInv, StreamOK, Idle

LEMMA SayInv == ASSUME StreamInv, NEW n \in 1 .. Len(rest), Say(n) PROVE StreamInv'
<1>1. PICK c, k, c2, g, r, text, left :
        /\ c = ctx /\ k = client /\ c2 = ctx' /\ g = given /\ r = rest
        /\ text = Upto(rest, n) /\ left = From(rest, n + 1)
  OBVIOUS
<1>2. PICK t, u : t = TagsIn(g) /\ u = TagsIn(g \o text)
  OBVIOUS
<1>3. Runs(k, c, t) /\ g \in Seq(TextCells) /\ r \in Seq(TextCells)
  BY <1>1, <1>2, IdleRuns DEF Say
<1>4. text \in Seq(TextCells) /\ left \in Seq(TextCells)
  <2>1. n \in Int /\ n <= Len(r) /\ n + 1 \in Nat /\ n + 1 > 0
    BY <1>1, <1>3
  <2>2. PartOf(r, Upto(r, n)) /\ PartOf(r, From(r, n + 1))
    BY ONLY <1>3, <2>1, UptoPart, FromPart
  <2> QED
    BY <1>1, <2>2 DEF PartOf
<1>5. g \o text \in Seq(TextCells) /\ (t => u) /\ (TagsIn(text) => u)
  <2>1. g \o text \in Seq(TextCells) /\ (TagsIn(g \o text) <=> TagsIn(g) \/ TagsIn(text))
    BY ONLY <1>3, <1>4, JoinedText
  <2> QED
    BY ONLY <1>2, <2>1
<1>6. c2 = AssistantResponse(c, text)
  BY <1>1 DEF Say
<1>7. Runs(k, c2, u)
  BY ONLY <1>3, <1>4, <1>5, <1>6, RunsAnswer
<1>8. given' = g \o text /\ rest' = left /\ client' = client
  BY <1>1 DEF Say
<1>9. StreamAdded(client, ctx, ctx', TagsIn(given'))
  BY <1>1, <1>2, <1>7, <1>8 DEF StreamAdded
<1> QED
  BY <1>4, <1>5, <1>8, <1>9, AddsInv

LEMMA CallToolInv ==
  ASSUME StreamInv, NEW id \in ToolIds, NEW piece \in BOOLEAN, NEW stop \in BOOLEAN,
         CallTool(id, piece, stop)
  PROVE  StreamInv'
<1>1. PICK c, k, c2, t, input :
        /\ c = ctx /\ k = client /\ c2 = ctx' /\ t = TagsIn(given)
        /\ input = IF piece THEN <<"json">> ELSE <<>>
  OBVIOUS
<1>2. Runs(k, c, t) /\ given \in Seq(TextCells) /\ rest \in Seq(TextCells)
  BY <1>1, IdleRuns DEF CallTool, Native
<1>3. c2 = ToolUse(c, id, input, stop)
  BY <1>1 DEF CallTool
<1>4. Runs(k, c2, t)
  BY ONLY <1>2, <1>3, id \in ToolIds, RunsTool
<1>5. client' = client /\ given' = given /\ rest' = rest
  BY DEF CallTool
<1>6. StreamAdded(client, ctx, ctx', TagsIn(given'))
  BY <1>1, <1>4, <1>5 DEF StreamAdded
<1> QED
  BY <1>2, <1>5, <1>6, AddsInv

LEMMA ReasonInv ==
  ASSUME StreamInv, ~ MixesThinking, NEW r \in Reasonings, Reason(r)
  PROVE  StreamInv'
<1>1. PICK c, k, c2, g, t : /\ c = ctx /\ k = client /\ c2 = ctx' /\ g = given
                            /\ t = TagsIn(given)
  OBVIOUS
<1>2. Runs(k, c, t) /\ g \in Seq(TextCells) /\ rest \in Seq(TextCells)
  BY <1>1, IdleRuns DEF Reason, Native
<1>3. PICK text : text = r.text
  OBVIOUS
<1>4. text \in Seq(TextCells)
  <2>1. text = <<"t">> \/ text = <<>>
    BY <1>3 DEF Reasonings
  <2>2. <<"t">> \in Seq(TextCells)
    BY DEF TextCells
  <2> QED
    BY <2>1, <2>2, NoText
<1>5. ~ t
  <2>1. PICK all : all = given \o rest
    OBVIOUS
  <2>2. ~ TagsIn(all)
    BY <2>1 DEF Reason
  <2>3. TagsIn(g \o rest) <=> TagsIn(g) \/ TagsIn(rest)
    BY ONLY <1>2, JoinedText
  <2> QED
    BY <1>1, <2>1, <2>2, <2>3
<1>6. ~ c.inThinkingBlock
  BY <1>2, <1>5 DEF Runs, InTurn, Buffered
<1>7. c2 = ReasoningContent(c, r)
  BY <1>1 DEF Reason
<1>8. r.text \in Seq(TextCells)
  BY <1>3, <1>4
<1>9. Runs(k, c2, t)
  BY ONLY <1>2, <1>6, <1>7, <1>8, RunsReasoning
<1>10. PICK g2, u : /\ g2 = IF c.thinkingEnabled THEN g ELSE g \o text
                    /\ u = TagsIn(g2)
  OBVIOUS
<1>11. g2 \in Seq(TextCells) /\ (t => u)
  BY <1>2, <1>4, <1>5, <1>10, JoinedText
<1>12. Runs(k, c2, u)
  BY ONLY <1>9, <1>11, RunsMore
<1>13. given' = g2 /\ rest' = rest /\ client' = client
  BY <1>1, <1>3, <1>10 DEF Reason
<1>14. StreamAdded(client, ctx, ctx', TagsIn(given'))
  BY <1>1, <1>10, <1>12, <1>13 DEF StreamAdded
<1> QED
  BY <1>2, <1>11, <1>13, <1>14, AddsInv

LEMMA LimitInv == ASSUME StreamInv, NEW reason, Limit(reason) PROVE StreamInv'
<1>1. PICK c, k, c2, t : c = ctx /\ k = client /\ c2 = ctx' /\ t = TagsIn(given)
  OBVIOUS
<1>2. Runs(k, c, t) /\ given \in Seq(TextCells) /\ rest \in Seq(TextCells)
  BY <1>1, IdleRuns DEF Limit, Native
<1>3. Fine(c, c2)
  <2>1. c2 = [c EXCEPT !.reason = reason]
    BY <1>1 DEF Limit
  <2>2. Quiet(c, c2)
    BY <2>1 DEF Quiet, Keeps, Fields, Loose
  <2> QED
    BY <2>2, FineQuiet
<1>4. RunsAs(k, c, c2, t)
  BY ONLY <1>2, <1>3, FineRuns
<1>5. client' = client /\ given' = given /\ rest' = rest
  BY DEF Limit
<1>6. StreamAdded(client, ctx, ctx', TagsIn(given'))
  BY <1>1, <1>4, <1>5 DEF StreamAdded, RunsAs
<1> QED
  BY <1>2, <1>5, <1>6, AddsInv

LEMMA StreamEndsInv == ASSUME StreamInv, StreamEnds PROVE StreamInv'
<1>1. PICK c, k, c2, t : c = ctx /\ k = client /\ c2 = ctx' /\ t = TagsIn(given)
  OBVIOUS
<1>2. Runs(k, c, t) /\ given \in Seq(TextCells) /\ rest \in Seq(TextCells)
  BY <1>1, IdleRuns DEF StreamEnds
<1>3. c2 = GenerateFinalEvents(c)
  BY <1>1 DEF StreamEnds
<1>4. Over(k, c2)
  BY ONLY <1>2, <1>3, RunsOut
<1>5. client' = client /\ given' = given /\ rest' = rest
  BY DEF StreamEnds
<1>6. StreamAdded(client, ctx, ctx', TagsIn(given'))
  BY <1>1, <1>4 DEF StreamAdded
<1> QED
  BY <1>2, <1>5, <1>6, AddsInv

LEMMA NextStreamInv ==
  ASSUME ~ MixesThinking, StreamInv, [NextStream]_streamVars
  PROVE  StreamInv' /\ (Send \/ UNCHANGED client)
<1>1. CASE Send
  BY <1>1, SendInv
<1>2. CASE StreamEnds
  BY <1>2, StreamEndsInv DEF StreamEnds
<1>3. CASE Done \/ UNCHANGED streamVars
  BY <1>3 DEF Done, streamVars, StreamInv
<1>4. CASE \E n \in 1 .. Len(rest) : Say(n)
  BY <1>4, SayInv DEF Say
<1>5. CASE \E id \in ToolIds, piece, stop \in BOOLEAN : CallTool(id, piece, stop)
  BY <1>5, CallToolInv DEF CallTool
<1>6. CASE \E r \in Reasonings : Reason(r)
  BY <1>6, ReasonInv DEF Reason
<1>7. CASE \E reason \in {"model_context_window_exceeded", "max_tokens"} : Limit(reason)
  BY <1>7, LimitInv DEF Limit
<1> QED
  BY <1>1, <1>2, <1>3, <1>4, <1>5, <1>6, <1>7 DEF NextStream

-----------------------------------------------------------------------------
(* The client sees a stream as AnthropicStream describes it.                 *)

\* What a client sees of a block, and of all.
BlockSeen(b) == [kind |-> b.kind, open |-> b.open, deltas |-> b.deltas]
BlocksSeen(k) == [i \in DOMAIN k.blocks |-> BlockSeen(k.blocks[i])]
BlocksNow == BlocksSeen(client)

\* The steps of AnthropicStream, from phase p and blocks b to p2 and b2.
StreamMove(p, b, p2, b2) ==
  \/ p = "none" /\ p2 = "content" /\ b2 = b
  \/ \E kind \in AllKinds :
       p = "content" /\ p2 = p /\ b2 = Append(b, [kind |-> kind, open |-> TRUE, deltas |-> 0])
  \/ \E i \in DOMAIN b : /\ p = "content" /\ p2 = p
                         /\ b[i].open /\ b[i].kind # "redacted_thinking"
                         /\ b2 = [b EXCEPT ![i].deltas = @ + 1]
  \/ \E i \in DOMAIN b : p = "content" /\ p2 = p /\ b[i].open /\ b2 = [b EXCEPT ![i].open = FALSE]
  \/ p = "content" /\ (\A i \in DOMAIN b : ~ b[i].open) /\ p2 = "summed" /\ b2 = b
  \/ p = "summed" /\ p2 = "ended" /\ b2 = b

LEMMA Seen ==
  ASSUME NEW d
  PROVE  /\ BlockSeen(d).kind = d.kind /\ BlockSeen(d).open = d.open
         /\ BlockSeen(d).deltas = d.deltas
BY Zenon DEF BlockSeen

LEMMA SeenMore ==
  ASSUME NEW d, NEW d2, d2.kind = d.kind, d2.open = d.open, d2.deltas = d.deltas + 1
  PROVE  BlockSeen(d2) = [BlockSeen(d) EXCEPT !.deltas = @ + 1]
BY DEF BlockSeen

LEMMA SeenClosed ==
  ASSUME NEW d, NEW d2, d2.kind = d.kind, d2.open = FALSE, d2.deltas = d.deltas
  PROVE  BlockSeen(d2) = [BlockSeen(d) EXCEPT !.open = FALSE]
<1>1. PICK kind, open, deltas, closed :
        kind = d.kind /\ open = d.open /\ deltas = d.deltas /\ closed = FALSE
  OBVIOUS
<1>2. BlockSeen(d) = [kind |-> kind, open |-> open, deltas |-> deltas]
  BY <1>1, Zenon DEF BlockSeen
<1>3. BlockSeen(d2) = [kind |-> kind, open |-> closed, deltas |-> deltas]
  BY <1>1, Zenon DEF BlockSeen
<1>4. [BlockSeen(d) EXCEPT !.open = closed] = [kind |-> kind, open |-> closed, deltas |-> deltas]
  BY ONLY <1>2
<1>5. BlockSeen(d2) = [BlockSeen(d) EXCEPT !.open = closed]
  BY ONLY <1>3, <1>4, Zenon
<1>6. closed = FALSE
  BY <1>1
<1> QED
  BY ONLY <1>5, <1>6, Zenon

LEMMA BlocksSeenList ==
  ASSUME NEW k, ViewOK(k), NEW b, b = BlocksSeen(k)
  PROVE  /\ DOMAIN b = 1 .. Len(k.blocks) /\ Len(k.blocks) \in Nat
         /\ \A i \in 1 .. Len(k.blocks) : b[i] = BlockSeen(k.blocks[i])
         /\ IsList(b) /\ Len(b) = Len(k.blocks)
<1>1. DOMAIN k.blocks = 1 .. Len(k.blocks) /\ Len(k.blocks) \in Nat
  BY ListLength DEF ViewOK
<1>2. DOMAIN b = 1 .. Len(k.blocks) /\ \A i \in 1 .. Len(k.blocks) : b[i] = BlockSeen(k.blocks[i])
  BY <1>1 DEF BlocksSeen
<1>3. PICK X : X = {b[i] : i \in DOMAIN b}
  OBVIOUS
<1>4. b \in [1 .. Len(k.blocks) -> X]
  <2>1. b = [i \in 1 .. Len(k.blocks) |-> BlockSeen(k.blocks[i])]
    BY <1>1 DEF BlocksSeen
  <2> QED
    BY <1>2, <1>3, <2>1
<1>5. b \in Seq(X) /\ Len(b) = Len(k.blocks)
  BY ONLY <1>1, <1>4
<1> QED
  BY <1>1, <1>2, <1>3, <1>5 DEF IsList

LEMMA SameList ==
  ASSUME NEW s, IsList(s), NEW t, IsList(t), Len(s) = Len(t),
         \A i \in 1 .. Len(s) : s[i] = t[i]
  PROVE  s = t
<1>1. PICK X, Y : X = {s[i] : i \in DOMAIN s} /\ Y = {t[i] : i \in DOMAIN t}
  OBVIOUS
<1>2. s \in Seq(X) /\ t \in Seq(Y)
  BY <1>1 DEF IsList
<1>3. s \in Seq(X \cup Y) /\ t \in Seq(X \cup Y)
  BY ONLY <1>2
<1> QED
  BY ONLY <1>3, Len(s) = Len(t), \A i \in 1 .. Len(s) : s[i] = t[i]

LEMMA LegalMoves ==
  ASSUME NEW k, ViewOK(k), NEW x, Legal(k, x), NEW k2, k2 = Received(k, x),
         NEW b, b = BlocksSeen(k), NEW b2, b2 = BlocksSeen(k2)
  PROVE  StreamMove(k.phase, b, k2.phase, b2)
<1>1. /\ DOMAIN b = 1 .. Len(k.blocks) /\ Len(k.blocks) \in Nat
      /\ \A i \in 1 .. Len(k.blocks) : b[i] = BlockSeen(k.blocks[i])
      /\ IsList(b) /\ Len(b) = Len(k.blocks)
  BY ONLY ViewOK(k), b = BlocksSeen(k), BlocksSeenList
<1>2. ASSUME ViewOK(k2)
      PROVE  /\ DOMAIN b2 = 1 .. Len(k2.blocks) /\ Len(k2.blocks) \in Nat
             /\ \A i \in 1 .. Len(k2.blocks) : b2[i] = BlockSeen(k2.blocks[i])
             /\ IsList(b2) /\ Len(b2) = Len(k2.blocks)
  BY ONLY <1>2, b2 = BlocksSeen(k2), BlocksSeenList
<1>3. CASE x.type = "content_block_start"
  <2>1. PICK kind, y : kind = x.kind /\ y = [kind |-> kind, open |-> TRUE, deltas |-> 0]
    OBVIOUS
  <2>2. Began(k, k2, kind) /\ kind \in AllKinds /\ k.phase = "content"
    BY <1>3, <2>1, ViewBegan DEF Legal
  <2>3. /\ ViewOK(k2) /\ k2.phase = "content" /\ Len(k2.blocks) = Len(k.blocks) + 1
        /\ \A i \in 1 .. Len(k.blocks) : k2.blocks[i] = k.blocks[i]
        /\ k2.blocks[Len(k.blocks) + 1] = [kind |-> kind, open |-> TRUE, deltas |-> 0,
                                           content |-> <<>>, signed |-> FALSE]
    BY <2>2 DEF Began
  <2>4. PICK a : a = Append(b, y)
    OBVIOUS
  <2>5. IsList(a) /\ Longer(b, y, a)
    BY ONLY <1>1, <2>4, LongerList
  <2>6. b2 = a
    <3>1. ASSUME NEW i \in 1 .. Len(b2) PROVE b2[i] = a[i]
      <4>1. CASE i \in 1 .. Len(k.blocks)
        BY <1>1, <1>2, <2>3, <2>5, <4>1 DEF Longer
      <4>2. CASE i \notin 1 .. Len(k.blocks)
        <5>1. i = Len(k.blocks) + 1
          BY <1>1, <1>2, <2>3, <4>2
        <5>2. PICK d : d = k2.blocks[i]
          OBVIOUS
        <5>3. d = [kind |-> kind, open |-> TRUE, deltas |-> 0, content |-> <<>>, signed |-> FALSE]
          BY <2>3, <5>1, <5>2
        <5>4. d.kind = kind /\ d.open = TRUE /\ d.deltas = 0
          BY ONLY <5>3
        <5>5. BlockSeen(d) = y
          BY ONLY <2>1, <5>4, Zenon DEF BlockSeen
        <5>6. b2[i] = y
          BY <1>2, <2>3, <5>2, <5>5
        <5> QED
          BY <1>1, <2>5, <5>1, <5>6 DEF Longer
      <4> QED
        BY <4>1, <4>2
    <3>2. IsList(b2) /\ Len(b2) = Len(a)
      BY <1>1, <1>2, <2>3, <2>5 DEF Longer
    <3> QED
      BY ONLY <2>5, <3>1, <3>2, SameList
  <2> QED
    BY <2>1, <2>2, <2>3, <2>4, <2>6 DEF StreamMove
<1>4. CASE x.type = "content_block_delta"
  <2>1. PICK i : i = x.index
    OBVIOUS
  <2>2. /\ Grew(k, k2, i, x.kind, x.content) /\ k.phase = "content"
        /\ i \in 1 .. Len(k.blocks) /\ k.blocks[i].open /\ k.blocks[i].kind # "redacted_thinking"
    BY <1>4, <2>1, ViewGrew DEF Legal
  <2>3. /\ ViewOK(k2) /\ k2.phase = "content" /\ Len(k2.blocks) = Len(k.blocks)
        /\ \A j \in 1 .. Len(k.blocks) : j # i => k2.blocks[j] = k.blocks[j]
    BY <2>2 DEF Grew
  <2>4. BlockSeen(k2.blocks[i]) = [BlockSeen(k.blocks[i]) EXCEPT !.deltas = @ + 1]
    <3>1. DOMAIN k.blocks[i] = BlockFields
      BY <2>2 DEF ViewOK, BlockOK
    <3>2. /\ k2.blocks[i].kind = k.blocks[i].kind /\ k2.blocks[i].open = k.blocks[i].open
          /\ k2.blocks[i].deltas = k.blocks[i].deltas + 1
      BY <2>2, <3>1 DEF Grew, BlockFields
    <3> QED
      BY ONLY <3>2, SeenMore
  <2>5. PICK y, a : y = [b[i] EXCEPT !.deltas = @ + 1] /\ a = [b EXCEPT ![i] = y]
    OBVIOUS
  <2>6. Replaced(b, i, y, a)
    BY <1>1, <2>2, <2>5, ChangedList
  <2>7. b2 = a
    <3>1. ASSUME NEW j \in 1 .. Len(b2) PROVE b2[j] = a[j]
      BY <1>1, <1>2, <2>2, <2>3, <2>4, <2>5, <2>6 DEF Replaced
    <3>2. IsList(b2) /\ Len(b2) = Len(a) /\ IsList(a)
      BY <1>1, <1>2, <2>3, <2>6 DEF Replaced
    <3> QED
      BY ONLY <3>1, <3>2, SameList
  <2>8. a = [b EXCEPT ![i].deltas = @ + 1]
    BY <2>5
  <2>9. i \in DOMAIN b /\ b[i].open /\ b[i].kind # "redacted_thinking"
    BY ONLY <1>1, <2>2, Seen
  <2> QED
    BY <2>2, <2>3, <2>7, <2>8, <2>9 DEF StreamMove
<1>5. CASE x.type = "content_block_stop"
  <2>1. PICK i : i = x.index
    OBVIOUS
  <2>2. /\ Closed(k, k2, i) /\ k.phase = "content" /\ i \in 1 .. Len(k.blocks) /\ k.blocks[i].open
    BY <1>5, <2>1, ViewClosed DEF Legal
  <2>3. /\ ViewOK(k2) /\ k2.phase = "content" /\ Len(k2.blocks) = Len(k.blocks)
        /\ \A j \in 1 .. Len(k.blocks) : j # i => k2.blocks[j] = k.blocks[j]
    BY <2>2 DEF Closed
  <2>4. BlockSeen(k2.blocks[i]) = [BlockSeen(k.blocks[i]) EXCEPT !.open = FALSE]
    <3>1. DOMAIN k.blocks[i] = BlockFields
      BY <2>2 DEF ViewOK, BlockOK
    <3>2. /\ k2.blocks[i].kind = k.blocks[i].kind /\ k2.blocks[i].open = FALSE
          /\ k2.blocks[i].deltas = k.blocks[i].deltas
      BY <2>2, <3>1 DEF Closed, BlockFields
    <3> QED
      BY ONLY <3>2, SeenClosed
  <2>5. PICK y, a : y = [b[i] EXCEPT !.open = FALSE] /\ a = [b EXCEPT ![i] = y]
    OBVIOUS
  <2>6. Replaced(b, i, y, a)
    BY <1>1, <2>2, <2>5, ChangedList
  <2>7. b2 = a
    <3>1. ASSUME NEW j \in 1 .. Len(b2) PROVE b2[j] = a[j]
      <4>1. j \in 1 .. Len(k.blocks) /\ Len(b) = Len(k.blocks)
        BY <1>1, <1>2, <2>3
      <4>2. CASE j = i
        <5>1. b2[i] = BlockSeen(k2.blocks[i]) /\ b[i] = BlockSeen(k.blocks[i]) /\ a[i] = y
          BY <1>1, <1>2, <2>2, <2>3, <2>6 DEF Replaced
        <5> QED
          BY ONLY <2>4, <2>5, <4>2, <5>1, Zenon
      <4>3. CASE j # i
        <5>1. b2[j] = BlockSeen(k2.blocks[j]) /\ b[j] = BlockSeen(k.blocks[j]) /\ a[j] = b[j]
          BY ONLY <1>1, <1>2, <2>3, <2>6, <4>1, <4>3 DEF Replaced
        <5>2. k2.blocks[j] = k.blocks[j]
          BY ONLY <2>3, <4>1, <4>3
        <5> QED
          BY ONLY <5>1, <5>2
      <4> QED
        BY ONLY <4>2, <4>3
    <3>2. IsList(b2) /\ Len(b2) = Len(a) /\ IsList(a)
      BY <1>1, <1>2, <2>3, <2>6 DEF Replaced
    <3> QED
      BY ONLY <3>1, <3>2, SameList
  <2>8. a = [b EXCEPT ![i].open = FALSE]
    BY <2>5
  <2>9. i \in DOMAIN b /\ b[i].open
    BY ONLY <1>1, <2>2, Seen
  <2> QED
    BY <2>2, <2>3, <2>7, <2>8, <2>9 DEF StreamMove
<1>6. CASE x.type \in {"message_start", "message_delta", "message_stop"}
  <2>1. DOMAIN k = {"phase", "blocks", "reason"}
    BY DEF ViewOK
  <2>2. k2.blocks = k.blocks
    BY <1>6, <2>1 DEF Received
  <2>3. b2 = b
    BY <2>2 DEF BlocksSeen
  <2>4. CASE x.type = "message_start"
    BY <2>1, <2>3, <2>4 DEF Legal, Received, StreamMove
  <2>5. CASE x.type = "message_delta"
    <3>1. \A i \in 1 .. Len(k.blocks) : ~ k.blocks[i].open
      BY <2>5 DEF Legal
    <3>2. \A i \in DOMAIN b : ~ b[i].open
      BY ONLY <1>1, <3>1, Seen
    <3> QED
      BY <2>1, <2>3, <2>5, <3>2 DEF Legal, Received, StreamMove
  <2>6. CASE x.type = "message_stop"
    BY <2>1, <2>3, <2>6 DEF Legal, Received, StreamMove
  <2> QED
    BY <1>6, <2>4, <2>5, <2>6
<1> QED
  BY <1>3, <1>4, <1>5, <1>6 DEF Legal

LEMMA StreamStep ==
  ASSUME ~ MixesThinking, StreamInv, [NextStream]_streamVars
  PROVE  [Sse!Next]_<<client.phase, BlocksNow>>
<1>1. StreamInv' /\ (Send \/ UNCHANGED client)
  BY NextStreamInv
<1>2. CASE UNCHANGED client
  BY <1>2 DEF BlocksNow, BlocksSeen
<1>3. CASE Send
  <2>1. PICK k, k2, x, b, b2 : /\ k = client /\ k2 = client' /\ x = Head(ctx.out)
                               /\ b = BlocksNow /\ b2 = BlocksNow'
    OBVIOUS
  <2>2. Legal(k, x) /\ ViewOK(k) /\ k2 = Received(k, x)
    BY <1>3, <2>1, SendInv DEF StreamInv, StreamOK, Send
  <2>3. b = BlocksSeen(k) /\ b2 = BlocksSeen(k2)
    BY <2>1 DEF BlocksNow, BlocksSeen
  <2>4. StreamMove(k.phase, b, k2.phase, b2)
    BY ONLY <2>2, <2>3, LegalMoves
  <2>5. /\ BlocksNow = [i \in DOMAIN client.blocks |->
                          [kind |-> client.blocks[i].kind, open |-> client.blocks[i].open,
                           deltas |-> client.blocks[i].deltas]]
        /\ BlocksNow' = [i \in DOMAIN client.blocks |->
                          [kind |-> client.blocks[i].kind, open |-> client.blocks[i].open,
                           deltas |-> client.blocks[i].deltas]]'
    BY DEF BlocksNow, BlocksSeen, BlockSeen
  <2>6. Sse!Kinds = AllKinds
    BY DEF Sse!Kinds, AllKinds
  <2>7. Sse!Next
    BY <2>1, <2>4, <2>5, <2>6
       DEF StreamMove, Sse!Next, Sse!MessageStart, Sse!MessageDelta, Sse!MessageStop,
           Sse!ContentBlockStart, Sse!ContentBlockDelta, Sse!ContentBlockStop
  <2> QED
    BY <2>7
<1> QED
  BY <1>1, <1>2, <1>3

-----------------------------------------------------------------------------
(* Theorems about the stream, where no model thinks both in tags and in      *)
(* events.                                                                   *)

\* Each block of thinking with content is signed before it is stopped, whoever
\* stops it and wherever the upstream cuts its text (create_signature_delta_event,
\* handle_content_block_stop): the client can send it back.
THEOREM ThoughtsSigned ==
  ASSUME ~ MixesThinking
  PROVE  StreamSpec => []ThinkingSigned
<1>1. ASSUME StreamInv
      PROVE  ThinkingSigned
  <2>1. ViewSigned(client) /\ DOMAIN client.blocks = 1 .. Len(client.blocks)
    BY <1>1, ListLength DEF StreamInv, StreamOK, ViewOK
  <2> QED
    BY <2>1 DEF ViewSigned, Signed, ThinkingSigned
<1>2. StreamInv /\ [NextStream]_streamVars => StreamInv'
  BY NextStreamInv
<1> QED
  BY <1>1, <1>2, InitStreamInv, PTL DEF StreamSpec

\* The client reads a stream by the rules of the Messages API: one message, each
\* block started, extended and stopped in this order, its end behind the last
\* block (SseStateManager, of which the deltas of thinking make no use).
THEOREM StreamIsAnthropic ==
  ASSUME ~ MixesThinking
  PROVE  StreamSpec => ImplementsAnthropicStream
<1>1. InitStream => Sse!Init
  <2> SUFFICES ASSUME InitStream PROVE Sse!Init
    OBVIOUS
  <2>1. client.phase = "none" /\ client.blocks = <<>>
    BY DEF InitStream
  <2> QED
    BY <2>1 DEF Sse!Init
<1>2. StreamInv /\ [NextStream]_streamVars => StreamInv' /\ [Sse!Next]_<<client.phase, BlocksNow>>
  BY NextStreamInv, StreamStep
<1> QED
  BY <1>1, <1>2, InitStreamInv, PTL
     DEF StreamSpec, ImplementsAnthropicStream, Sse!Spec, Sse!vars, BlocksNow, BlocksSeen, BlockSeen
=============================================================================
