------------------------- MODULE MessagesHandler_proofs -------------------------
(***************************************************************************)
(* Proofs about MessagesHandler for every request, bound on rounds and      *)
(* length of answers: what is recorded, who holds a slot, and which calls   *)
(* reach the client; and about RequestConversion, which the handlers call   *)
(* first, for every conversation: what is sent answers each use, declares   *)
(* each tool and leads each name back to the client's.                     *)
(***************************************************************************)
EXTENDS MessagesHandler, RequestConversion,
        FiniteSetTheorems, SequenceTheorems, WellFoundedInduction, TLAPS

-----------------------------------------------------------------------------
(* What is recorded, and who holds a slot.                                 *)

\* Nothing is recorded before the end, and a slot is held only to read.
Unfinished ==
  /\ pc # "done" => usage = <<>> /\ traces = <<>>
  /\ slot => pc = "reading"

Inv == OneRecordOneTrace /\ Unfinished

LEMMA FirstRecord ==
  ASSUME NEW x
  PROVE  /\ Append(<<>>, x) = <<x>>
         /\ Len(<<x>>) = 1 /\ <<x>>[1] = x /\ Len(<<>>) = 0
OBVIOUS

LEMMA InitInv == Init => Inv
BY FirstRecord DEF Init, Inv, Unfinished, OneRecordOneTrace

\* A step that neither ends the request nor takes a slot.
LEMMA GoesOn ==
  ASSUME Inv, pc # "done", pc' # "done", UNCHANGED <<usage, traces>>,
         slot' => pc' = "reading"
  PROVE  Inv'
BY FirstRecord DEF Inv, Unfinished, OneRecordOneTrace

\* An ending says the same in both records, and success with a status of 200.
LEMMA FinishInv ==
  ASSUME Inv, pc # "done", NEW outcome, NEW credit, NEW status, NEW content,
         NEW reason, Finish(outcome, credit, status, content, reason),
         outcome = "success" => status = 200
  PROVE  Inv'
<1> DEFINE record == [status |-> IF outcome = "success" THEN "success" ELSE "error",
                      credits |-> credit]
           response == [status |-> status, content |-> content, reason |-> reason]
<1>1. usage = <<>> /\ traces = <<>>
  BY DEF Inv, Unfinished
<1>2. /\ pc' = "done" /\ slot' = FALSE
      /\ usage' = <<record>> /\ answer' = <<response>>
      /\ traces' = IF Traced THEN <<outcome>> ELSE <<>>
      /\ payload' = payload
  BY <1>1, FirstRecord DEF Finish, Answer
<1>3. /\ Len(usage') = 1 /\ usage'[1] = record
      /\ answer'[1] = response
      /\ Traced => Len(traces') = 1 /\ traces'[1] = outcome
  BY <1>2, FirstRecord
<1>4. Traced' = Traced
  BY <1>2 DEF Traced, route
<1>5. record.status = (IF outcome = "success" THEN "success" ELSE "error")
      /\ response.status = status
  OBVIOUS
<1> HIDE DEF record, response
<1>6. OneRecordOneTrace'
  BY <1>2, <1>3, <1>4, <1>5 DEF OneRecordOneTrace
<1> QED
  BY <1>2, <1>6 DEF Inv, Unfinished

LEMMA NextInv == Inv /\ [Next]_vars => Inv'
<1> SUFFICES ASSUME Inv, [Next]_vars PROVE Inv'
  OBVIOUS
<1>1. CASE Refuse
  <2>1. usage = <<>> /\ traces = <<>> /\ ~slot
    BY <1>1 DEF Refuse, Inv, Unfinished
  <2>2. /\ usage' = <<[status |-> "error", credits |-> 0]>>
        /\ pc' = "done" /\ UNCHANGED <<payload, slot>>
        /\ ~(payload.provider /\ payload.valid)
    BY <1>1, <2>1, FirstRecord DEF Refuse
  <2>3. Len(usage') = 1 /\ usage'[1].status = "error"
    BY <2>2, FirstRecord
  <2> QED
    BY <2>1, <2>2, <2>3 DEF Inv, Unfinished, OneRecordOneTrace
<1>2. CASE Accept \/ CallSucceeds \/ RoundDecoded \/ AppendSearchRound
           \/ \E found \in Found : SearchNext(found)
  <2>1. /\ pc # "done" /\ pc' # "done" /\ UNCHANGED <<usage, traces>>
        /\ slot' => pc' = "reading"
    BY <1>2 DEF Accept, CallSucceeds, RoundDecoded, AppendSearchRound, SearchNext,
                AllSearched, Inv, Unfinished, reported
  <2> QED
    BY <2>1, GoesOn
<1>3. CASE Events
  <2>1. PICK change : Upstream(change)
    BY <1>3 DEF Events, AssistantResponse, LeakedCall, ReasoningContent,
                ToolUseStarts, ToolUseEnds, Metering, ContextUsage,
                ContentLengthExceeded
  <2> QED
    BY <2>1, GoesOn DEF Upstream, reported
<1>4. CASE StreamBreaks \/ WholeBreaks \/ RoundBreaks \/ StreamEnds \/ WholeEnds
           \/ Flush
  BY <1>4, FinishInv DEF StreamBreaks, WholeBreaks, RoundBreaks, StreamEnds,
                         WholeEnds, Flush, AllSearched
<1>5. ASSUME NEW e \in Errors, CallFails(e) \/ SearchFails(e)
      PROVE  Inv'
  BY <1>5, FinishInv DEF CallFails, SearchFails
<1>6. ASSUME NEW found \in Found, SearchAlone(found)
      PROVE  Inv'
  BY <1>6, FinishInv DEF SearchAlone
<1>7. CASE ClientLeaves
  BY <1>7, GoesOn DEF ClientLeaves, reported
<1>8. CASE UNCHANGED vars
  BY <1>8 DEF vars, reported, Inv, Unfinished, OneRecordOneTrace, Traced, route
<1> QED
  BY <1>1, <1>2, <1>3, <1>4, <1>5, <1>6, <1>7, <1>8 DEF Next, Ends

\* Each of the ways out of post_messages and post_messages_cc that answers the
\* client records the request once, and on the traced routes traces it once with
\* the same outcome.
THEOREM RecordedOnce == Spec => []OneRecordOneTrace
<1>1. Inv => OneRecordOneTrace
  BY DEF Inv
<1> QED
  BY <1>1, InitInv, NextInv, PTL DEF Spec

\* The slot of an answer is given back before the handler searches or asks
\* again, for any number of rounds, so requests cannot wait for each other's.
THEOREM NeverHoldsAndWaits == Spec => []NoHoldAndWait
<1>1. Inv => NoHoldAndWait
  BY DEF Inv, Unfinished, NoHoldAndWait
<1> QED
  BY <1>1, InitInv, NextInv, PTL DEF Spec

-----------------------------------------------------------------------------
(* Sequences joined into one. *)

\* Of the numbers that have a property, if any, one is the smallest.
LEMMA Smallest ==
  ASSUME NEW T, T \subseteq Nat, T # {}
  PROVE  \E m \in T : \A x \in T : m <= x
<1>1. PICK m \in T : \A x \in T : ~(<<x, m>> \in OpToRel(<, Nat))
  BY NatLessThanWellFounded, WFMin
<1>2. ASSUME NEW x \in T
      PROVE  m <= x
  <2>1. <<x, m>> \in Nat \X Nat
    OBVIOUS
  <2>2. ~(x < m)
    BY <1>1, <2>1 DEF OpToRel
  <2> QED
    BY <2>2
<1> QED
  BY <1>2

\* What joining the first n sequences of ss gives, for every n up to the last.
Joins(ss, n, f) ==
  f = [i \in 1 .. n |-> IF i = 1 THEN ss[i] ELSE f[i - 1] \o ss[i]]

\* Such a function exists, so FlattenSeq is what its recursion says.
LEMMA FlattenDefined ==
  ASSUME NEW ss, Len(ss) \in Nat, Len(ss) # 0
  PROVE  \E f : Joins(ss, Len(ss), f) /\ FlattenSeq(ss) = f[Len(ss)]
<1> DEFINE T == {n \in Nat : ~ \E f : Joins(ss, n, f)}
<1>1. T = {}
  <2> SUFFICES ASSUME T # {} PROVE FALSE
    OBVIOUS
  <2>1. PICK m \in T : \A x \in T : m <= x
    <3>1. T \subseteq Nat
      OBVIOUS
    <3> QED
      BY <3>1, Smallest
  <2>2. m # 0
    <3>1. Joins(ss, 0, [i \in 1 .. 0 |-> 0])
      BY DEF Joins
    <3> QED
      BY <3>1, <2>1
  <2>3. m \in Nat /\ m - 1 \in Nat /\ m - 1 \notin T
    BY <2>1, <2>2
  <2>4. PICK f : Joins(ss, m - 1, f)
    BY <2>3
  <2> DEFINE g == [i \in 1 .. m |-> IF i = 1 THEN ss[i] ELSE f[i - 1] \o ss[i]]
  <2>5. ASSUME NEW i \in 1 .. m - 1
        PROVE  g[i] = f[i]
    <3>1. i \in 1 .. m
      BY <2>3
    <3>2. f[i] = IF i = 1 THEN ss[i] ELSE f[i - 1] \o ss[i]
      BY <2>4 DEF Joins
    <3> QED
      BY <3>1, <3>2
  <2>6. \A i \in 1 .. m : i # 1 => i - 1 \in 1 .. m - 1
    BY <2>3
  <2>7. g = [i \in 1 .. m |-> IF i = 1 THEN ss[i] ELSE g[i - 1] \o ss[i]]
    <3> HIDE DEF g
    <3>1. \A i \in 1 .. m : i # 1 => g[i - 1] = f[i - 1]
      BY <2>5, <2>6
    <3>2. g = [i \in 1 .. m |-> IF i = 1 THEN ss[i] ELSE f[i - 1] \o ss[i]]
      BY DEF g
    <3> QED
      BY <3>1, <3>2
  <2>8. Joins(ss, m, g)
    BY <2>7 DEF Joins
  <2> HIDE DEF g
  <2> QED
    BY <2>1, <2>8
<1>2. PICK f : Joins(ss, Len(ss), f)
  BY <1>1
<1> DEFINE h == CHOOSE f_1 : f_1 = [i \in 1 .. Len(ss) |->
                   IF i = 1 THEN ss[i] ELSE f_1[i - 1] \o ss[i]]
<1>3. Joins(ss, Len(ss), h)
  BY <1>2 DEF Joins
<1>4. FlattenSeq(ss) = h[Len(ss)]
  BY DEF FlattenSeq
<1> HIDE DEF h
<1> QED
  BY <1>3, <1>4

\* The positions of b in s: as before with others behind it, one more with b.
Positions(s, b) == {i \in DOMAIN s : s[i] = b}

LEMMA PositionsOf ==
  ASSUME NEW X, NEW s \in Seq(X), NEW t \in Seq(X), NEW b
  PROVE  /\ IsFiniteSet(Positions(s, b))
         /\ (\A i \in DOMAIN t : t[i] # b) => Positions(s \o t, b) = Positions(s, b)
<1>1. /\ DOMAIN s = 1 .. Len(s) /\ Len(s) \in Nat
      /\ DOMAIN t = 1 .. Len(t) /\ Len(t) \in Nat
  OBVIOUS
<1>2. /\ DOMAIN (s \o t) = 1 .. Len(s) + Len(t)
      /\ \A i \in 1 .. Len(s) + Len(t) :
           (s \o t)[i] = IF i <= Len(s) THEN s[i] ELSE t[i - Len(s)]
  OBVIOUS
<1>3. IsFiniteSet(Positions(s, b))
  <2>1. IsFiniteSet(1 .. Len(s))
    BY <1>1, FS_Interval
  <2> QED
    BY <1>1, <2>1, FS_Subset DEF Positions
<1>4. ASSUME \A i \in DOMAIN t : t[i] # b
      PROVE  Positions(s \o t, b) = Positions(s, b)
  BY <1>1, <1>2, <1>4 DEF Positions
<1> QED
  BY <1>3, <1>4

LEMMA PositionsMore ==
  ASSUME NEW X, NEW s, s \in Seq(X), NEW b
  PROVE  /\ Positions(s \o <<b>>, b) = Positions(s, b) \cup {Len(s) + 1}
         /\ Len(s) + 1 \notin Positions(s, b)
<1>1. DOMAIN s = 1 .. Len(s) /\ Len(s) \in Nat
  OBVIOUS
<1>2. s \in Seq(X \cup {b}) /\ <<b>> \in Seq(X \cup {b})
  BY SeqMonotonic
<1>3. /\ DOMAIN (s \o <<b>>) = 1 .. Len(s) + 1
      /\ \A i \in 1 .. Len(s) : (s \o <<b>>)[i] = s[i]
      /\ (s \o <<b>>)[Len(s) + 1] = b
  BY <1>1, <1>2
<1> QED
  BY <1>1, <1>3 DEF Positions

\* What a sequence of sequences joins to, from the front: nothing but what is in
\* them, in a sequence whose first n parts are the first n joined.
LEMMA JoinsInSeq ==
  ASSUME NEW X, NEW ss \in Seq(Seq(X)), NEW f, Joins(ss, Len(ss), f)
  PROVE  \A n \in 1 .. Len(ss) : f[n] \in Seq(X)
<1> DEFINE T == {n \in 1 .. Len(ss) : f[n] \notin Seq(X)}
<1> SUFFICES ASSUME T # {} PROVE FALSE
  OBVIOUS
<1>1. T \subseteq Nat
  OBVIOUS
<1>2. PICK m \in T : \A x \in T : m <= x
  BY <1>1, Smallest
<1>3. f[m] = IF m = 1 THEN ss[m] ELSE f[m - 1] \o ss[m]
  BY <1>2 DEF Joins
<1>4. ss[m] \in Seq(X)
  BY <1>2
<1>5. CASE m = 1
  BY <1>2, <1>3, <1>4, <1>5
<1>6. CASE m # 1
  <2>1. m - 1 \in 1 .. Len(ss) /\ ~(m <= m - 1)
    BY <1>2, <1>6
  <2>2. f[m - 1] \in Seq(X)
    BY <1>2, <2>1
  <2>3. f[m - 1] \o ss[m] \in Seq(X)
    BY <1>4, <2>2, ConcatProperties
  <2> QED
    BY <1>2, <1>3, <1>6, <2>3
<1> QED
  BY <1>5, <1>6

LEMMA FlattenInSeq ==
  ASSUME NEW X, NEW ss \in Seq(Seq(X))
  PROVE  FlattenSeq(ss) \in Seq(X)
<1>1. CASE Len(ss) = 0
  <2>1. ss = <<>> /\ FlattenSeq(ss) = ss
    BY <1>1, EmptySeq DEF FlattenSeq
  <2> QED
    BY <2>1, EmptySeq
<1>2. CASE Len(ss) # 0
  <2>1. Len(ss) \in Nat
    OBVIOUS
  <2>2. PICK f : Joins(ss, Len(ss), f) /\ FlattenSeq(ss) = f[Len(ss)]
    BY <1>2, <2>1, FlattenDefined
  <2>3. Len(ss) \in 1 .. Len(ss)
    BY <1>2, <2>1
  <2> QED
    BY <2>2, <2>3, JoinsInSeq
<1> QED
  BY <1>1, <1>2

\* b does not occur in p.  Each part of ss is the one block of made that it
\* stands for, or neither that block nor the part's is b.
Misses(p, b) == \A i \in DOMAIN p : p[i] # b
Stands(ss, made, b) ==
  /\ Len(made) = Len(ss) /\ DOMAIN made = 1 .. Len(ss)
  /\ \A i \in 1 .. Len(ss) :
       \/ ss[i] = <<made[i]>>
       \/ made[i] # b /\ \A j \in DOMAIN ss[i] : ss[i][j] # b

\* Then b occurs behind p as often as among the blocks.
LEMMA FlattenCounts ==
  ASSUME NEW X, NEW p, p \in Seq(X), NEW ss, ss \in Seq(Seq(X)), NEW b,
         NEW made, Misses(p, b), Stands(ss, made, b)
  PROVE  Cardinality(Positions(p \o FlattenSeq(ss), b)) = Cardinality(Positions(made, b))
<1> USE DEF Misses, Stands
<1>1. Len(ss) \in Nat
  OBVIOUS
<1> DEFINE MadeTo(n) == {i \in 1 .. n : made[i] = b}
<1>2. Positions(p, b) = {} /\ MadeTo(0) = {} /\ Positions(made, b) = MadeTo(Len(ss))
  BY DEF Positions
<1>3. CASE Len(ss) = 0
  <2>1. FlattenSeq(ss) = <<>>
    BY <1>3, EmptySeq DEF FlattenSeq
  <2>2. p \o FlattenSeq(ss) = p
    BY <2>1, ConcatEmptySeq
  <2> QED
    BY <1>2, <1>3, <2>2
<1>4. CASE Len(ss) # 0
  <2>1. PICK f : Joins(ss, Len(ss), f) /\ FlattenSeq(ss) = f[Len(ss)]
    BY <1>1, <1>4, FlattenDefined
  <2>2. \A n \in 1 .. Len(ss) : f[n] \in Seq(X)
    BY <2>1, JoinsInSeq
  <2> DEFINE g == [n \in 0 .. Len(ss) |-> IF n = 0 THEN p ELSE p \o f[n]]
  <2>3. \A n \in 0 .. Len(ss) : g[n] \in Seq(X)
    BY <2>2, ConcatProperties
  <2>4. ASSUME NEW n \in 1 .. Len(ss)
        PROVE  g[n] = g[n - 1] \o ss[n] /\ ss[n] \in Seq(X)
    <3>1. f[n] = IF n = 1 THEN ss[n] ELSE f[n - 1] \o ss[n]
      BY <2>1 DEF Joins
    <3>2. ss[n] \in Seq(X)
      OBVIOUS
    <3>3. CASE n = 1
      <4>1. g[n - 1] = p /\ g[n] = p \o f[n]
        BY <1>1, <3>3
      <4> QED
        BY ONLY <3>1, <3>2, <3>3, <4>1, Zenon
    <3>4. CASE n # 1
      <4>1. n - 1 \in 1 .. Len(ss) /\ n - 1 \in 0 .. Len(ss) /\ n - 1 # 0
        BY <1>1, <3>4
      <4>2. f[n - 1] \in Seq(X)
        BY <2>2, <4>1
      <4>3. p \o (f[n - 1] \o ss[n]) = (p \o f[n - 1]) \o ss[n]
        <5>1. PICK u, v : u = f[n - 1] /\ v = ss[n]
          OBVIOUS
        <5>2. p \in Seq(X) /\ u \in Seq(X) /\ v \in Seq(X)
          BY ONLY p \in Seq(X), <3>2, <4>2, <5>1
        <5>3. (p \o u) \o v = p \o (u \o v)
          BY ONLY <5>2, ConcatAssociative
        <5> QED
          BY ONLY <5>1, <5>3
      <4>4. g[n - 1] = p \o f[n - 1] /\ g[n] = p \o f[n]
        <5>1. n \in 0 .. Len(ss) /\ n # 0
          BY <1>1
        <5> QED
          BY <4>1, <5>1, Zenon
      <4> QED
        BY <3>1, <3>2, <3>4, <4>3, <4>4
    <3> QED
      BY <3>3, <3>4
  <2>5. g[0] = p /\ g[Len(ss)] = p \o FlattenSeq(ss)
    BY <1>1, <1>4, <2>1
  <2> HIDE DEF g
  <2> DEFINE T == {n \in 0 .. Len(ss) : Cardinality(Positions(g[n], b)) # Cardinality(MadeTo(n))}
  <2>6. T = {}
    <3> SUFFICES ASSUME T # {} PROVE FALSE
      OBVIOUS
    <3>1. T \subseteq Nat
      BY <1>1
    <3>2. PICK n \in T : \A x \in T : n <= x
      BY <3>1, Smallest
    <3>3. n # 0
      BY <1>2, <2>5, <3>2
    <3>4. n \in 1 .. Len(ss) /\ n - 1 \in 0 .. Len(ss) /\ n - 1 \notin T /\ n - 1 \in Nat
      BY <1>1, <3>2, <3>3
    <3>5. Cardinality(Positions(g[n - 1], b)) = Cardinality(MadeTo(n - 1))
      BY <3>4
    <3>6. g[n - 1] \in Seq(X) /\ ss[n] \in Seq(X) /\ g[n] = g[n - 1] \o ss[n]
      BY <2>3, <2>4, <3>4
    <3>7. MadeTo(n) = MadeTo(n - 1) \cup (IF made[n] = b THEN {n} ELSE {}) /\ n \notin MadeTo(n - 1)
      BY <3>4
    <3>8. IsFiniteSet(MadeTo(n - 1)) /\ IsFiniteSet(Positions(g[n - 1], b))
      <4>1. IsFiniteSet(1 .. n - 1) /\ MadeTo(n - 1) \subseteq 1 .. n - 1
        BY <3>4, FS_Interval
      <4> QED
        BY <3>6, <4>1, FS_Subset, PositionsOf
    <3>9. CASE ss[n] = <<b>> /\ made[n] = b
      <4>1. /\ Positions(g[n], b) = Positions(g[n - 1], b) \cup {Len(g[n - 1]) + 1}
            /\ Len(g[n - 1]) + 1 \notin Positions(g[n - 1], b)
        <5>1. \A u : u \in Seq(X) =>
                 /\ Positions(u \o <<b>>, b) = Positions(u, b) \cup {Len(u) + 1}
                 /\ Len(u) + 1 \notin Positions(u, b)
          BY ONLY PositionsMore
        <5> QED
          BY ONLY <3>6, <3>9, <5>1, Zenon
      <4>2. Cardinality(Positions(g[n], b)) = Cardinality(Positions(g[n - 1], b)) + 1
        BY <3>8, <4>1, FS_AddElement
      <4>3. Cardinality(MadeTo(n)) = Cardinality(MadeTo(n - 1)) + 1
        BY <3>7, <3>8, <3>9, FS_AddElement
      <4> HIDE DEF MadeTo
      <4> QED
        BY <3>2, <3>5, <4>2, <4>3
    <3>10. CASE made[n] # b /\ \A j \in DOMAIN ss[n] : ss[n][j] # b
      <4>1. Positions(g[n], b) = Positions(g[n - 1], b)
        BY <3>6, <3>10, PositionsOf
      <4>2. MadeTo(n) = MadeTo(n - 1)
        BY <3>7, <3>10
      <4> HIDE DEF MadeTo
      <4> QED
        BY <3>2, <3>5, <4>1, <4>2
    <3>11. \/ ss[n] = <<b>> /\ made[n] = b
           \/ made[n] # b /\ (\A j \in DOMAIN ss[n] : ss[n][j] # b)
      <4>1. \/ ss[n] = <<made[n]>>
            \/ made[n] # b /\ (\A j \in DOMAIN ss[n] : ss[n][j] # b)
        BY <3>4, Zenon
      <4>2. CASE ss[n] = <<made[n]>> /\ made[n] # b
        <5>1. DOMAIN ss[n] = {1} /\ ss[n][1] = made[n]
          BY <4>2
        <5> QED
          BY <4>2, <5>1
      <4> QED
        BY <4>1, <4>2, Zenon
    <3> QED
      BY <3>9, <3>10, <3>11
  <2>7. Len(ss) \in 0 .. Len(ss) /\ Len(ss) \notin T
    BY <1>1, <2>6
  <2>8. Cardinality(Positions(g[Len(ss)], b)) = Cardinality(MadeTo(Len(ss)))
    BY <2>7
  <2> HIDE DEF MadeTo
  <2> QED
    BY <1>2, <2>5, <2>8
<1> QED
  BY <1>3, <1>4

-----------------------------------------------------------------------------
(* What a flush shows the client. *)

\* What upstream sends when known are the tools of the request, and what the
\* client may be shown: searches, text and calls of tools other than the search.
Pieces(known) == {Text} \cup [type : {"tool_use"}, name : known, input : {"args"}]
Calls(known) == [name : known, input : {"args"}, whole : BOOLEAN, stopped : BOOLEAN]
Searches == [type : {"server_tool_use", "web_search_tool_result"}, name : {"web_search"},
             input : {"query"} \cup Found]
ClientCalls(known) == [type : {"tool_use"}, name : known \ {"web_search"},
                       input : {"args", "{}"}]
Shown(known) == Searches \cup {Text} \cup ClientCalls(known)

LEMMA MappedSeq ==
  ASSUME NEW S, NEW n \in Nat, NEW f \in [1 .. n -> S]
  PROVE  f \in Seq(S) /\ Len(f) = n
BY SeqDef

\* A piece of text shows no search, and none of the calls made as such.
LEMMA TextShown ==
  ASSUME NEW known, NEW tools, NEW x \in Pieces(known)
  PROVE  /\ TextBlocks(x, tools, known) \in Seq(Shown(known))
         /\ \A t \in ClientTools(tools) :
              TextBlocks(x, tools, known) \in Seq(Shown(known) \ {ToolBlock(t)})
<1>1. Text \in Shown(known) /\ \A t : Text # ToolBlock(t)
  BY DEF Shown, Text, ToolBlock
<1>2. ASSUME Reclaimed(x, known)
      PROVE  x \in ClientCalls(known)
  <2>1. x.type = "tool_use" /\ x.name \in known \ {"web_search"}
    BY <1>2 DEF Reclaimed
  <2>2. x \in [type : {"tool_use"}, name : known, input : {"args"}]
    <3>1. Text.type = "text"
      BY DEF Text
    <3>2. x # Text
      BY <2>1, <3>1
    <3> QED
      BY <3>2 DEF Pieces
  <2>3. x = [type |-> x.type, name |-> x.name, input |-> x.input] /\ x.input = "args"
    BY <2>2
  <2> QED
    BY <2>1, <2>3 DEF ClientCalls
<1>3. ASSUME NEW t, x = ToolBlock(t)
      PROVE  t.name = x.name /\ Input(t) = x.input
  BY <1>3 DEF ToolBlock
<1>4. CASE ~Reclaimed(x, known)
  <2>1. TextBlocks(x, tools, known) = <<Text>>
    BY <1>4 DEF TextBlocks
  <2> QED
    BY <1>1, <2>1
<1>5. CASE /\ Reclaimed(x, known)
           /\ \E t \in ClientTools(tools) : t.name = x.name /\ Input(t) = x.input
  <2>1. TextBlocks(x, tools, known) = <<>>
    BY <1>5 DEF TextBlocks
  <2> QED
    BY <2>1, EmptySeq
<1>6. CASE /\ Reclaimed(x, known)
           /\ ~ \E t \in ClientTools(tools) : t.name = x.name /\ Input(t) = x.input
  <2>1. TextBlocks(x, tools, known) = <<x>>
    BY <1>6 DEF TextBlocks
  <2>2. x \in Shown(known) /\ \A t \in ClientTools(tools) : x # ToolBlock(t)
    BY <1>2, <1>3, <1>6 DEF Shown
  <2> QED
    BY <2>1, <2>2
<1> QED
  BY <1>4, <1>5, <1>6

\* A call shows itself or the search it asked for.
LEMMA CallShown ==
  ASSUME NEW known, NEW x \in Calls(known), NEW found \in Found
  PROVE  /\ CallBlocks(x, found) \in Seq(Shown(known))
         /\ \A t : ~IsSearch(t) =>
              \/ CallBlocks(x, found) = <<ToolBlock(x)>>
              \/ /\ ToolBlock(x) # ToolBlock(t)
                 /\ \A j \in DOMAIN CallBlocks(x, found) :
                      CallBlocks(x, found)[j] # ToolBlock(t)
<1>1. CASE IsSearch(x)
  <2> DEFINE one == [type |-> "server_tool_use", name |-> "web_search", input |-> "query"]
             two == [type |-> "web_search_tool_result", name |-> "web_search",
                     input |-> found]
  <2>1. CallBlocks(x, found) = <<one, two>>
    BY <1>1 DEF CallBlocks, SearchBlocks
  <2>2. one \in Searches /\ two \in Searches
    BY DEF Searches
  <2>3. \A t : one # ToolBlock(t) /\ two # ToolBlock(t)
    BY DEF ToolBlock
  <2>4. ASSUME NEW t, ~IsSearch(t)
        PROVE  ToolBlock(x) # ToolBlock(t)
    <3>1. ToolBlock(x).name = x.name /\ ToolBlock(t).name = t.name
      BY DEF ToolBlock
    <3> QED
      BY <1>1, <2>4, <3>1 DEF IsSearch
  <2> HIDE DEF one, two
  <2>5. DOMAIN <<one, two>> = {1, 2} /\ <<one, two>>[1] = one /\ <<one, two>>[2] = two
    OBVIOUS
  <2>6. <<one, two>> \in Seq(Shown(known))
    BY <2>2 DEF Shown
  <2> QED
    BY <2>1, <2>3, <2>4, <2>5, <2>6
<1>2. CASE ~IsSearch(x)
  <2>1. CallBlocks(x, found) = <<ToolBlock(x)>>
    BY <1>2 DEF CallBlocks
  <2>2. ToolBlock(x) \in Shown(known)
    BY <1>2 DEF ToolBlock, Input, IsSearch, Calls, Shown, ClientCalls
  <2> QED
    BY <2>1, <2>2
<1> QED
  BY <1>1, <1>2

\* What a flush is made of, and what comes out of it: content the client may
\* see, in which each call it is to run occurs as often as the model made it.
FlushTyped(known, shown, text, tools, found) ==
  /\ shown \in Seq(Searches) /\ text \in Seq(Pieces(known))
  /\ tools \in Seq(Calls(known)) /\ found \in Seq(Found) /\ Len(found) = Len(tools)

Made(tools) == [i \in DOMAIN tools |-> ToolBlock(tools[i])]

ShowsCalls(content, tools, known) ==
  /\ content \in Seq(Shown(known))
  /\ \A t \in ClientTools(tools) :
       /\ Cardinality(Positions(content, ToolBlock(t)))
            = Cardinality(Positions(Made(tools), ToolBlock(t)))
       /\ \E i \in DOMAIN content : content[i] = ToolBlock(t)

\* A flush comes to that, whatever was searched and leaked.
LEMMA FlushShows ==
  ASSUME NEW known, NEW shown, NEW text, NEW tools, NEW found,
         FlushTyped(known, shown, text, tools, found)
  PROVE  ShowsCalls(BuildFlushContent(shown, text, tools, found, known), tools, known)
<1> DEFINE content == BuildFlushContent(shown, text, tools, found, known)
           made == Made(tools)
<1> USE DEF FlushTyped
<1> DEFINE parts == [i \in DOMAIN text |-> TextBlocks(text[i], tools, known)]
           blocks == [i \in DOMAIN tools |-> CallBlocks(tools[i], found[i])]
<1>1. /\ Len(text) \in Nat /\ DOMAIN text = 1 .. Len(text)
      /\ Len(tools) \in Nat /\ DOMAIN tools = 1 .. Len(tools)
      /\ \A i \in 1 .. Len(text) : text[i] \in Pieces(known)
      /\ \A i \in 1 .. Len(tools) : tools[i] \in Calls(known) /\ found[i] \in Found
  OBVIOUS
<1>2. parts \in Seq(Seq(Shown(known)))
  <2>1. \A i \in 1 .. Len(text) : TextBlocks(text[i], tools, known) \in Seq(Shown(known))
    BY <1>1, TextShown
  <2>2. parts \in [1 .. Len(text) -> Seq(Shown(known))]
    BY <1>1, <2>1
  <2> QED
    BY ONLY <1>1, <2>2, MappedSeq
<1>3. ASSUME NEW t \in ClientTools(tools)
      PROVE  parts \in Seq(Seq(Shown(known) \ {ToolBlock(t)}))
  <2>1. \A i \in 1 .. Len(text) :
          TextBlocks(text[i], tools, known) \in Seq(Shown(known) \ {ToolBlock(t)})
    BY <1>1, TextShown
  <2>2. parts \in [1 .. Len(text) -> Seq(Shown(known) \ {ToolBlock(t)})]
    BY <1>1, <2>1
  <2> QED
    BY ONLY <1>1, <2>2, MappedSeq
<1>4. blocks \in Seq(Seq(Shown(known))) /\ Len(blocks) = Len(tools)
  <2>1. \A i \in 1 .. Len(tools) : CallBlocks(tools[i], found[i]) \in Seq(Shown(known))
    BY <1>1, CallShown
  <2>2. blocks \in [1 .. Len(tools) -> Seq(Shown(known))]
    BY <1>1, <2>1
  <2> QED
    BY ONLY <1>1, <2>2, MappedSeq
<1>5. \A i \in 1 .. Len(tools) : blocks[i] = CallBlocks(tools[i], found[i])
  BY <1>1
<1>6. content = (shown \o FlattenSeq(parts)) \o FlattenSeq(blocks)
  BY DEF BuildFlushContent
<1> HIDE DEF content
<1>7. made \in [1 .. Len(tools) -> {ToolBlock(tools[i]) : i \in 1 .. Len(tools)}]
      /\ \A i \in 1 .. Len(tools) : made[i] = ToolBlock(tools[i])
  BY <1>1 DEF Made
<1> HIDE DEF parts, blocks, made
<1>8. FlattenSeq(parts) \in Seq(Shown(known)) /\ FlattenSeq(blocks) \in Seq(Shown(known))
  BY <1>2, <1>4, FlattenInSeq
<1>9. shown \in Seq(Shown(known))
  BY SeqMonotonic DEF Shown
<1>10. content \in Seq(Shown(known))
  BY <1>6, <1>8, <1>9, ConcatProperties
<1>11. ASSUME NEW t \in ClientTools(tools)
       PROVE  /\ Cardinality(Positions(content, ToolBlock(t)))
                   = Cardinality(Positions(made, ToolBlock(t)))
              /\ \E i \in DOMAIN content : content[i] = ToolBlock(t)
  <2> DEFINE b == ToolBlock(t)
             p == shown \o FlattenSeq(parts)
  <2>1. PICK i \in 1 .. Len(tools) : tools[i] = t /\ ~IsSearch(t)
    BY <1>1 DEF ClientTools, Range
  <2>2. shown \in Seq(Shown(known) \ {b})
    <3>1. \A x \in Searches : x # b
      BY DEF Searches, ToolBlock
    <3>2. Searches \subseteq Shown(known) \ {b}
      BY <3>1 DEF Shown
    <3> HIDE DEF b
    <3> QED
      BY <3>2, SeqMonotonic
  <2>3. FlattenSeq(parts) \in Seq(Shown(known) \ {b})
    BY <1>3, FlattenInSeq
  <2> HIDE DEF b
  <2>4. p \in Seq(Shown(known) \ {b})
    BY <2>2, <2>3, ConcatProperties
  <2>5. p \in Seq(Shown(known)) /\ \A j \in DOMAIN p : p[j] # b
    BY <2>4, SeqMonotonic
  <2>6. \A j \in 1 .. Len(blocks) :
          \/ blocks[j] = <<made[j]>>
          \/ made[j] # b /\ \A k \in DOMAIN blocks[j] : blocks[j][k] # b
    <3> SUFFICES ASSUME NEW j \in 1 .. Len(tools)
                 PROVE  \/ blocks[j] = <<made[j]>>
                        \/ made[j] # b /\ \A k \in DOMAIN blocks[j] : blocks[j][k] # b
      BY <1>4
    <3>1. tools[j] \in Calls(known) /\ found[j] \in Found
      BY <1>1
    <3>2. blocks[j] = CallBlocks(tools[j], found[j]) /\ made[j] = ToolBlock(tools[j])
      BY <1>5, <1>7
    <3> QED
      BY <2>1, <3>1, <3>2, CallShown, Zenon DEF b
  <2>7. Len(made) = Len(blocks) /\ DOMAIN made = 1 .. Len(blocks)
    BY <1>1, <1>4, <1>7, MappedSeq
  <2> HIDE DEF p
  <2>8. Cardinality(Positions(p \o FlattenSeq(blocks), b)) = Cardinality(Positions(made, b))
    <3>1. p \in Seq(Shown(known)) /\ blocks \in Seq(Seq(Shown(known)))
      BY <1>4, <2>5
    <3>2. Misses(p, b) /\ Stands(blocks, made, b)
      BY <2>5, <2>6, <2>7 DEF Misses, Stands
    <3> QED
      BY ONLY <3>1, <3>2, FlattenCounts
  <2>9. content = p \o FlattenSeq(blocks)
    BY <1>6 DEF p
  <2>10. IsFiniteSet(Positions(made, b)) /\ IsFiniteSet(Positions(content, b))
    <3>1. /\ DOMAIN made = 1 .. Len(tools)
          /\ DOMAIN content = 1 .. Len(content) /\ Len(content) \in Nat
      BY <1>7, <1>10
    <3>2. IsFiniteSet(1 .. Len(tools)) /\ IsFiniteSet(1 .. Len(content))
      BY <1>1, <3>1, FS_Interval
    <3> QED
      BY <3>1, <3>2, FS_Subset DEF Positions
  <2>11. Positions(made, b) # {}
    BY <1>7, <2>1 DEF Positions, b
  <2>12. Positions(content, b) # {}
    BY <2>8, <2>9, <2>10, <2>11, FS_EmptySet
  <2> QED
    BY <2>8, <2>9, <2>12 DEF Positions, b
<1> QED
  BY <1>10, <1>11 DEF ShowsCalls, content, made

-----------------------------------------------------------------------------
(* The search loop: what it has decoded, searched and sent back.           *)

Decoded ==
  [text : Seq(Pieces(payload.tools)), tools : Seq(Calls(payload.tools)), thought : BOOLEAN,
   credits : Nat, override : {"none", "model_context_window_exceeded", "max_tokens"},
   events : Nat]
Sent == [role : {"assistant", "user"}, calls : Nat]

LoopTyped ==
  /\ got \in Decoded
  /\ searched \in Seq(Found) /\ presentation \in Seq(Searches)
  /\ round \in Nat /\ history \in Seq(Sent) /\ Len(history) = 2 * round

LoopInv == LoopTyped /\ SearchStaysInside /\ LoopCallsFit

LEMMA InitLoop == Init => LoopInv
<1> SUFFICES ASSUME Init PROVE LoopInv
  OBVIOUS
<1>1. /\ got = Nothing /\ searched = <<>> /\ presentation = <<>> /\ round = 0
      /\ history = <<>> /\ answer = <<>> /\ pc # "done"
  BY DEF Init
<1>2. LoopTyped
  BY <1>1, EmptySeq DEF LoopTyped, Nothing, Decoded
<1>3. SearchStaysInside
  <2>1. DOMAIN answer = {} /\ 1 .. Len(history) \div 2 = {}
    BY <1>1, EmptySeq
  <2> QED
    BY <2>1 DEF SearchStaysInside
<1> QED
  BY <1>1, <1>2, <1>3 DEF LoopInv, LoopCallsFit

\* A step that neither ends the request nor sends anything back.
LEMMA LoopGoesOn ==
  ASSUME LoopInv, pc' # "done", UNCHANGED <<payload, round, history>>,
         answer' = answer \/ (answer' = Answer(200, <<>>, "none") /\ route # "loop"),
         LoopTyped'
  PROVE  LoopInv'
<1>1. route' = route
  BY DEF route
<1>2. SearchStaysInside'
  BY <1>1 DEF LoopInv, SearchStaysInside
<1> QED
  BY <1>2 DEF LoopInv, LoopCallsFit

\* An event of the answer.
LEMMA EventDecoded ==
  ASSUME LoopTyped, Events
  PROVE  got' \in Decoded
<1> USE DEF LoopTyped
<1>1. got \in Decoded
  OBVIOUS
<1>2. ASSUME NEW change \in Decoded, Upstream(change)
      PROVE  got' \in Decoded
  <2>1. got' = [change EXCEPT !.events = @ + 1]
    BY <1>2 DEF Upstream
  <2>2. change.events \in Nat /\ change.events + 1 \in Nat
    BY DEF Decoded
  <2>3. [change EXCEPT !.events = @ + 1] \in Decoded
    BY <2>2 DEF Decoded
  <2> QED
    BY <2>1, <2>3
<1>3. CASE AssistantResponse
  <2>1. Append(got.text, Text) \in Seq(Pieces(payload.tools))
    BY <1>1 DEF Decoded, Pieces
  <2>2. [got EXCEPT !.text = Append(@, Text)] \in Decoded
    BY <1>1, <2>1 DEF Decoded
  <2> QED
    BY <1>2, <1>3, <2>2 DEF AssistantResponse
<1>4. ASSUME NEW name \in payload.tools, LeakedCall(name)
      PROVE  got' \in Decoded
  <2> DEFINE leak == [type |-> "tool_use", name |-> name, input |-> "args"]
  <2>1. leak \in Pieces(payload.tools)
    BY DEF Pieces
  <2> HIDE DEF leak
  <2>2. Append(got.text, leak) \in Seq(Pieces(payload.tools))
    BY <1>1, <2>1 DEF Decoded
  <2>3. [got EXCEPT !.text = Append(@, leak)] \in Decoded
    BY <1>1, <2>2 DEF Decoded
  <2> QED
    BY <1>2, <1>4, <2>3 DEF LeakedCall, leak
<1>5. CASE ReasoningContent
  <2>1. [got EXCEPT !.thought = TRUE] \in Decoded
    BY <1>1 DEF Decoded
  <2> QED
    BY <1>2, <1>5, <2>1 DEF ReasoningContent
<1>6. ASSUME NEW name \in payload.tools, ToolUseStarts(name)
      PROVE  got' \in Decoded
  <2> DEFINE call == [name |-> name, input |-> "args", whole |-> FALSE, stopped |-> FALSE]
  <2>1. call \in Calls(payload.tools)
    BY DEF Calls
  <2> HIDE DEF call
  <2>2. Append(got.tools, call) \in Seq(Calls(payload.tools))
    BY <1>1, <2>1 DEF Decoded
  <2>3. [got EXCEPT !.tools = Append(@, call)] \in Decoded
    BY <1>1, <2>2 DEF Decoded
  <2> QED
    BY <1>2, <1>6, <2>3 DEF ToolUseStarts, call
<1>7. ASSUME NEW i \in DOMAIN got.tools, ToolUseEnds(i)
      PROVE  got' \in Decoded
  <2> DEFINE call == [got.tools[i] EXCEPT !.whole = TRUE, !.stopped = TRUE]
  <2>1. got.tools \in Seq(Calls(payload.tools)) /\ got.tools[i] \in Calls(payload.tools)
    BY <1>1 DEF Decoded
  <2>2. call \in Calls(payload.tools)
    BY <2>1 DEF Calls
  <2> HIDE DEF call
  <2>3. [got.tools EXCEPT ![i] = call] \in Seq(Calls(payload.tools))
    BY <2>1, <2>2, ExceptSeq
  <2>4. [got EXCEPT !.tools = [got.tools EXCEPT ![i] = call]] \in Decoded
    BY <1>1, <2>3 DEF Decoded
  <2>5. [got EXCEPT !.tools[i].whole = TRUE, !.tools[i].stopped = TRUE]
          = [got EXCEPT !.tools = [got.tools EXCEPT ![i] = call]]
    BY <1>1, <2>1 DEF call, Decoded, Calls
  <2> QED
    BY <1>2, <1>7, <2>4, <2>5 DEF ToolUseEnds
<1>8. CASE Metering \/ ContextUsage \/ ContentLengthExceeded
  <2>1. [got EXCEPT !.credits = @ + 1] \in Decoded
    <3>1. got.credits + 1 \in Nat
      BY <1>1 DEF Decoded
    <3> QED
      BY ONLY <1>1, <3>1 DEF Decoded
  <2>2. [got EXCEPT !.override = "model_context_window_exceeded"] \in Decoded
    BY <1>1 DEF Decoded
  <2>3. [got EXCEPT !.override = "max_tokens"] \in Decoded
    BY <1>1 DEF Decoded
  <2> QED
    BY <1>2, <1>8, <2>1, <2>2, <2>3 DEF Metering, ContextUsage, ContentLengthExceeded
<1> QED
  BY <1>3, <1>4, <1>5, <1>6, <1>7, <1>8 DEF Events

\* An ending without calls, with an error on the way of the loop.
LEMMA LoopEnds ==
  ASSUME LoopInv, NEW outcome, NEW credit, NEW status, NEW content, NEW reason,
         Finish(outcome, credit, status, content, reason),
         route = "loop" => content = <<>> /\ status # 200
  PROVE  LoopInv'
<1>1. /\ UNCHANGED <<payload, round, history, presentation, searched, got>>
      /\ answer' = <<[status |-> status, content |-> content, reason |-> reason]>>
  BY DEF Finish, conversation, Answer
<1>2. route' = route /\ LoopTyped'
  BY <1>1 DEF route, LoopInv, LoopTyped, Decoded
<1>3. /\ DOMAIN answer' = {1} /\ answer'[1].content = content
      /\ answer'[1].status = status
  BY <1>1
<1>4. SearchStaysInside'
  <2>1. route = "loop" => DOMAIN content = {}
    OBVIOUS
  <2> QED
    BY <1>1, <1>2, <1>3, <2>1 DEF LoopInv, SearchStaysInside
<1>5. LoopCallsFit'
  BY <1>2, <1>3 DEF LoopCallsFit
<1> QED
  BY <1>2, <1>4, <1>5 DEF LoopInv

\* The answer of the loop.
LEMMA LoopFlushes ==
  ASSUME LoopInv, Flush
  PROVE  LoopInv'
<1> DEFINE content == BuildFlushContent(presentation, got.text, got.tools, searched,
                                        payload.tools)
           reason == FlushStopReason(got.override, got.tools, content)
           made == Made(got.tools)
<1>1. /\ UNCHANGED <<payload, round, history, presentation, searched, got>>
      /\ answer' = <<[status |-> 200, content |-> content, reason |-> reason]>>
      /\ Len(searched) = Len(got.tools)
  BY DEF Flush, Finish, conversation, Answer, AllSearched
<1>2. route' = route /\ LoopTyped'
  BY <1>1 DEF route, LoopInv, LoopTyped, Decoded
<1>3. /\ content \in Seq(Shown(payload.tools))
      /\ \A t \in ClientTools(got.tools) :
           /\ Cardinality(Positions(content, ToolBlock(t)))
                = Cardinality(Positions(made, ToolBlock(t)))
           /\ \E i \in DOMAIN content : content[i] = ToolBlock(t)
  <2>1. /\ presentation \in Seq(Searches) /\ searched \in Seq(Found)
        /\ got.text \in Seq(Pieces(payload.tools))
        /\ got.tools \in Seq(Calls(payload.tools))
    BY DEF LoopInv, LoopTyped, Decoded
  <2>2. FlushTyped(payload.tools, presentation, got.text, got.tools, searched)
    BY <1>1, <2>1 DEF FlushTyped
  <2>3. ShowsCalls(content, got.tools, payload.tools)
    BY ONLY <2>2, FlushShows
  <2> HIDE DEF content
  <2> QED
    BY <2>3 DEF ShowsCalls
<1>4. got.override = "none" =>
        (reason = "tool_use" <=> \E i \in DOMAIN content : IsClientCall(content[i]))
  <2>1. ASSUME NEW t \in ClientTools(got.tools)
        PROVE  IsClientCall(ToolBlock(t))
    BY DEF ClientTools, IsSearch, IsClientCall, ToolBlock
  <2>2. ClientTools(got.tools) # {} => \E i \in DOMAIN content : IsClientCall(content[i])
    BY <1>3, <2>1
  <2> HIDE DEF content
  <2> QED
    BY <2>2 DEF FlushStopReason
<1> HIDE DEF content, reason
<1>5. \A x \in Shown(payload.tools) : x.type = "tool_use" => x.name # "web_search"
  <2>1. Text.type # "tool_use" /\ \A x \in Searches : x.type # "tool_use"
    BY DEF Text, Searches
  <2>2. \A x \in ClientCalls(payload.tools) : x.name # "web_search"
    BY DEF ClientCalls
  <2> QED
    BY <2>1, <2>2 DEF Shown
<1>6. /\ DOMAIN answer' = {1} /\ answer'[1].content = content
      /\ answer'[1].reason = reason
  BY <1>1
<1>7. SearchStaysInside'
  <2>1. \A i \in DOMAIN content : content[i].type = "tool_use" => content[i].name # "web_search"
    BY <1>3, <1>5
  <2> QED
    BY <1>1, <1>2, <1>6, <2>1 DEF LoopInv, SearchStaysInside
<1>8. LoopCallsFit'
  <2>1. \A t \in ClientTools(got.tools) :
          Cardinality({i \in DOMAIN content : content[i] = ToolBlock(t)})
            = Cardinality({i \in DOMAIN made : made[i] = ToolBlock(t)})
    BY <1>3 DEF Positions
  <2> QED
    BY <1>1, <1>4, <1>6, <2>1 DEF LoopCallsFit, Made
<1> QED
  BY <1>2, <1>7, <1>8 DEF LoopInv

\* A round of searches goes back with a result for each call.
LEMMA RoundAppended ==
  ASSUME LoopInv, AppendSearchRound
  PROVE  LoopInv'
<1>1. /\ Len(searched) = Len(got.tools) /\ pc' = "calling" /\ round' = round + 1
      /\ history' = history \o <<[role |-> "assistant", calls |-> Len(got.tools)],
                                 [role |-> "user", calls |-> Len(searched)]>>
      /\ presentation' = presentation \o
           FlattenSeq([i \in DOMAIN got.tools |-> SearchBlocks(searched[i])])
      /\ UNCHANGED <<payload, searched, got, answer>>
  BY DEF AppendSearchRound, AllSearched, reported
<1>2. /\ got \in Decoded /\ searched \in Seq(Found) /\ presentation \in Seq(Searches)
      /\ round \in Nat /\ history \in Seq(Sent) /\ Len(history) = 2 * round
      /\ got.tools \in Seq(Calls(payload.tools))
  BY DEF LoopInv, LoopTyped, Decoded
<1> DEFINE call == [role |-> "assistant", calls |-> Len(got.tools)]
           result == [role |-> "user", calls |-> Len(searched)]
           blocks == [i \in DOMAIN got.tools |-> SearchBlocks(searched[i])]
<1>3. presentation' \in Seq(Searches)
  <2>1. Len(got.tools) \in Nat /\ DOMAIN got.tools = 1 .. Len(got.tools)
    BY <1>2
  <2>2. \A i \in 1 .. Len(got.tools) : searched[i] \in Found
    BY <1>1, <1>2
  <2>3. \A f \in Found : SearchBlocks(f) \in Seq(Searches)
    <3> TAKE f \in Found
    <3> DEFINE one == [type |-> "server_tool_use", name |-> "web_search", input |-> "query"]
               two == [type |-> "web_search_tool_result", name |-> "web_search", input |-> f]
    <3>1. one \in Searches /\ two \in Searches
      BY DEF Searches
    <3>2. SearchBlocks(f) = <<one, two>>
      BY DEF SearchBlocks
    <3> HIDE DEF one, two
    <3> QED
      BY <3>1, <3>2
  <2>4. blocks \in [1 .. Len(got.tools) -> Seq(Searches)]
    BY <2>1, <2>2, <2>3
  <2>5. blocks \in Seq(Seq(Searches))
    BY ONLY <2>1, <2>4, MappedSeq
  <2> HIDE DEF blocks
  <2>6. FlattenSeq(blocks) \in Seq(Searches)
    BY <2>5, FlattenInSeq
  <2>7. presentation' = presentation \o FlattenSeq(blocks)
    BY <1>1 DEF blocks
  <2> QED
    BY ONLY <1>2, <2>6, <2>7, ConcatProperties
<1>4. call \in Sent /\ result \in Sent /\ call.calls = result.calls
      /\ call.role = "assistant" /\ result.role = "user"
  BY <1>1, <1>2 DEF Sent
<1> HIDE DEF call, result
<1>5. history' = history \o <<call, result>>
  BY <1>1 DEF call, result
<1>6. /\ history' \in Seq(Sent) /\ Len(history') = 2 * round + 2
      /\ \A i \in 1 .. 2 * round : history'[i] = history[i]
      /\ history'[2 * round + 1] = call /\ history'[2 * round + 2] = result
  <2>1. <<call, result>> \in Seq(Sent) /\ Len(<<call, result>>) = 2
        /\ <<call, result>>[1] = call /\ <<call, result>>[2] = result
    BY <1>4
  <2> DEFINE two == <<call, result>>
  <2>2. two \in Seq(Sent) /\ Len(two) = 2 /\ two[1] = call /\ two[2] = result
    BY <2>1
  <2> HIDE DEF two
  <2>3. /\ history \o two \in Seq(Sent)
        /\ Len(history \o two) = Len(history) + Len(two)
        /\ \A i \in 1 .. Len(history) + Len(two) :
             (history \o two)[i] = IF i <= Len(history) THEN history[i]
                                  ELSE two[i - Len(history)]
    BY ONLY <1>2, <2>2, ConcatProperties
  <2>4. history' = history \o two
    BY <1>5 DEF two
  <2>5. Len(history) = 2 * round /\ 2 * round \in Nat /\ Len(history) + Len(two) = 2 * round + 2
    BY <1>2, <2>2
  <2>6. \A i \in 1 .. 2 * round : i \in 1 .. 2 * round + 2 /\ i <= 2 * round
    BY <2>5
  <2>7. \A i \in 1 .. 2 * round : history'[i] = history[i]
    BY ONLY <2>3, <2>4, <2>5, <2>6
  <2>8. /\ 2 * round + 1 \in 1 .. 2 * round + 2 /\ ~(2 * round + 1 <= 2 * round)
        /\ 2 * round + 2 \in 1 .. 2 * round + 2 /\ ~(2 * round + 2 <= 2 * round)
        /\ 2 * round + 1 - 2 * round = 1 /\ 2 * round + 2 - 2 * round = 2
    BY <2>5
  <2>9. history'[2 * round + 1] = call /\ history'[2 * round + 2] = result
    BY ONLY <2>2, <2>3, <2>4, <2>5, <2>8
  <2> QED
    BY <2>3, <2>4, <2>5, <2>7, <2>9
<1>7. LoopTyped'
  <2>1. 2 * round + 2 = 2 * (round + 1) /\ round + 1 \in Nat
    BY <1>2
  <2> QED
    BY <1>1, <1>2, <1>3, <1>6, <2>1 DEF LoopTyped, Decoded
<1>8. SearchStaysInside'
  <2>1. Len(history) \div 2 = round /\ Len(history') \div 2 = round + 1
    BY <1>2, <1>6
  <2>2. ASSUME NEW i \in 1 .. round + 1
        PROVE  /\ history'[2 * i - 1].role = "assistant" /\ history'[2 * i].role = "user"
               /\ history'[2 * i - 1].calls = history'[2 * i].calls
    <3>1. CASE i = round + 1
      <4>1. 2 * i - 1 = 2 * round + 1 /\ 2 * i = 2 * round + 2
        BY <1>2, <3>1
      <4> QED
        BY <1>4, <1>6, <4>1
    <3>2. CASE i # round + 1
      <4>1. i \in 1 .. round /\ 2 * i - 1 \in 1 .. 2 * round /\ 2 * i \in 1 .. 2 * round
        BY <1>2, <3>2
      <4>2. /\ history[2 * i - 1].role = "assistant" /\ history[2 * i].role = "user"
            /\ history[2 * i - 1].calls = history[2 * i].calls
        BY <2>1, <4>1 DEF LoopInv, SearchStaysInside
      <4> QED
        BY <1>6, <4>1, <4>2
    <3> QED
      BY <3>1, <3>2
  <2>3. route' = route
    BY <1>1 DEF route
  <2>4. \A a \in {answer'[i] : i \in DOMAIN answer'} : route' = "loop" =>
          \A i \in DOMAIN a.content :
            a.content[i].type = "tool_use" => a.content[i].name # "web_search"
    BY <1>1, <2>3 DEF LoopInv, SearchStaysInside
  <2> QED
    BY <2>1, <2>2, <2>4 DEF SearchStaysInside
<1> QED
  BY <1>1, <1>7, <1>8 DEF LoopInv, LoopCallsFit

LEMMA NextLoop == LoopInv /\ [Next]_vars => LoopInv'
<1> SUFFICES ASSUME LoopInv, [Next]_vars PROVE LoopInv'
  OBVIOUS
<1>0. LoopTyped
  BY DEF LoopInv
<1>1. CASE Refuse
  <2>1. /\ UNCHANGED <<payload, round, history, presentation, searched, got>>
        /\ \E status \in {400, 503} :
             answer' = <<[status |-> status, content |-> <<>>, reason |-> "none"]>>
    BY <1>1 DEF Refuse, conversation, Answer
  <2>2. /\ DOMAIN answer' = {1} /\ answer'[1].status # 200 /\ answer'[1].content = <<>>
        /\ DOMAIN <<>> = {}
    BY <2>1
  <2>3. LoopTyped' /\ route' = route
    BY <1>0, <2>1 DEF LoopTyped, Decoded, route
  <2>4. SearchStaysInside'
    BY <2>1, <2>2 DEF LoopInv, SearchStaysInside
  <2> QED
    BY <2>2, <2>3, <2>4 DEF LoopInv, LoopCallsFit
<1>2. CASE Accept \/ RoundDecoded \/ ClientLeaves
  <2>1. /\ pc' # "done"
        /\ UNCHANGED <<payload, round, history, presentation, got, answer>>
        /\ searched' = searched \/ searched' = <<>>
    BY <1>2 DEF Accept, RoundDecoded, ClientLeaves, conversation, reported
  <2>2. LoopTyped'
    BY <1>0, <2>1, EmptySeq DEF LoopTyped, Decoded
  <2> QED
    BY <2>1, <2>2, LoopGoesOn
<1>3. CASE CallSucceeds
  <2>1. /\ pc' # "done" /\ UNCHANGED <<payload, round, history, presentation, searched>>
        /\ got' = Nothing
        /\ answer' = answer \/ (answer' = Answer(200, <<>>, "none") /\ route # "loop")
    BY <1>3 DEF CallSucceeds, conversation
  <2>2. Nothing \in Decoded
    BY EmptySeq DEF Nothing, Decoded
  <2>3. LoopTyped'
    BY <1>0, <2>1, <2>2 DEF LoopTyped, Decoded
  <2> QED
    BY <2>1, <2>3, LoopGoesOn
<1>4. CASE Events
  <2>1. PICK change : Upstream(change)
    BY <1>4 DEF Events, AssistantResponse, LeakedCall, ReasoningContent,
                ToolUseStarts, ToolUseEnds, Metering, ContextUsage,
                ContentLengthExceeded
  <2>2. /\ pc' # "done"
        /\ UNCHANGED <<payload, round, history, presentation, searched, answer>>
    BY <2>1 DEF Upstream, conversation, reported
  <2>3. got' \in Decoded
    BY <1>0, <1>4, EventDecoded
  <2>4. LoopTyped'
    BY <1>0, <2>2, <2>3 DEF LoopTyped, Decoded
  <2> QED
    BY <2>2, <2>4, LoopGoesOn
<1>5. ASSUME NEW found \in Found, SearchNext(found)
      PROVE  LoopInv'
  <2>1. /\ pc' # "done" /\ UNCHANGED <<payload, round, history, presentation, got, answer>>
        /\ \E f \in Found : searched' = Append(searched, f)
    BY <1>5 DEF SearchNext, reported, Found
  <2>2. searched' \in Seq(Found)
    BY <1>0, <2>1 DEF LoopTyped
  <2>3. LoopTyped'
    BY <1>0, <2>1, <2>2 DEF LoopTyped, Decoded
  <2> QED
    BY <2>1, <2>3, LoopGoesOn
<1>6. CASE StreamBreaks \/ WholeBreaks \/ RoundBreaks \/ StreamEnds \/ WholeEnds
  BY <1>6, LoopEnds DEF StreamBreaks, WholeBreaks, RoundBreaks, StreamEnds, WholeEnds
<1>7. ASSUME NEW e \in Errors, CallFails(e) \/ SearchFails(e)
      PROVE  LoopInv'
  <2>1. StatusOf[e] # 200
    BY DEF Errors, StatusOf
  <2> QED
    BY <1>7, <2>1, LoopEnds DEF CallFails, SearchFails
<1>8. ASSUME NEW found \in Found, SearchAlone(found)
      PROVE  LoopInv'
  BY <1>8, LoopEnds DEF SearchAlone
<1>9. CASE UNCHANGED vars
  <2>1. /\ UNCHANGED <<payload, pc, round, history, presentation, searched, got, answer>>
        /\ route' = route
    BY <1>9 DEF vars, conversation, reported, route
  <2>2. LoopTyped'
    BY <1>0, <2>1 DEF LoopTyped, Decoded
  <2>3. SearchStaysInside'
    BY <2>1 DEF LoopInv, SearchStaysInside
  <2>4. LoopCallsFit'
    BY <2>1 DEF LoopInv, LoopCallsFit
  <2> QED
    BY <2>2, <2>3, <2>4 DEF LoopInv
<1> QED
  BY <1>1, <1>2, <1>3, <1>4, <1>5, <1>6, <1>7, <1>8, <1>9, LoopFlushes, RoundAppended
     DEF Next, Ends

\* However many rounds it searches and whatever the model writes, the loop
\* hands no search to the client and sends back a result for each call.
THEOREM SearchesStayInside == Spec => []SearchStaysInside
<1>1. LoopInv => SearchStaysInside
  BY DEF LoopInv
<1> QED
  BY <1>1, InitLoop, NextLoop, PTL DEF Spec

\* The loop's answer holds each call the client is to run as often as the model
\* made it, leaked into text or not, and its stop reason says so.
THEOREM CallsHandedOver == Spec => []LoopCallsFit
<1>1. LoopInv => LoopCallsFit
  BY DEF LoopInv
<1> QED
  BY <1>1, InitLoop, NextLoop, PTL DEF Spec

-----------------------------------------------------------------------------
(* Loops of the conversion of a request, as functions of how far they are.    *)

\* What is chosen of the first n elements of s, for every n up to the last.
Chooses(s, S, n, f) ==
  f = [k \in 0 .. n |->
        IF k = 0 THEN <<>>
        ELSE IF s[k] \in S THEN Append(f[k - 1], s[k]) ELSE f[k - 1]]

\* Such a function exists, so Chosen is what its recursion says.
LEMMA ChosenDefined ==
  ASSUME NEW s, NEW S, Len(s) \in Nat
  PROVE  \E f : Chooses(s, S, Len(s), f) /\ Chosen(s, S) = f[Len(s)]
<1> DEFINE T == {n \in Nat : ~ \E f : Chooses(s, S, n, f)}
<1>1. T = {}
  <2> SUFFICES ASSUME T # {} PROVE FALSE
    OBVIOUS
  <2>1. PICK m \in T : \A x \in T : m <= x
    <3>1. T \subseteq Nat
      OBVIOUS
    <3> QED
      BY <3>1, Smallest
  <2>2. m # 0
    <3>1. Chooses(s, S, 0, [k \in 0 .. 0 |-> <<>>])
      BY DEF Chooses
    <3> QED
      BY <3>1, <2>1
  <2>3. m \in Nat /\ m - 1 \in Nat /\ m - 1 \notin T
    <3>1. m \in Nat
      OBVIOUS
    <3> HIDE DEF T
    <3> QED
      BY ONLY <2>1, <2>2, <3>1
  <2>4. PICK f : Chooses(s, S, m - 1, f)
    BY <2>3
  <2> DEFINE g == [k \in 0 .. m |->
        IF k = 0 THEN <<>>
        ELSE IF s[k] \in S THEN Append(f[k - 1], s[k]) ELSE f[k - 1]]
  <2>5. ASSUME NEW k \in 0 .. m - 1
        PROVE  g[k] = f[k]
    <3>1. k \in 0 .. m
      BY <2>3
    <3>2. f[k] = IF k = 0 THEN <<>> ELSE IF s[k] \in S THEN Append(f[k - 1], s[k]) ELSE f[k - 1]
      BY <2>4 DEF Chooses
    <3> QED
      BY <3>1, <3>2
  <2>6. \A k \in 0 .. m : k # 0 => k - 1 \in 0 .. m - 1
    BY <2>3
  <2>7. g = [k \in 0 .. m |->
        IF k = 0 THEN <<>>
        ELSE IF s[k] \in S THEN Append(g[k - 1], s[k]) ELSE g[k - 1]]
    <3> HIDE DEF g
    <3>1. \A k \in 0 .. m : k # 0 => g[k - 1] = f[k - 1]
      BY <2>5, <2>6
    <3>2. g = [k \in 0 .. m |->
          IF k = 0 THEN <<>>
          ELSE IF s[k] \in S THEN Append(f[k - 1], s[k]) ELSE f[k - 1]]
      BY DEF g
    <3> QED
      BY <3>1, <3>2
  <2>8. Chooses(s, S, m, g)
    BY <2>7 DEF Chooses
  <2> HIDE DEF g
  <2> QED
    BY <2>1, <2>8
<1>2. PICK f : Chooses(s, S, Len(s), f)
  BY <1>1
<1> DEFINE h == CHOOSE at : at = [k \in 0 .. Len(s) |->
                         IF k = 0 THEN <<>>
                         ELSE IF s[k] \in S THEN Append(at[k - 1], s[k]) ELSE at[k - 1]]
<1>3. Chooses(s, S, Len(s), h)
  BY <1>2 DEF Chooses
<1>4. Chosen(s, S) = h[Len(s)]
  BY DEF Chosen
<1> HIDE DEF h
<1> QED
  BY <1>3, <1>4

\* What is read of the first n blocks of a content.
Reads(content, first, dedup, n, f) ==
  f = [k \in 0 .. n |-> IF k = 0 THEN first ELSE TakeBlock(f[k - 1], content[k], dedup)]

\* Such a function exists, so ProcessContent is what its loop says.
LEMMA ContentDefined ==
  ASSUME NEW content, NEW first, NEW dedup, NEW seen,
         first = [parts |-> <<>>, images |-> <<>>, results |-> <<>>, seen |-> seen],
         Len(content) \in Nat
  PROVE  \E f : Reads(content, first, dedup, Len(content), f)
              /\ ProcessContent(content, seen, dedup) = f[Len(content)]
<1> DEFINE T == {n \in Nat : ~ \E f : Reads(content, first, dedup, n, f)}
<1>1. T = {}
  <2> SUFFICES ASSUME T # {} PROVE FALSE
    OBVIOUS
  <2>1. PICK m \in T : \A x \in T : m <= x
    <3>1. T \subseteq Nat
      OBVIOUS
    <3> QED
      BY <3>1, Smallest
  <2>2. m # 0
    <3>1. Reads(content, first, dedup, 0, [k \in 0 .. 0 |-> first])
      BY DEF Reads
    <3> QED
      BY <3>1, <2>1
  <2>3. m \in Nat /\ m - 1 \in Nat /\ m - 1 \notin T
    <3>1. m \in Nat
      OBVIOUS
    <3> HIDE DEF T
    <3> QED
      BY ONLY <2>1, <2>2, <3>1
  <2>4. PICK f : Reads(content, first, dedup, m - 1, f)
    BY <2>3
  <2> DEFINE g == [k \in 0 .. m |-> IF k = 0 THEN first ELSE TakeBlock(f[k - 1], content[k], dedup)]
  <2>5. ASSUME NEW k \in 0 .. m - 1
        PROVE  g[k] = f[k]
    <3>1. k \in 0 .. m
      BY <2>3
    <3>2. f[k] = IF k = 0 THEN first ELSE TakeBlock(f[k - 1], content[k], dedup)
      BY <2>4 DEF Reads
    <3> QED
      BY <3>1, <3>2
  <2>6. \A k \in 0 .. m : k # 0 => k - 1 \in 0 .. m - 1
    BY <2>3
  <2>7. g = [k \in 0 .. m |-> IF k = 0 THEN first ELSE TakeBlock(g[k - 1], content[k], dedup)]
    <3> HIDE DEF g
    <3>1. \A k \in 0 .. m : k # 0 => g[k - 1] = f[k - 1]
      BY <2>5, <2>6
    <3>2. g = [k \in 0 .. m |-> IF k = 0 THEN first ELSE TakeBlock(f[k - 1], content[k], dedup)]
      BY DEF g
    <3> QED
      BY <3>1, <3>2
  <2>8. Reads(content, first, dedup, m, g)
    BY <2>7 DEF Reads
  <2> HIDE DEF g
  <2> QED
    BY <2>1, <2>8
<1>2. PICK f : Reads(content, first, dedup, Len(content), f)
  BY <1>1
<1> DEFINE h == CHOOSE at : at = [k \in 0 .. Len(content) |->
                   IF k = 0 THEN first ELSE TakeBlock(at[k - 1], content[k], dedup)]
<1>3. Reads(content, first, dedup, Len(content), h)
  BY <1>2 DEF Reads
<1>4. ProcessContent(content, seen, dedup) = h[Len(content)]
  BY DEF ProcessContent, Looped
<1> HIDE DEF h
<1> QED
  BY <1>3, <1>4

\* The history of the first n messages.
Collects(earlier, first, n, f) ==
  f = [k \in 0 .. n |-> IF k = 0 THEN first ELSE CollectMessage(f[k - 1], earlier[k])]

\* Such a function exists, so build_history is what its loop says.
LEMMA HistoryDefined ==
  ASSUME NEW earlier, NEW first, NEW request,
         first = [turns |-> SystemTurns(request), user |-> <<>>, assistant |-> <<>>, seen |-> {}],
         Len(earlier) \in Nat
  PROVE  \E f : Collects(earlier, first, Len(earlier), f)
              /\ build_history(request, earlier) = Ended(f[Len(earlier)])
<1> DEFINE T == {n \in Nat : ~ \E f : Collects(earlier, first, n, f)}
<1>1. T = {}
  <2> SUFFICES ASSUME T # {} PROVE FALSE
    OBVIOUS
  <2>1. PICK m \in T : \A x \in T : m <= x
    <3>1. T \subseteq Nat
      OBVIOUS
    <3> QED
      BY <3>1, Smallest
  <2>2. m # 0
    <3>1. Collects(earlier, first, 0, [k \in 0 .. 0 |-> first])
      BY DEF Collects
    <3> QED
      BY <3>1, <2>1
  <2>3. m \in Nat /\ m - 1 \in Nat /\ m - 1 \notin T
    <3>1. m \in Nat
      OBVIOUS
    <3> HIDE DEF T
    <3> QED
      BY ONLY <2>1, <2>2, <3>1
  <2>4. PICK f : Collects(earlier, first, m - 1, f)
    BY <2>3
  <2> DEFINE g == [k \in 0 .. m |-> IF k = 0 THEN first ELSE CollectMessage(f[k - 1], earlier[k])]
  <2>5. ASSUME NEW k \in 0 .. m - 1
        PROVE  g[k] = f[k]
    <3>1. k \in 0 .. m
      BY <2>3
    <3>2. f[k] = IF k = 0 THEN first ELSE CollectMessage(f[k - 1], earlier[k])
      BY <2>4 DEF Collects
    <3> QED
      BY <3>1, <3>2
  <2>6. \A k \in 0 .. m : k # 0 => k - 1 \in 0 .. m - 1
    BY <2>3
  <2>7. g = [k \in 0 .. m |-> IF k = 0 THEN first ELSE CollectMessage(g[k - 1], earlier[k])]
    <3> HIDE DEF g
    <3>1. \A k \in 0 .. m : k # 0 => g[k - 1] = f[k - 1]
      BY <2>5, <2>6
    <3>2. g = [k \in 0 .. m |-> IF k = 0 THEN first ELSE CollectMessage(f[k - 1], earlier[k])]
      BY DEF g
    <3> QED
      BY <3>1, <3>2
  <2>8. Collects(earlier, first, m, g)
    BY <2>7 DEF Collects
  <2> HIDE DEF g
  <2> QED
    BY <2>1, <2>8
<1>2. PICK f : Collects(earlier, first, Len(earlier), f)
  BY <1>1
<1> DEFINE h == CHOOSE at : at = [k \in 0 .. Len(earlier) |->
                   IF k = 0 THEN first ELSE CollectMessage(at[k - 1], earlier[k])]
<1>3. Collects(earlier, first, Len(earlier), h)
  BY <1>2 DEF Collects
<1>4. build_history(request, earlier) = Ended(h[Len(earlier)])
  BY DEF build_history, Looped
<1> HIDE DEF h
<1> QED
  BY <1>3, <1>4

\* The results of the last message that are kept of the first n.
Answers(results, first, n, f) ==
  f = [k \in 0 .. n |-> IF k = 0 THEN first ELSE TakeAnswer(f[k - 1], results[k])]

\* Such a function exists, so validate_tool_pairing is what its loop says.
LEMMA PairingDefined ==
  ASSUME NEW results, NEW first, NEW past,
         first = [kept |-> <<>>, orphans |-> IdsOf(UsesOf(past)) \ IdsOf(ResultsOf(past))],
         Len(results) \in Nat
  PROVE  \E f : Answers(results, first, Len(results), f)
              /\ validate_tool_pairing(past, results) = f[Len(results)]
<1> DEFINE T == {n \in Nat : ~ \E f : Answers(results, first, n, f)}
<1>1. T = {}
  <2> SUFFICES ASSUME T # {} PROVE FALSE
    OBVIOUS
  <2>1. PICK m \in T : \A x \in T : m <= x
    <3>1. T \subseteq Nat
      OBVIOUS
    <3> QED
      BY <3>1, Smallest
  <2>2. m # 0
    <3>1. Answers(results, first, 0, [k \in 0 .. 0 |-> first])
      BY DEF Answers
    <3> QED
      BY <3>1, <2>1
  <2>3. m \in Nat /\ m - 1 \in Nat /\ m - 1 \notin T
    <3>1. m \in Nat
      OBVIOUS
    <3> HIDE DEF T
    <3> QED
      BY ONLY <2>1, <2>2, <3>1
  <2>4. PICK f : Answers(results, first, m - 1, f)
    BY <2>3
  <2> DEFINE g == [k \in 0 .. m |-> IF k = 0 THEN first ELSE TakeAnswer(f[k - 1], results[k])]
  <2>5. ASSUME NEW k \in 0 .. m - 1
        PROVE  g[k] = f[k]
    <3>1. k \in 0 .. m
      BY <2>3
    <3>2. f[k] = IF k = 0 THEN first ELSE TakeAnswer(f[k - 1], results[k])
      BY <2>4 DEF Answers
    <3> QED
      BY <3>1, <3>2
  <2>6. \A k \in 0 .. m : k # 0 => k - 1 \in 0 .. m - 1
    BY <2>3
  <2>7. g = [k \in 0 .. m |-> IF k = 0 THEN first ELSE TakeAnswer(g[k - 1], results[k])]
    <3> HIDE DEF g
    <3>1. \A k \in 0 .. m : k # 0 => g[k - 1] = f[k - 1]
      BY <2>5, <2>6
    <3>2. g = [k \in 0 .. m |-> IF k = 0 THEN first ELSE TakeAnswer(f[k - 1], results[k])]
      BY DEF g
    <3> QED
      BY <3>1, <3>2
  <2>8. Answers(results, first, m, g)
    BY <2>7 DEF Answers
  <2> HIDE DEF g
  <2> QED
    BY <2>1, <2>8
<1>2. PICK f : Answers(results, first, Len(results), f)
  BY <1>1
<1> DEFINE h == CHOOSE at : at = [k \in 0 .. Len(results) |->
                   IF k = 0 THEN first ELSE TakeAnswer(at[k - 1], results[k])]
<1>3. Answers(results, first, Len(results), h)
  BY <1>2 DEF Answers
<1>4. validate_tool_pairing(past, results) = h[Len(results)]
  BY DEF validate_tool_pairing, Looped
<1> HIDE DEF h
<1> QED
  BY <1>3, <1>4

\* The names collected of the first n uses.
Collected(uses, n, f) ==
  f = [k \in 0 .. n |-> IF k = 0 THEN <<>> ELSE NamedOnce(f[k - 1], uses[k])]

\* Such a function exists, so collect_history_tool_names is what its loop says.
LEMMA NamesDefined ==
  ASSUME NEW past, NEW uses, uses = UsesOf(past), Len(uses) \in Nat
  PROVE  \E f : Collected(uses, Len(uses), f) /\ collect_history_tool_names(past) = f[Len(uses)]
<1> DEFINE T == {n \in Nat : ~ \E f : Collected(uses, n, f)}
<1>1. T = {}
  <2> SUFFICES ASSUME T # {} PROVE FALSE
    OBVIOUS
  <2>1. PICK m \in T : \A x \in T : m <= x
    <3>1. T \subseteq Nat
      OBVIOUS
    <3> QED
      BY <3>1, Smallest
  <2>2. m # 0
    <3>1. Collected(uses, 0, [k \in 0 .. 0 |-> <<>>])
      BY DEF Collected
    <3> QED
      BY <3>1, <2>1
  <2>3. m \in Nat /\ m - 1 \in Nat /\ m - 1 \notin T
    <3>1. m \in Nat
      OBVIOUS
    <3> HIDE DEF T
    <3> QED
      BY ONLY <2>1, <2>2, <3>1
  <2>4. PICK f : Collected(uses, m - 1, f)
    BY <2>3
  <2> DEFINE g == [k \in 0 .. m |-> IF k = 0 THEN <<>> ELSE NamedOnce(f[k - 1], uses[k])]
  <2>5. ASSUME NEW k \in 0 .. m - 1
        PROVE  g[k] = f[k]
    <3>1. k \in 0 .. m
      BY <2>3
    <3>2. f[k] = IF k = 0 THEN <<>> ELSE NamedOnce(f[k - 1], uses[k])
      BY <2>4 DEF Collected
    <3> QED
      BY <3>1, <3>2
  <2>6. \A k \in 0 .. m : k # 0 => k - 1 \in 0 .. m - 1
    BY <2>3
  <2>7. g = [k \in 0 .. m |-> IF k = 0 THEN <<>> ELSE NamedOnce(g[k - 1], uses[k])]
    <3> HIDE DEF g
    <3>1. \A k \in 0 .. m : k # 0 => g[k - 1] = f[k - 1]
      BY <2>5, <2>6
    <3>2. g = [k \in 0 .. m |-> IF k = 0 THEN <<>> ELSE NamedOnce(f[k - 1], uses[k])]
      BY DEF g
    <3> QED
      BY <3>1, <3>2
  <2>8. Collected(uses, m, g)
    BY <2>7 DEF Collected
  <2> HIDE DEF g
  <2> QED
    BY <2>1, <2>8
<1>2. PICK f : Collected(uses, Len(uses), f)
  BY <1>1
<1> DEFINE h == CHOOSE at : at = [k \in 0 .. Len(uses) |->
                   IF k = 0 THEN <<>> ELSE NamedOnce(at[k - 1], uses[k])]
<1>3. Collected(uses, Len(uses), h)
  BY <1>2 DEF Collected
<1>4. collect_history_tool_names(past) = h[Len(uses)]
  BY DEF collect_history_tool_names, Looped
<1> HIDE DEF h
<1> QED
  BY <1>3, <1>4

\* What appending and joining do to the elements and to the ids of a sequence.
Appended(s, e) ==
  /\ Len(Append(s, e)) = Len(s) + 1
  /\ ToSet(Append(s, e)) = ToSet(s) \cup {e}
  /\ IdsOf(Append(s, e)) = IdsOf(s) \cup {e.id}

LEMMA AppendRange ==
  ASSUME NEW X, NEW s, s \in Seq(X), NEW e
  PROVE  Append(s, e) \in Seq(X \cup {e}) /\ Appended(s, e)
<1>1. s \in Seq(X \cup {e}) /\ e \in X \cup {e}
  BY SeqMonotonic
<1>2. /\ DOMAIN s = 1 .. Len(s) /\ Len(s) \in Nat
      /\ Append(s, e) \in Seq(X \cup {e}) /\ Len(Append(s, e)) = Len(s) + 1
      /\ DOMAIN Append(s, e) = 1 .. Len(s) + 1
      /\ \A i \in 1 .. Len(s) : Append(s, e)[i] = s[i]
      /\ Append(s, e)[Len(s) + 1] = e
  BY <1>1
<1>3. \A i \in 1 .. Len(s) + 1 : i \in 1 .. Len(s) \/ i = Len(s) + 1
  BY <1>2
<1>4. 1 .. Len(s) \subseteq 1 .. Len(s) + 1 /\ Len(s) + 1 \in 1 .. Len(s) + 1
  BY <1>2
<1>5. ToSet(Append(s, e)) = ToSet(s) \cup {e}
  BY <1>2, <1>3, <1>4 DEF ToSet
<1>6. IdsOf(Append(s, e)) = IdsOf(s) \cup {e.id}
  BY <1>2, <1>3, <1>4 DEF IdsOf
<1> QED
  BY <1>2, <1>5, <1>6 DEF Appended

LEMMA AppendListed ==
  ASSUME NEW s, IsSequence(s), NEW e
  PROVE  IsSequence(Append(s, e)) /\ Appended(s, e)
<1>1. PICK X : X = ToSet(s)
  OBVIOUS
<1>2. s \in Seq(X)
  BY <1>1 DEF IsSequence
<1>3. Append(s, e) \in Seq(X \cup {e}) /\ Appended(s, e)
  BY ONLY <1>2, AppendRange, Zenon
<1> QED
  BY <1>1, <1>3 DEF IsSequence, Appended

LEMMA ConcatRange ==
  ASSUME NEW X, NEW s, s \in Seq(X), NEW t, t \in Seq(X)
  PROVE  s \o t \in Seq(X) /\ ToSet(s \o t) = ToSet(s) \cup ToSet(t)
<1>1. /\ DOMAIN s = 1 .. Len(s) /\ Len(s) \in Nat
      /\ DOMAIN t = 1 .. Len(t) /\ Len(t) \in Nat
      /\ s \o t \in Seq(X)
      /\ DOMAIN (s \o t) = 1 .. Len(s) + Len(t)
      /\ \A i \in 1 .. Len(s) + Len(t) :
           (s \o t)[i] = IF i <= Len(s) THEN s[i] ELSE t[i - Len(s)]
  OBVIOUS
<1>2. ASSUME NEW x \in ToSet(s \o t)
      PROVE  x \in ToSet(s) \cup ToSet(t)
  <2>1. PICK i \in 1 .. Len(s) + Len(t) : x = (s \o t)[i]
    BY <1>1 DEF ToSet
  <2>2. i <= Len(s) => i \in 1 .. Len(s)
    BY <1>1
  <2>3. ~(i <= Len(s)) => i - Len(s) \in 1 .. Len(t)
    BY <1>1
  <2> QED
    BY <1>1, <2>1, <2>2, <2>3 DEF ToSet
<1>3. ASSUME NEW x \in ToSet(s)
      PROVE  x \in ToSet(s \o t)
  <2>1. PICK i \in 1 .. Len(s) : x = s[i]
    BY <1>1 DEF ToSet
  <2>2. i \in 1 .. Len(s) + Len(t) /\ i <= Len(s)
    BY <1>1
  <2> QED
    BY <1>1, <2>1, <2>2 DEF ToSet
<1>4. ASSUME NEW x \in ToSet(t)
      PROVE  x \in ToSet(s \o t)
  <2>1. PICK i \in 1 .. Len(t) : x = t[i]
    BY <1>1 DEF ToSet
  <2>2. /\ i + Len(s) \in 1 .. Len(s) + Len(t)
        /\ ~(i + Len(s) <= Len(s)) /\ (i + Len(s)) - Len(s) = i
    BY <1>1
  <2>3. (s \o t)[i + Len(s)] = x
    BY <1>1, <2>1, <2>2
  <2> QED
    BY <1>1, <2>2, <2>3 DEF ToSet
<1> QED
  BY <1>1, <1>2, <1>3, <1>4

\* A sequence of sequences joins to what is in any of them.
LEMMA FlattenRange ==
  ASSUME NEW X, NEW ss, ss \in Seq(Seq(X))
  PROVE  ToSet(FlattenSeq(ss)) = UNION {ToSet(ss[i]) : i \in DOMAIN ss}
<1> DEFINE In(n) == UNION {ToSet(ss[i]) : i \in 1 .. n}
<1>1. Len(ss) \in Nat /\ DOMAIN ss = 1 .. Len(ss)
  OBVIOUS
<1>2. CASE Len(ss) = 0
  <2>1. FlattenSeq(ss) = ss /\ DOMAIN ss = {}
    BY <1>1, <1>2, EmptySeq DEF FlattenSeq
  <2> QED
    BY <2>1 DEF ToSet
<1>3. CASE Len(ss) # 0
  <2>1. PICK f : Joins(ss, Len(ss), f) /\ FlattenSeq(ss) = f[Len(ss)]
    BY <1>1, <1>3, FlattenDefined
  <2>2. \A n \in 1 .. Len(ss) : f[n] \in Seq(X)
    BY <2>1, JoinsInSeq
  <2> DEFINE T == {n \in 1 .. Len(ss) : ToSet(f[n]) # In(n)}
  <2>3. T = {}
    <3> SUFFICES ASSUME T # {} PROVE FALSE
      OBVIOUS
    <3>1. PICK m \in T : \A x \in T : m <= x
      <4>1. T \subseteq Nat
        OBVIOUS
      <4> QED
        BY <4>1, Smallest
    <3>2. f[m] = (IF m = 1 THEN ss[m] ELSE f[m - 1] \o ss[m]) /\ ss[m] \in Seq(X)
      <4>1. m \in 1 .. Len(ss)
        BY <3>1
      <4>2. ss[m] \in Seq(X)
        BY ONLY <4>1, ss \in Seq(Seq(X))
      <4> QED
        BY <2>1, <4>1, <4>2 DEF Joins
    <3>3. CASE m = 1
      <4>1. 1 .. m = {1}
        BY <3>3
      <4> QED
        BY <3>1, <3>2, <3>3, <4>1
    <3>4. CASE m # 1
      <4>1. m - 1 \in 1 .. Len(ss) /\ ~(m <= m - 1) /\ 1 .. m = (1 .. m - 1) \cup {m}
        BY <1>1, <3>1, <3>4
      <4>2. ToSet(f[m - 1]) = In(m - 1) /\ f[m - 1] \in Seq(X)
        BY <2>2, <3>1, <4>1
      <4>3. ToSet(f[m]) = ToSet(f[m - 1]) \cup ToSet(ss[m])
        <5>1. PICK s, t : s = f[m - 1] /\ t = ss[m]
          OBVIOUS
        <5>2. s \in Seq(X) /\ t \in Seq(X) /\ f[m] = s \o t
          BY <3>2, <3>4, <4>2, <5>1
        <5>3. ToSet(s \o t) = ToSet(s) \cup ToSet(t)
          BY ONLY <5>2, ConcatRange
        <5> QED
          BY ONLY <5>1, <5>2, <5>3
      <4>4. In(m) = In(m - 1) \cup ToSet(ss[m])
        BY <4>1
      <4> QED
        BY <3>1, <4>2, <4>3, <4>4
    <3> QED
      BY <3>3, <3>4
  <2>4. Len(ss) \in 1 .. Len(ss)
    BY <1>1, <1>3
  <2> QED
    BY <1>1, <2>1, <2>3, <2>4
<1> QED
  BY <1>2, <1>3

\* What is chosen of s is a sequence of the elements of s that are in S.
LEMMA ChosenSeq ==
  ASSUME NEW X, NEW s, s \in Seq(X), NEW S
  PROVE  Chosen(s, S) \in Seq(X) /\ ToSet(Chosen(s, S)) = ToSet(s) \cap S
<1>1. Len(s) \in Nat /\ DOMAIN s = 1 .. Len(s)
  OBVIOUS
<1>2. PICK f : Chooses(s, S, Len(s), f) /\ Chosen(s, S) = f[Len(s)]
  BY <1>1, ChosenDefined
<1> DEFINE Good(n) == f[n] \in Seq(X) /\ ToSet(f[n]) = {s[i] : i \in 1 .. n} \cap S
           T == {n \in 0 .. Len(s) : ~Good(n)}
<1>3. T = {}
  <2> SUFFICES ASSUME T # {} PROVE FALSE
    OBVIOUS
  <2>1. PICK m \in T : \A x \in T : m <= x
    <3>1. T \subseteq Nat
      BY <1>1
    <3> QED
      BY <3>1, Smallest
  <2>2. f[m] = IF m = 0 THEN <<>>
               ELSE IF s[m] \in S THEN Append(f[m - 1], s[m]) ELSE f[m - 1]
    BY <1>2, <2>1 DEF Chooses
  <2>3. CASE m = 0
    <3>1. f[m] = <<>> /\ 1 .. m = {} /\ DOMAIN <<>> = {} /\ <<>> \in Seq(X)
      BY <2>2, <2>3
    <3> QED
      BY <2>1, <3>1 DEF ToSet
  <2>4. CASE m # 0
    <3>1. /\ m - 1 \in 0 .. Len(s) /\ ~(m <= m - 1) /\ m \in 1 .. Len(s)
          /\ 1 .. m = (1 .. m - 1) \cup {m}
      BY <1>1, <2>1, <2>4
    <3>2. Good(m - 1)
      BY <2>1, <3>1
    <3>3. s[m] \in X
      BY <1>1, <3>1
    <3>4. /\ Append(f[m - 1], s[m]) \in Seq(X)
          /\ ToSet(Append(f[m - 1], s[m])) = ToSet(f[m - 1]) \cup {s[m]}
      <4>1. f[m - 1] \in Seq(X)
        BY <3>2
      <4>2. ToSet(Append(f[m - 1], s[m])) = ToSet(f[m - 1]) \cup {s[m]}
        <5>1. Appended(f[m - 1], s[m])
          BY ONLY <4>1, AppendRange, Zenon
        <5> QED
          BY ONLY <5>1 DEF Appended
      <4> QED
        BY ONLY <3>3, <4>1, <4>2
    <3>5. {s[i] : i \in 1 .. m} = {s[i] : i \in 1 .. m - 1} \cup {s[m]}
      BY ONLY <3>1
    <3>6. CASE s[m] \in S
      <4>1. f[m] = Append(f[m - 1], s[m])
        BY ONLY <2>2, <2>4, <3>6
      <4> QED
        BY <2>1, <3>2, <3>4, <3>5, <3>6, <4>1
    <3>7. CASE s[m] \notin S
      <4>1. f[m] = f[m - 1]
        BY ONLY <2>2, <2>4, <3>7
      <4> QED
        BY <2>1, <3>2, <3>5, <3>7, <4>1
    <3> QED
      BY <3>6, <3>7
  <2> QED
    BY <2>3, <2>4
<1>4. Len(s) \in 0 .. Len(s)
  BY <1>1
<1> QED
  BY <1>1, <1>2, <1>3, <1>4 DEF ToSet

\* The results read of a content are a list.
LEMMA ResultsListed ==
  ASSUME NEW content, IsSequence(content), NEW seen, NEW dedup
  PROVE  IsSequence(ProcessContent(content, seen, dedup).results)
<1> DEFINE first == [parts |-> <<>>, images |-> <<>>, results |-> <<>>, seen |-> seen]
           Good(acc) == /\ DOMAIN acc = {"parts", "images", "results", "seen"}
                        /\ IsSequence(acc.results)
<1>1. Len(content) \in Nat
  BY DEF IsSequence
<1>2. PICK f : /\ Reads(content, first, dedup, Len(content), f)
               /\ ProcessContent(content, seen, dedup) = f[Len(content)]
  BY <1>1, ContentDefined
<1>3. Good(first)
  BY DEF IsSequence
<1>4. ASSUME NEW acc, Good(acc), NEW block
      PROVE  Good(TakeBlock(acc, block, dedup))
  <2>1. ASSUME NEW inside
        PROVE  Good(ResultTaken(acc, inside, block))
    <3> DEFINE e == [id |-> block.id, text |-> TakeText(inside.parts, block.content)]
    <3>1. IsSequence(Append(acc.results, e))
      <4> HIDE DEF e
      <4>1. IsSequence(acc.results)
        BY <1>4
      <4> QED
        BY ONLY <4>1, AppendListed, Zenon
    <3> QED
      BY <3>1 DEF ResultTaken
  <2>2. Good(TakeResult(acc, block, dedup))
    BY <2>1 DEF TakeResult
  <2>3. ASSUME NEW p
        PROVE  Good(TakePicture(acc, p, dedup))
    BY <1>4 DEF TakePicture
  <2>4. Good([acc EXCEPT !.parts = Append(@, block.text)])
    BY <1>4
  <2> HIDE DEF Good
  <2> QED
    BY <1>4, <2>2, <2>3, <2>4 DEF TakeBlock
<1> HIDE DEF Good, first
<1> DEFINE T == {n \in 0 .. Len(content) : ~Good(f[n])}
<1>5. T = {}
  <2> SUFFICES ASSUME T # {} PROVE FALSE
    OBVIOUS
  <2>1. PICK m \in T : \A x \in T : m <= x
    <3>1. T \subseteq Nat
      BY <1>1
    <3> QED
      BY <3>1, Smallest
  <2>2. f[m] = IF m = 0 THEN first ELSE TakeBlock(f[m - 1], content[m], dedup)
    BY <1>2, <2>1 DEF Reads
  <2>3. m # 0
    BY <1>3, <2>1, <2>2
  <2>4. m - 1 \in 0 .. Len(content) /\ ~(m <= m - 1)
    BY <1>1, <2>1, <2>3
  <2>5. Good(f[m - 1])
    BY <2>1, <2>4
  <2> QED
    BY <1>4, <2>1, <2>2, <2>3, <2>5
<1>6. Len(content) \in 0 .. Len(content)
  BY <1>1
<1> QED
  BY <1>2, <1>5, <1>6 DEF Good

\* Of the results of the last message those are kept that answer an open use,
\* each use once; the orphans are the open uses that none of them answers.
LEMMA PairingKept ==
  ASSUME NEW past, NEW results, IsSequence(results)
  PROVE  LET paired == validate_tool_pairing(past, results)
             unpaired == IdsOf(UsesOf(past)) \ IdsOf(ResultsOf(past))
         IN /\ IdsOf(paired.kept) \subseteq unpaired
            /\ paired.orphans = unpaired \ IdsOf(paired.kept)
            /\ Cardinality(IdsOf(paired.kept)) = Len(paired.kept)
<1> DEFINE unpaired == IdsOf(UsesOf(past)) \ IdsOf(ResultsOf(past))
           first == [kept |-> <<>>, orphans |-> unpaired]
           Good(acc) == /\ DOMAIN acc = {"kept", "orphans"}
                        /\ IsSequence(acc.kept)
                        /\ IdsOf(acc.kept) \subseteq unpaired
                        /\ acc.orphans = unpaired \ IdsOf(acc.kept)
                        /\ IsFiniteSet(IdsOf(acc.kept))
                        /\ Cardinality(IdsOf(acc.kept)) = Len(acc.kept)
<1>1. Len(results) \in Nat
  BY DEF IsSequence
<1>2. PICK f : /\ Answers(results, first, Len(results), f)
               /\ validate_tool_pairing(past, results) = f[Len(results)]
  BY <1>1, PairingDefined
<1> HIDE DEF unpaired
<1>3. Good(first)
  <2>1. IdsOf(<<>>) = {} /\ IsSequence(<<>>) /\ Len(<<>>) = 0
    BY DEF IdsOf, IsSequence
  <2> QED
    BY <2>1, FS_EmptySet
<1>4. ASSUME NEW acc, Good(acc), NEW result
      PROVE  Good(TakeAnswer(acc, result))
  <2>1. CASE result.id \in acc.orphans
    <3> DEFINE kept == Append(acc.kept, result)
    <3>1. IsSequence(acc.kept)
      BY <1>4
    <3>2. /\ IsSequence(kept) /\ Len(kept) = Len(acc.kept) + 1
          /\ IdsOf(kept) = IdsOf(acc.kept) \cup {result.id}
      BY ONLY <3>1, AppendListed DEF Appended
    <3> HIDE DEF kept
    <3>3. result.id \in unpaired /\ result.id \notin IdsOf(acc.kept)
      BY <1>4, <2>1
    <3>4. /\ IsFiniteSet(IdsOf(kept))
          /\ Cardinality(IdsOf(kept)) = Cardinality(IdsOf(acc.kept)) + 1
      BY <1>4, <3>2, <3>3, FS_AddElement
    <3>5. TakeAnswer(acc, result) = [kept |-> kept, orphans |-> acc.orphans \ {result.id}]
      BY <2>1 DEF TakeAnswer, kept
    <3>6. /\ DOMAIN TakeAnswer(acc, result) = {"kept", "orphans"}
          /\ TakeAnswer(acc, result).kept = kept
          /\ TakeAnswer(acc, result).orphans = acc.orphans \ {result.id}
      BY <3>5
    <3>7. IdsOf(kept) \subseteq unpaired /\ acc.orphans \ {result.id} = unpaired \ IdsOf(kept)
      BY <1>4, <3>2, <3>3
    <3>8. Cardinality(IdsOf(kept)) = Len(kept)
      BY <1>4, <3>2, <3>4
    <3> QED
      BY <3>2, <3>4, <3>6, <3>7, <3>8
  <2>2. CASE result.id \notin acc.orphans
    BY <1>4, <2>2 DEF TakeAnswer
  <2> QED
    BY <2>1, <2>2
<1> HIDE DEF Good, first
<1> DEFINE T == {n \in 0 .. Len(results) : ~Good(f[n])}
<1>5. T = {}
  <2> SUFFICES ASSUME T # {} PROVE FALSE
    OBVIOUS
  <2>1. PICK m \in T : \A x \in T : m <= x
    <3>1. T \subseteq Nat
      BY <1>1
    <3> QED
      BY <3>1, Smallest
  <2>2. f[m] = IF m = 0 THEN first ELSE TakeAnswer(f[m - 1], results[m])
    BY <1>2, <2>1 DEF Answers
  <2>3. m # 0
    BY <1>3, <2>1, <2>2
  <2>4. m - 1 \in 0 .. Len(results) /\ ~(m <= m - 1)
    BY <1>1, <2>1, <2>3
  <2>5. Good(f[m - 1])
    BY <2>1, <2>4
  <2> QED
    BY <1>4, <2>1, <2>2, <2>3, <2>5
<1>6. Len(results) \in 0 .. Len(results)
  BY <1>1
<1> QED
  BY <1>2, <1>5, <1>6 DEF Good, unpaired

-----------------------------------------------------------------------------
(* The turns of a history. *)

\* A turn is a record with all its fields, and its uses are a list over U.
TurnOver(t, U) ==
  /\ DOMAIN t = {"role", "content", "images", "results", "uses"}
  /\ t.uses \in Seq(U)

HistoryOver(h, U) == IsSequence(h) /\ \A t \in ToSet(h) : TurnOver(t, U)

\* The uses that a block of the assistant may become.
UsesIn(content) ==
  {[id |-> b.id, name |-> SentName(b.name)] : b \in {c \in ToSet(content) : c.type = "tool_use"}}

\* The contents of the assistant are lists, and their uses are in U.
ContentsOver(A, U) == \A c \in A : IsSequence(c) /\ UsesIn(c) \subseteq U

LEMMA HistoryAppend ==
  ASSUME NEW U, NEW h, HistoryOver(h, U), NEW t, TurnOver(t, U)
  PROVE  HistoryOver(Append(h, t), U)
<1>1. IsSequence(Append(h, t)) /\ Appended(h, t)
  BY AppendListed DEF HistoryOver
<1> QED
  BY <1>1 DEF HistoryOver, Appended

LEMMA AssistantOver ==
  ASSUME NEW U, NEW uses \in Seq(U), NEW content
  PROVE  TurnOver(AssistantTurn(content, uses), U)
BY DEF TurnOver, AssistantTurn

LEMMA UserOver ==
  ASSUME NEW U, NEW content, NEW images, NEW results
  PROVE  TurnOver(UserTurn(content, images, results), U)
BY DEF TurnOver, UserTurn

LEMMA WithoutUses ==
  ASSUME NEW U, NEW content
  PROVE  TurnOver(AssistantTurn(content, <<>>), U)
<1>1. <<>> \in Seq(U)
  OBVIOUS
<1> QED
  BY <1>1, AssistantOver

\* convert_assistant_message sends the uses of the message, under their names.
LEMMA ConvertedOver ==
  ASSUME NEW U, NEW content, IsSequence(content), UsesIn(content) \subseteq U
  PROVE  TurnOver(ConvertedAssistant(content), U)
<1> DEFINE B == {b \in ToSet(content) : b.type = "tool_use"}
           blocks == Chosen(content, B)
           named == [i \in DOMAIN blocks |-> [id |-> blocks[i].id, name |-> SentName(blocks[i].name)]]
<1>1. blocks \in Seq(ToSet(content)) /\ ToSet(blocks) = B
  <2>1. content \in Seq(ToSet(content)) /\ ToSet(content) \cap B = B
    BY DEF IsSequence
  <2> HIDE DEF B
  <2> QED
    BY <2>1, ChosenSeq
<1>2. DOMAIN blocks = 1 .. Len(blocks) /\ Len(blocks) \in Nat
  BY <1>1
<1>3. \A i \in 1 .. Len(blocks) : named[i] \in U
  <2> SUFFICES ASSUME NEW i \in 1 .. Len(blocks) PROVE named[i] \in U
    OBVIOUS
  <2>1. blocks[i] \in B
    BY <1>1, <1>2 DEF ToSet
  <2> HIDE DEF blocks
  <2> QED
    BY <1>2, <2>1 DEF UsesIn
<1>4. named \in Seq(U)
  <2> HIDE DEF blocks
  <2>1. DOMAIN named = 1 .. Len(blocks)
    BY <1>2
  <2> HIDE DEF named
  <2>2. named = [i \in 1 .. Len(blocks) |-> named[i]]
    BY <2>1 DEF named
  <2> QED
    BY <1>2, <1>3, <2>2
<1>5. \E text : ConvertedAssistant(content) = AssistantTurn(text, named)
  BY DEF ConvertedAssistant
<1> HIDE DEF named
<1> QED
  BY <1>4, <1>5, AssistantOver

\* merge_assistant_messages sends the uses of all the messages it merges.
LEMMA MergedOver ==
  ASSUME NEW U, NEW A, ContentsOver(A, U), NEW contents \in Seq(A), contents # <<>>
  PROVE  TurnOver(MergedAssistant(contents), U)
<1> DEFINE turns == [i \in DOMAIN contents |-> ConvertedAssistant(contents[i])]
           lists == [i \in DOMAIN turns |-> turns[i].uses]
<1>1. DOMAIN contents = 1 .. Len(contents) /\ Len(contents) \in Nat /\ Len(contents) # 0
  BY EmptySeq
<1>2. \A i \in DOMAIN turns : TurnOver(turns[i], U)
  <2>1. \A i \in DOMAIN contents : contents[i] \in A
    BY <1>1
  <2> QED
    BY <2>1, ConvertedOver DEF ContentsOver
<1>3. DOMAIN turns = 1 .. Len(contents) /\ Len(turns) = Len(contents)
  BY <1>1
<1> HIDE DEF turns
<1>4. lists \in Seq(Seq(U))
  <2>1. \A i \in 1 .. Len(contents) : turns[i].uses \in Seq(U)
    BY <1>2, <1>3 DEF TurnOver
  <2>2. lists = [i \in 1 .. Len(contents) |-> turns[i].uses]
    BY <1>3
  <2> QED
    BY <1>1, <2>1, <2>2
<1>5. FlattenSeq(lists) \in Seq(U)
  BY <1>4, FlattenInSeq
<1>6. TurnOver(MergedTurns(turns, FlattenSeq(lists)), U)
  <2>1. CASE Len(turns) = 1
    BY <1>2, <1>3, <2>1 DEF MergedTurns
  <2>2. CASE Len(turns) # 1
    BY <1>5, <2>2, AssistantOver DEF MergedTurns
  <2> QED
    BY <2>1, <2>2
<1> QED
  BY <1>6 DEF MergedAssistant, turns

\* The accumulator of build_history.
CollectedOver(acc, A, U) ==
  /\ DOMAIN acc = {"turns", "user", "assistant", "seen"}
  /\ HistoryOver(acc.turns, U)
  /\ acc.assistant \in Seq(A)

LEMMA FlushAssistantOver ==
  ASSUME NEW U, NEW A, ContentsOver(A, U), NEW acc, CollectedOver(acc, A, U)
  PROVE  CollectedOver(FlushAssistant(acc), A, U)
<1>1. CASE acc.assistant = <<>>
  BY <1>1 DEF FlushAssistant
<1>2. CASE acc.assistant # <<>>
  <2> DEFINE new == FlushAssistant(acc)
  <2>1. /\ DOMAIN new = DOMAIN acc
        /\ new.turns = Append(acc.turns, MergedAssistant(acc.assistant))
        /\ new.assistant = <<>>
    BY <1>2 DEF FlushAssistant, CollectedOver
  <2>2. TurnOver(MergedAssistant(acc.assistant), U)
    BY <1>2, MergedOver DEF CollectedOver
  <2>3. HistoryOver(new.turns, U)
    BY <2>1, <2>2, HistoryAppend DEF CollectedOver
  <2> HIDE DEF new
  <2>4. CollectedOver(new, A, U)
    BY <2>1, <2>3 DEF CollectedOver
  <2> QED
    BY <2>4 DEF new
<1> QED
  BY <1>1, <1>2

LEMMA FlushUserOver ==
  ASSUME NEW U, NEW A, NEW acc, CollectedOver(acc, A, U)
  PROVE  CollectedOver(FlushUser(acc), A, U)
<1>1. CASE acc.user = <<>>
  BY <1>1 DEF FlushUser
<1>2. CASE acc.user # <<>>
  <2> DEFINE new == FlushUser(acc)
             turn == MergedTurn(MergedUser(acc.user, acc.seen))
  <2>1. /\ DOMAIN new = DOMAIN acc
        /\ new.turns = Append(acc.turns, turn)
        /\ new.assistant = acc.assistant
    <3> HIDE DEF turn
    <3>1. new = [acc EXCEPT !.turns = Append(@, turn), !.user = <<>>,
                            !.seen = MergedUser(acc.user, acc.seen).seen]
      BY <1>2 DEF FlushUser, turn
    <3> HIDE DEF new
    <3> QED
      BY <3>1 DEF CollectedOver
  <2>2. TurnOver(turn, U)
    BY UserOver DEF MergedTurn
  <2> HIDE DEF turn, new
  <2>3. HistoryOver(new.turns, U)
    BY <2>1, <2>2, HistoryAppend DEF CollectedOver
  <2>4. CollectedOver(new, A, U)
    BY <2>1, <2>3 DEF CollectedOver
  <2> QED
    BY <2>4 DEF new
<1> QED
  BY <1>1, <1>2

LEMMA CollectOver ==
  ASSUME NEW U, NEW A, ContentsOver(A, U), NEW acc, CollectedOver(acc, A, U),
         NEW message, message.role = "assistant" => message.content \in A
  PROVE  CollectedOver(CollectMessage(acc, message), A, U)
<1>1. CASE message.role = "user"
  <2> DEFINE old == FlushAssistant(acc)
  <2>1. CollectedOver(old, A, U)
    BY FlushAssistantOver
  <2>2. CollectMessage(acc, message) = [old EXCEPT !.user = Append(@, message.content)]
    BY <1>1 DEF CollectMessage
  <2> HIDE DEF old
  <2> QED
    BY <2>1, <2>2 DEF CollectedOver
<1>2. CASE message.role = "assistant"
  <2> DEFINE old == FlushUser(acc)
  <2>1. CollectedOver(old, A, U)
    BY FlushUserOver
  <2>2. CollectMessage(acc, message) = [old EXCEPT !.assistant = Append(@, message.content)]
    BY <1>2 DEF CollectMessage
  <2> HIDE DEF old
  <2>3. Append(old.assistant, message.content) \in Seq(A)
    BY <1>2, <2>1 DEF CollectedOver
  <2> QED
    BY <2>1, <2>2, <2>3 DEF CollectedOver
<1>3. CASE message.role \notin {"user", "assistant"}
  BY <1>3 DEF CollectMessage
<1> QED
  BY <1>1, <1>2, <1>3

LEMMA SystemOver ==
  ASSUME NEW U, NEW request
  PROVE  HistoryOver(SystemTurns(request), U)
<1>1. HistoryOver(<<>>, U)
  BY DEF HistoryOver, IsSequence, ToSet
<1>2. ASSUME NEW text
      PROVE  HistoryOver(<<UserTurn(text, <<>>, <<>>), AssistantTurn(<<"I will follow">>, <<>>)>>, U)
  <2> DEFINE a == UserTurn(text, <<>>, <<>>)
             b == AssistantTurn(<<"I will follow">>, <<>>)
  <2>1. TurnOver(a, U) /\ TurnOver(b, U)
    BY UserOver, WithoutUses
  <2> HIDE DEF a, b
  <2>2. ToSet(<<a, b>>) = {a, b} /\ <<a, b>> \in Seq({a, b})
    BY DEF ToSet
  <2>3. HistoryOver(<<a, b>>, U)
    BY <2>1, <2>2 DEF HistoryOver, IsSequence
  <2> QED
    BY <2>3 DEF a, b
<1> QED
  BY <1>1, <1>2 DEF SystemTurns

\* build_history: the uses of the history are those of the messages it is built of.
LEMMA HistoryBuilt ==
  ASSUME NEW U, NEW A, ContentsOver(A, U), NEW earlier, Len(earlier) \in Nat,
         \A i \in 1 .. Len(earlier) : earlier[i].role = "assistant" => earlier[i].content \in A,
         NEW request
  PROVE  HistoryOver(build_history(request, earlier), U)
<1> DEFINE first == [turns |-> SystemTurns(request), user |-> <<>>,
                     assistant |-> <<>>, seen |-> {}]
<1>1. PICK f : /\ Collects(earlier, first, Len(earlier), f)
               /\ build_history(request, earlier) = Ended(f[Len(earlier)])
  BY HistoryDefined
<1>2. CollectedOver(first, A, U)
  BY SystemOver DEF CollectedOver
<1> HIDE DEF first
<1> DEFINE T == {n \in 0 .. Len(earlier) : ~CollectedOver(f[n], A, U)}
<1>3. T = {}
  <2> SUFFICES ASSUME T # {} PROVE FALSE
    OBVIOUS
  <2>1. PICK m \in T : \A x \in T : m <= x
    <3>1. T \subseteq Nat
      OBVIOUS
    <3> QED
      BY <3>1, Smallest
  <2>2. f[m] = IF m = 0 THEN first ELSE CollectMessage(f[m - 1], earlier[m])
    BY <1>1, <2>1 DEF Collects
  <2>3. m # 0
    BY <1>2, <2>1, <2>2
  <2>4. m - 1 \in 0 .. Len(earlier) /\ ~(m <= m - 1) /\ m \in 1 .. Len(earlier)
    BY <2>1, <2>3
  <2>5. CollectedOver(f[m - 1], A, U)
    BY <2>1, <2>4
  <2>6. CollectedOver(CollectMessage(f[m - 1], earlier[m]), A, U)
    BY <2>4, <2>5, CollectOver
  <2> QED
    BY <2>1, <2>2, <2>3, <2>6
<1>4. CollectedOver(f[Len(earlier)], A, U)
  BY <1>3
<1>5. ASSUME NEW acc, CollectedOver(acc, A, U)
      PROVE  HistoryOver(Ended(acc), U)
  <2>1. CASE acc.user = <<>>
    BY <1>5, <2>1, FlushAssistantOver DEF Ended, CollectedOver
  <2>2. CASE acc.user # <<>>
    <3>1. HistoryOver(FlushUser(acc).turns, U)
      BY <1>5, FlushUserOver DEF CollectedOver
    <3>2. TurnOver(AssistantTurn(<<"OK">>, <<>>), U)
      BY WithoutUses
    <3> QED
      BY <2>2, <3>1, <3>2, HistoryAppend DEF Ended
  <2> QED
    BY <2>1, <2>2
<1> QED
  BY <1>1, <1>4, <1>5

\* A list made position by position of another list.
LEMMA ListedMap ==
  ASSUME NEW U, NEW h, IsSequence(h), NEW f, DOMAIN f = DOMAIN h,
         f = [i \in DOMAIN f |-> f[i]], \A i \in DOMAIN h : f[i] \in U
  PROVE  f \in Seq(U) /\ Len(f) = Len(h)
<1>1. DOMAIN h = 1 .. Len(h) /\ Len(h) \in Nat
  BY DEF IsSequence
<1>2. f \in [1 .. Len(h) -> U]
  BY <1>1
<1> HIDE DEF IsSequence
<1> QED
  BY ONLY <1>1, <1>2, MappedSeq

\* The uses of a history are those of its turns, and of no turn twice.
LEMMA UsesJoined ==
  ASSUME NEW U, NEW h, HistoryOver(h, U)
  PROVE  /\ UsesOf(h) \in Seq(U)
         /\ ToSet(UsesOf(h)) = UNION {ToSet(h[i].uses) : i \in DOMAIN h}
<1> DEFINE lists == [i \in DOMAIN h |-> h[i].uses]
<1>1. \A i \in DOMAIN h : lists[i] \in Seq(U)
  BY DEF HistoryOver, TurnOver, ToSet
<1>2. lists \in Seq(Seq(U)) /\ DOMAIN lists = DOMAIN h
  <2>1. IsSequence(h) /\ DOMAIN lists = DOMAIN h /\ lists = [i \in DOMAIN lists |-> lists[i]]
    BY DEF HistoryOver
  <2> HIDE DEF lists
  <2> QED
    BY <1>1, <2>1, ListedMap
<1>3. /\ FlattenSeq(lists) \in Seq(U)
      /\ ToSet(FlattenSeq(lists)) = UNION {ToSet(lists[i]) : i \in DOMAIN lists}
  <2> HIDE DEF lists
  <2> QED
    BY <1>2, FlattenInSeq, FlattenRange
<1> QED
  BY <1>2, <1>3 DEF UsesOf

LEMMA IdsOfSet ==
  ASSUME NEW s
  PROVE  IdsOf(s) = {x.id : x \in ToSet(s)}
BY DEF IdsOf, ToSet

\* remove_orphaned_tool_uses takes away the uses that are orphans, and no result.
LEMMA OrphansRemoved ==
  ASSUME NEW U, NEW h, HistoryOver(h, U), NEW orphans
  PROVE  LET cut == remove_orphaned_tool_uses(h, orphans)
         IN /\ UsesOf(cut) \in Seq(U)
            /\ IdsOf(UsesOf(cut)) = IdsOf(UsesOf(h)) \ orphans
            /\ ResultsOf(cut) = ResultsOf(h)
<1> DEFINE cut == remove_orphaned_tool_uses(h, orphans)
           Keep(uses) == Chosen(uses, {u \in ToSet(uses) : u.id \notin orphans})
<1>1. /\ DOMAIN cut = DOMAIN h /\ cut = [i \in DOMAIN cut |-> cut[i]]
      /\ \A i \in DOMAIN h : cut[i] = [h[i] EXCEPT !.uses = Keep(@)]
  BY DEF remove_orphaned_tool_uses
<1>2. ASSUME NEW uses \in Seq(U)
      PROVE  /\ Keep(uses) \in Seq(U)
             /\ ToSet(Keep(uses)) = {u \in ToSet(uses) : u.id \notin orphans}
  <2> DEFINE S == {u \in ToSet(uses) : u.id \notin orphans}
  <2>1. ToSet(uses) \cap S = S
    OBVIOUS
  <2> HIDE DEF S
  <2>2. Chosen(uses, S) \in Seq(U) /\ ToSet(Chosen(uses, S)) = ToSet(uses) \cap S
    BY ChosenSeq
  <2> QED
    BY <2>1, <2>2 DEF S
<1> HIDE DEF cut, Keep
<1>3. ASSUME NEW i \in DOMAIN h
      PROVE  /\ TurnOver(cut[i], U) /\ cut[i].results = h[i].results
             /\ ToSet(cut[i].uses) = {u \in ToSet(h[i].uses) : u.id \notin orphans}
  <2>1. TurnOver(h[i], U)
    BY DEF HistoryOver, ToSet
  <2>2. h[i].uses \in Seq(U)
    BY <2>1 DEF TurnOver
  <2>3. /\ DOMAIN cut[i] = DOMAIN h[i]
        /\ cut[i].uses = Keep(h[i].uses) /\ cut[i].results = h[i].results
    BY <1>1, <2>1 DEF TurnOver
  <2> QED
    BY <1>2, <2>1, <2>2, <2>3 DEF TurnOver
<1>4. HistoryOver(cut, U)
  <2>1. cut \in Seq(ToSet(cut))
    <3>1. IsSequence(h) /\ \A i \in DOMAIN h : cut[i] \in ToSet(cut)
      BY <1>1 DEF HistoryOver, ToSet
    <3> QED
      BY <1>1, <3>1, ListedMap
  <2>2. \A t \in ToSet(cut) : TurnOver(t, U)
    BY <1>1, <1>3 DEF ToSet
  <2> QED
    BY <2>1, <2>2 DEF HistoryOver, IsSequence
<1>5. /\ UsesOf(cut) \in Seq(U)
      /\ ToSet(UsesOf(cut)) = UNION {ToSet(cut[i].uses) : i \in DOMAIN h}
      /\ ToSet(UsesOf(h)) = UNION {ToSet(h[i].uses) : i \in DOMAIN h}
  BY <1>1, <1>4, UsesJoined
<1>6. ToSet(UsesOf(cut)) = {u \in ToSet(UsesOf(h)) : u.id \notin orphans}
  <2>1. \A x : x \in ToSet(UsesOf(cut)) <=> \E i \in DOMAIN h : x \in ToSet(cut[i].uses)
    BY <1>5
  <2>2. \A x : x \in ToSet(UsesOf(h)) <=> \E i \in DOMAIN h : x \in ToSet(h[i].uses)
    BY <1>5
  <2>3. \A x : \A i \in DOMAIN h :
          x \in ToSet(cut[i].uses) <=> x \in ToSet(h[i].uses) /\ x.id \notin orphans
    BY <1>3
  <2>4. \A x : x \in ToSet(UsesOf(cut)) <=> x \in ToSet(UsesOf(h)) /\ x.id \notin orphans
    BY ONLY <2>1, <2>2, <2>3, Zenon
  <2> QED
    BY <2>4
<1>7. IdsOf(UsesOf(cut)) = IdsOf(UsesOf(h)) \ orphans
  BY <1>6, IdsOfSet
<1>8. ResultsOf(cut) = ResultsOf(h)
  <2>1. [i \in DOMAIN cut |-> cut[i].results] = [i \in DOMAIN h |-> h[i].results]
    BY <1>1, <1>3
  <2> QED
    BY <2>1 DEF ResultsOf
<1> QED
  BY <1>5, <1>7, <1>8 DEF cut

-----------------------------------------------------------------------------
(* The request that is sent. *)

\* What a client may have written.
Said == [role : {"user"}, content : UserContents]
          \cup [role : {"assistant"}, content : AssistantContents]
          \cup {[role |-> "system", content |-> <<>>]}

\* A set of positions that is not empty has a last one.
LEMMA LastOne ==
  ASSUME NEW n \in Nat, NEW S \in SUBSET (1 .. n), S # {}
  PROVE  Max(S) \in S
<1> DEFINE T == {n - x : x \in S}
<1>1. T \subseteq Nat /\ T # {}
  OBVIOUS
<1>2. PICK d \in T : \A x \in T : d <= x
  BY <1>1, Smallest
<1>3. PICK m \in S : d = n - m
  BY <1>2
<1>4. ASSUME NEW x \in S
      PROVE  m >= x
  <2>1. d <= n - x
    BY <1>2
  <2>2. m \in Nat /\ x \in Nat
    OBVIOUS
  <2> QED
    BY ONLY <1>3, <2>1, <2>2, n \in Nat
<1> QED
  BY <1>4 DEF Max

\* The messages that are sent: those of the conversation up to the last one of
\* the user, whose content is read; those before it make the history.
LEMMA PrefillDropped ==
  ASSUME NEW ms, ms \in Seq(Said), Users(ms) # {}
  PROVE  LET w == WithoutPrefill(ms) IN
         /\ IsSequence(w[Len(w)].content)
         /\ Len(Front(w)) \in Nat /\ DOMAIN Front(w) = 1 .. Len(Front(w))
         /\ \A i \in 1 .. Len(Front(w)) :
              /\ Front(w)[i] = ms[i] /\ i \in DOMAIN ms
              /\ ms[i].role = "assistant" => ms[i].content \in AssistantContents
<1> DEFINE m == Max(Users(ms))
<1>1. DOMAIN ms = 1 .. Len(ms) /\ Len(ms) \in Nat
  OBVIOUS
<1>2. m \in Users(ms)
  <2>1. Users(ms) \in SUBSET (1 .. Len(ms))
    BY <1>1 DEF Users
  <2> QED
    BY <1>1, <2>1, LastOne
<1> HIDE DEF m
<1>3. PICK w : w = WithoutPrefill(ms)
  OBVIOUS
<1>4. m \in 1 .. Len(ms) /\ w = SubSeq(ms, 1, m)
  BY <1>1, <1>2, <1>3 DEF WithoutPrefill, m, Users
<1>5. w \in Seq(Said) /\ Len(w) = m /\ \A i \in 1 .. m : w[i] = ms[i]
  BY <1>1, <1>4
<1>6. /\ Front(w) \in Seq(Said) /\ Len(Front(w)) = m - 1
      /\ \A i \in 1 .. m - 1 : Front(w)[i] = w[i]
  BY <1>4, <1>5 DEF Front
<1>7. w[m].role = "user" /\ w[m] \in Said
  BY <1>2, <1>4, <1>5 DEF Users
<1>8. IsSequence(w[m].content)
  BY <1>7, ListsAssumption DEF Said
<1>9. \A i \in 1 .. m - 1 : /\ i \in DOMAIN ms /\ ms[i] \in Said
                            /\ Front(w)[i] = ms[i]
  BY <1>1, <1>4, <1>5, <1>6
<1>10. \A t \in Said : t.role = "assistant" => t.content \in AssistantContents
  BY DEF Said
<1> QED
  BY <1>3, <1>4, <1>5, <1>6, <1>8, <1>9, <1>10

\* The names collected are a list, with the name of each use of the history.
LEMMA NamesCollected ==
  ASSUME NEW U, NEW past, UsesOf(past) \in Seq(U)
  PROVE  /\ IsSequence(collect_history_tool_names(past))
         /\ \A i \in DOMAIN UsesOf(past) :
              UsesOf(past)[i].name \in ToSet(collect_history_tool_names(past))
<1>1. PICK uses : uses = UsesOf(past)
  OBVIOUS
<1>2. Len(uses) \in Nat /\ DOMAIN uses = 1 .. Len(uses)
  BY <1>1
<1>3. PICK f : Collected(uses, Len(uses), f) /\ collect_history_tool_names(past) = f[Len(uses)]
  BY <1>1, <1>2, NamesDefined
<1> DEFINE Good(n) == IsSequence(f[n]) /\ \A i \in 1 .. n : uses[i].name \in ToSet(f[n])
           T == {n \in 0 .. Len(uses) : ~Good(n)}
<1>4. T = {}
  <2> SUFFICES ASSUME T # {} PROVE FALSE
    OBVIOUS
  <2>1. PICK m \in T : \A x \in T : m <= x
    <3>1. T \subseteq Nat
      BY <1>2
    <3> QED
      BY <3>1, Smallest
  <2>2. f[m] = IF m = 0 THEN <<>> ELSE NamedOnce(f[m - 1], uses[m])
    BY <1>3, <2>1 DEF Collected
  <2>3. m # 0
    <3>1. IsSequence(<<>>) /\ 1 .. 0 = {}
      BY DEF IsSequence
    <3> QED
      BY <2>1, <2>2, <3>1
  <2>4. /\ m - 1 \in 0 .. Len(uses) /\ ~(m <= m - 1)
        /\ 1 .. m = (1 .. m - 1) \cup {m}
    BY <1>2, <2>1, <2>3
  <2>5. Good(m - 1)
    BY <2>1, <2>4
  <2>6. IsSequence(f[m]) /\ ToSet(f[m]) = ToSet(f[m - 1]) \cup {uses[m].name}
    <3>1. CASE uses[m].name \in ToSet(f[m - 1])
      BY <2>2, <2>3, <2>5, <3>1 DEF NamedOnce
    <3>2. CASE uses[m].name \notin ToSet(f[m - 1])
      <4>1. f[m] = Append(f[m - 1], uses[m].name)
        BY <2>2, <2>3, <3>2 DEF NamedOnce
      <4>2. IsSequence(f[m - 1])
        BY <2>5
      <4>3. IsSequence(f[m]) /\ Appended(f[m - 1], uses[m].name)
        BY ONLY <4>1, <4>2, AppendListed
      <4> QED
        BY ONLY <4>1, <4>3 DEF Appended
    <3> QED
      BY <3>1, <3>2
  <2>7. Good(m)
    BY <2>4, <2>5, <2>6
  <2> QED
    BY <2>1, <2>7
<1>5. Len(uses) \in 0 .. Len(uses)
  BY <1>2
<1>6. Good(Len(uses))
  BY <1>4, <1>5
<1> QED
  BY <1>1, <1>2, <1>3, <1>6

\* The tools that are sent are the declared ones, in their order, and behind them
\* the placeholders; in some case the name of each use is among theirs.
LEMMA PlaceholdersFit ==
  ASSUME NEW U, NEW past, UsesOf(past) \in Seq(U),
         NEW tools, IsSequence(tools)
  PROVE  LET all == tools \o Placeholders(past, tools) IN
         /\ \A i \in DOMAIN tools : all[i] = tools[i]
         /\ \A i \in DOMAIN UsesOf(past) : \E j \in DOMAIN all :
              LowerOf[all[j].name] = LowerOf[UsesOf(past)[i].name]
<1> DEFINE names == collect_history_tool_names(past)
           declared == {LowerOf[tools[i].name] : i \in DOMAIN tools}
           missing == MissingNames(past, tools)
           made == Placeholders(past, tools)
           all == tools \o made
<1>1. missing \in Seq(ToSet(names)) /\ ToSet(missing) = {n \in ToSet(names) : LowerOf[n] \notin declared}
  <2> DEFINE S == {n \in ToSet(names) : LowerOf[n] \notin declared}
  <2>1. names \in Seq(ToSet(names)) /\ ToSet(names) \cap S = S
    BY NamesCollected DEF IsSequence
  <2>2. missing = Chosen(names, S)
    BY DEF MissingNames
  <2> HIDE DEF S, names, missing
  <2>3. ToSet(missing) = S /\ missing \in Seq(ToSet(names))
    BY <2>1, <2>2, ChosenSeq
  <2> QED
    BY <2>3 DEF S
<1> HIDE DEF missing
<1>2. DOMAIN missing = 1 .. Len(missing) /\ Len(missing) \in Nat
  BY <1>1
<1>3. made = [i \in 1 .. Len(missing) |-> create_placeholder_tool(missing[i])]
  BY <1>2 DEF Placeholders, missing
<1> HIDE DEF made
<1>4. IsSequence(made) /\ Len(made) = Len(missing)
  <2>1. made \in [1 .. Len(missing) -> ToSet(made)]
    BY <1>3 DEF ToSet
  <2> QED
    BY ONLY <1>2, <2>1, MappedSeq DEF IsSequence
<1>5. /\ DOMAIN tools = 1 .. Len(tools) /\ Len(tools) \in Nat
      /\ DOMAIN all = 1 .. Len(tools) + Len(made)
      /\ \A i \in 1 .. Len(tools) + Len(made) :
           all[i] = IF i <= Len(tools) THEN tools[i] ELSE made[i - Len(tools)]
  <2>1. PICK X, Y : X = ToSet(tools) /\ Y = ToSet(made)
    OBVIOUS
  <2>2. tools \in Seq(X \cup Y) /\ made \in Seq(X \cup Y)
    <3>1. tools \in Seq(X) /\ made \in Seq(Y)
      BY <1>4, <2>1 DEF IsSequence
    <3>2. X \subseteq X \cup Y /\ Y \subseteq X \cup Y
      OBVIOUS
    <3> QED
      BY ONLY <3>1, <3>2, SeqMonotonic
  <2> QED
    BY ONLY <2>2
<1>6. \A i \in DOMAIN tools : all[i] = tools[i] /\ i \in DOMAIN all
  BY <1>2, <1>4, <1>5
<1>7. ASSUME NEW u \in ToSet(names)
      PROVE  \E j \in DOMAIN all : LowerOf[all[j].name] = LowerOf[u]
  <2>1. CASE LowerOf[u] \in declared
    BY <1>6, <2>1
  <2>2. CASE LowerOf[u] \notin declared
    <3>1. PICK k \in 1 .. Len(missing) : missing[k] = u
      BY <1>1, <1>2, <2>2 DEF ToSet
    <3>2. made[k].name = u
      BY <1>3, <3>1 DEF create_placeholder_tool
    <3>3. /\ k + Len(tools) \in 1 .. Len(tools) + Len(made)
          /\ ~(k + Len(tools) <= Len(tools)) /\ (k + Len(tools)) - Len(tools) = k
      BY <1>2, <1>4, <1>5, <3>1
    <3>4. all[k + Len(tools)] = made[k] /\ k + Len(tools) \in DOMAIN all
      BY <1>5, <3>3
    <3> HIDE DEF all
    <3> QED
      BY <3>2, <3>4
  <2> QED
    BY <2>1, <2>2
<1>8. \A i \in DOMAIN UsesOf(past) : UsesOf(past)[i].name \in ToSet(names)
  BY NamesCollected
<1> HIDE DEF names, all
<1> QED
  BY <1>6, <1>7, <1>8 DEF all, made

\* What the assistant used in the first messages of ms.
EarlierContents(ms) ==
  LET f == Front(WithoutPrefill(ms))
  IN {f[i].content : i \in {j \in DOMAIN f : f[j].role = "assistant"}}
EarlierUses(ms) == UNION {UsesIn(c) : c \in EarlierContents(ms)}

\* What a conversation that is sent consists of.
SentAs(request, ms, result) ==
  \E last, built, paired :
    /\ IsSequence(last.results)
    /\ HistoryOver(built, EarlierUses(ms))
    /\ paired = validate_tool_pairing(built, last.results)
    /\ result.history = remove_orphaned_tool_uses(built, paired.orphans)
    /\ result.results = paired.kept
    /\ result.name_map = map_tool_names(NamesUsed(request, Front(WithoutPrefill(ms))))
    /\ LET tools == [i \in DOMAIN request.tools |-> ConvertedTool(request.tools[i])]
       IN result.tools = tools \o Placeholders(result.history, tools)

LEMMA OverrideKeepsTools ==
  ASSUME NEW request, "tools" \in DOMAIN request
  PROVE  OverrideThinking(request).tools = request.tools
BY DEF OverrideThinking

LEMMA AnsweredAs ==
  ASSUME NEW request, NEW ms, ms \in Seq(Said), Users(ms) # {}
  PROVE  SentAs(request, ms, Answered(request, WithoutPrefill(ms)))
<1> DEFINE w == WithoutPrefill(ms)
           last == ProcessContent(w[Len(w)].content, {}, FALSE)
           built == build_history(request, Front(w))
           paired == validate_tool_pairing(built, last.results)
           past == remove_orphaned_tool_uses(built, paired.orphans)
           tools == [i \in DOMAIN request.tools |-> ConvertedTool(request.tools[i])]
           result == Answered(request, w)
<1>1. IsSequence(last.results)
  BY PrefillDropped, ResultsListed
<1>2. HistoryOver(built, EarlierUses(ms))
  <2>1. PICK f, A, U : f = Front(w) /\ A = EarlierContents(ms) /\ U = EarlierUses(ms)
    OBVIOUS
  <2>2. /\ Len(f) \in Nat /\ DOMAIN f = 1 .. Len(f)
        /\ \A i \in 1 .. Len(f) : f[i].role = "assistant" => f[i].content \in AssistantContents
    BY <2>1, PrefillDropped
  <2>3. \A i \in 1 .. Len(f) : f[i].role = "assistant" => f[i].content \in A
    BY <2>1, <2>2 DEF EarlierContents
  <2>4. \A c \in A : c \in AssistantContents
    BY <2>1, <2>2 DEF EarlierContents
  <2>5. ContentsOver(A, U)
    BY <2>1, <2>4, ListsAssumption DEF ContentsOver, EarlierUses
  <2> QED
    BY <2>1, <2>2, <2>3, <2>5, HistoryBuilt
<1>3. result = Conversation(request, w, tools, last, paired, past)
  BY DEF Answered
<1>4. /\ result.history = past /\ result.results = paired.kept
      /\ result.name_map = map_tool_names(NamesUsed(request, Front(w)))
      /\ result.tools = tools \o Placeholders(past, tools)
  <2> HIDE DEF result, past, paired, tools, last, built
  <2> QED
    BY <1>3 DEF Conversation
<1> HIDE DEF result, last, built
<1>5. SentAs(request, ms, result)
  BY <1>1, <1>2, <1>4 DEF SentAs
<1> QED
  BY <1>5 DEF result

\* An answer without an error is such a conversation.
LEMMA ConvertedAs ==
  ASSUME NEW request, "tools" \in DOMAIN request, NEW ms, ms \in Seq(Said),
         convert_request(request, ms).error = ""
  PROVE  /\ Users(ms) # {}
         /\ SentAs(OverrideThinking(request), ms, convert_request(request, ms))
<1> DEFINE asking == OverrideThinking(request)
<1>1. convert_request(request, ms) =
        IF ~SupportedModel(asking.model) THEN Failure("UnsupportedModel")
        ELSE IF Users(ms) = {} THEN Failure("EmptyMessages")
        ELSE Answered(asking, WithoutPrefill(ms))
  BY DEF convert_request
<1>2. Failure("UnsupportedModel").error # "" /\ Failure("EmptyMessages").error # ""
  BY DEF Failure
<1> HIDE DEF asking
<1>3. Users(ms) # {} /\ convert_request(request, ms) = Answered(asking, WithoutPrefill(ms))
  BY <1>1, <1>2
<1> QED
  BY <1>3, AnsweredAs DEF asking

-----------------------------------------------------------------------------
(* A client writes messages, and is answered what is converted of them. *)

RequestInv ==
  /\ "tools" \in DOMAIN asked
  /\ IsSequence(asked.tools) /\ asked.tools \in Declarations
  /\ messages \in Seq(Said)
  /\ converted \in {<<>>, <<convert_request(asked, messages)>>}

LEMMA InitRequestInv == InitRequest => RequestInv
<1> SUFFICES ASSUME InitRequest PROVE RequestInv
  OBVIOUS
<1>1. asked.tools \in Declarations /\ "tools" \in DOMAIN asked
  BY DEF InitRequest
<1> QED
  BY <1>1, ListsAssumption DEF InitRequest, RequestInv

LEMMA NextRequestInv == RequestInv /\ [NextRequest]_requestVars => RequestInv'
<1> SUFFICES ASSUME RequestInv, [NextRequest]_requestVars PROVE RequestInv'
  OBVIOUS
<1>1. ASSUME NEW role, NEW content, AddMessage(role, content),
             [role |-> role, content |-> content] \in Said
      PROVE  RequestInv'
  <2>1. messages' \in Seq(Said)
    BY <1>1 DEF AddMessage, RequestInv
  <2> QED
    BY <1>1, <2>1 DEF AddMessage, RequestInv
<1>2. CASE UserSays
  <2>1. PICK c \in UserContents : AddMessage("user", c)
    BY <1>2 DEF UserSays
  <2>2. [role |-> "user", content |-> c] \in Said
    BY DEF Said
  <2> QED
    BY <1>1, <2>1, <2>2
<1>3. CASE AssistantSaid
  <2>1. PICK c \in AssistantContents : AddMessage("assistant", c)
    BY <1>3 DEF AssistantSaid
  <2>2. [role |-> "assistant", content |-> c] \in Said
    BY DEF Said
  <2> QED
    BY <1>1, <2>1, <2>2
<1>4. CASE OtherSaid
  <2>1. [role |-> "system", content |-> <<>>] \in Said
    BY DEF Said
  <2> QED
    BY <1>1, <1>4, <2>1 DEF OtherSaid
<1>5. CASE Convert
  BY <1>5 DEF Convert, RequestInv
<1>6. CASE UNCHANGED requestVars
  BY <1>6 DEF requestVars, RequestInv
<1> QED
  BY <1>2, <1>3, <1>4, <1>5, <1>6 DEF NextRequest

\* What is sent is converted of the messages as they stand.
LEMMA SentResult ==
  ASSUME RequestInv, IsSent
  PROVE  /\ Users(messages) # {}
         /\ SentAs(OverrideThinking(asked), messages, Result)
<1>1. PICK r : r = convert_request(asked, messages)
  OBVIOUS
<1>2. converted = <<r>>
  BY <1>1 DEF RequestInv, IsSent
<1>3. Result = r /\ r.error = ""
  BY <1>2 DEF Result, IsSent
<1> QED
  BY <1>1, <1>3, ConvertedAs DEF RequestInv

\* Whatever the client cut out of its conversation, every use that is sent is
\* answered, in the history or by the last message, and the last message answers
\* each open use once and nothing else.
THEOREM EveryUseAnswered == RequestSpec => []UsesPaired
<1>1. ASSUME RequestInv
      PROVE  UsesPaired
  <2> SUFFICES ASSUME IsSent
               PROVE  /\ IdsOf(UsesOf(Result.history))
                           \subseteq IdsOf(ResultsOf(Result.history)) \cup IdsOf(Result.results)
                      /\ IdsOf(Result.results)
                           \subseteq IdsOf(UsesOf(Result.history)) \ IdsOf(ResultsOf(Result.history))
                      /\ Cardinality(IdsOf(Result.results)) = Len(Result.results)
    BY DEF UsesPaired
  <2>1. PICK last, built, paired :
          /\ IsSequence(last.results)
          /\ HistoryOver(built, EarlierUses(messages))
          /\ paired = validate_tool_pairing(built, last.results)
          /\ Result.history = remove_orphaned_tool_uses(built, paired.orphans)
          /\ Result.results = paired.kept
    BY <1>1, SentResult DEF SentAs
  <2> DEFINE unpaired == IdsOf(UsesOf(built)) \ IdsOf(ResultsOf(built))
  <2>2. /\ IdsOf(paired.kept) \subseteq unpaired
        /\ paired.orphans = unpaired \ IdsOf(paired.kept)
        /\ Cardinality(IdsOf(paired.kept)) = Len(paired.kept)
    BY <2>1, PairingKept
  <2>3. /\ IdsOf(UsesOf(Result.history)) = IdsOf(UsesOf(built)) \ paired.orphans
        /\ ResultsOf(Result.history) = ResultsOf(built)
    BY <2>1, OrphansRemoved
  <2> QED
    BY <2>1, <2>2, <2>3
<1> QED
  BY <1>1, InitRequestInv, NextRequestInv, PTL DEF RequestSpec

\* The tools that are sent, of what is declared and what the history uses.
LEMMA SentTools ==
  ASSUME RequestInv, IsSent
  PROVE  /\ UsesOf(Result.history) \in Seq(EarlierUses(messages))
         /\ \A i \in DOMAIN asked.tools : Result.tools[i].name = SentName(asked.tools[i].name)
         /\ \A i \in DOMAIN UsesOf(Result.history) : \E j \in DOMAIN Result.tools :
              LowerOf[Result.tools[j].name] = LowerOf[UsesOf(Result.history)[i].name]
<1> DEFINE tools == [i \in DOMAIN asked.tools |-> ConvertedTool(asked.tools[i])]
<1>1. OverrideThinking(asked).tools = asked.tools
  BY OverrideKeepsTools DEF RequestInv
<1>2. PICK last, built, paired :
        /\ HistoryOver(built, EarlierUses(messages))
        /\ Result.history = remove_orphaned_tool_uses(built, paired.orphans)
        /\ Result.tools = tools \o Placeholders(Result.history, tools)
  BY <1>1, SentResult DEF SentAs
<1>3. UsesOf(Result.history) \in Seq(EarlierUses(messages))
  BY <1>2, OrphansRemoved
<1>4. /\ IsSequence(asked.tools) /\ DOMAIN tools = DOMAIN asked.tools
      /\ tools = [i \in DOMAIN tools |-> tools[i]]
      /\ \A i \in DOMAIN asked.tools :
           tools[i] \in ToSet(tools) /\ tools[i].name = SentName(asked.tools[i].name)
  BY DEF RequestInv, ToSet, ConvertedTool
<1> HIDE DEF tools
<1>5. IsSequence(tools)
  BY <1>4, ListedMap DEF IsSequence
<1>6. PICK U, h, t : U = EarlierUses(messages) /\ h = Result.history /\ t = tools
  OBVIOUS
<1>7. /\ \A i \in DOMAIN tools : Result.tools[i] = tools[i]
      /\ \A i \in DOMAIN UsesOf(h) : \E j \in DOMAIN Result.tools :
           LowerOf[Result.tools[j].name] = LowerOf[UsesOf(h)[i].name]
  <2>1. UsesOf(h) \in Seq(U) /\ IsSequence(t)
    BY <1>3, <1>5, <1>6
  <2>2. LET all == t \o Placeholders(h, t) IN
        /\ \A i \in DOMAIN t : all[i] = t[i]
        /\ \A i \in DOMAIN UsesOf(h) : \E j \in DOMAIN all :
             LowerOf[all[j].name] = LowerOf[UsesOf(h)[i].name]
    BY ONLY <2>1, PlaceholdersFit
  <2>3. Result.tools = t \o Placeholders(h, t)
    BY <1>2, <1>6
  <2> QED
    BY <1>6, <2>2, <2>3
<1> QED
  BY <1>3, <1>4, <1>6, <1>7

\* Every tool the history uses is declared to the upstream, or has a placeholder.
THEOREM ToolsDeclared == RequestSpec => []HistoryToolsDeclared
<1>1. RequestInv => HistoryToolsDeclared
  BY SentTools DEF HistoryToolsDeclared
<1> QED
  BY <1>1, InitRequestInv, NextRequestInv, PTL DEF RequestSpec

-----------------------------------------------------------------------------
(* The names of the tools. *)

\* The names that a client may declare or use.
UsedNames(content) == {b.name : b \in {c \in ToSet(content) : c.type = "tool_use"}}
ClientNames ==
  (UNION {{t.name : t \in ToSet(tools)} : tools \in Declarations})
    \cup UNION {UsedNames(content) : content \in AssistantContents}

\* No two names are shortened alike, and none is what another is shortened to:
\* a short name ends in eight digits of a SHA-256.
ShortNamesApart ==
  /\ \A m, n \in DOMAIN ShortOf : ShortOf[m] = ShortOf[n] => m = n
  /\ \A m \in DOMAIN ShortOf : ShortOf[m] \notin ClientNames

\* Then the map of names leads each name that is sent back to its own.
LEMMA NameLeadsBack ==
  ASSUME ShortNamesApart, NEW names, names \subseteq ClientNames, NEW n \in names
  PROVE  LET map == map_tool_names(names)
             sent == SentName(n)
         IN (IF sent \in DOMAIN map THEN map[sent] ELSE sent) = n
<1> DEFINE map == map_tool_names(names)
           long == names \cap DOMAIN ShortOf
<1>1. /\ DOMAIN map = {ShortOf[m] : m \in long}
      /\ \A short \in DOMAIN map : map[short] = CHOOSE m \in long : ShortOf[m] = short
  BY DEF map_tool_names
<1> HIDE DEF map
<1>2. CASE n \in DOMAIN ShortOf
  <2>1. SentName(n) = ShortOf[n] /\ n \in long /\ ShortOf[n] \in DOMAIN map
    BY <1>1, <1>2 DEF SentName
  <2>2. map[ShortOf[n]] = CHOOSE m \in long : ShortOf[m] = ShortOf[n]
    BY <1>1, <2>1
  <2>3. \A m \in long : ShortOf[m] = ShortOf[n] => m = n
    BY <1>2 DEF ShortNamesApart
  <2>4. (CHOOSE m \in long : ShortOf[m] = ShortOf[n]) = n
    BY <2>1, <2>3
  <2> QED
    BY <2>1, <2>2, <2>4 DEF map
<1>3. CASE n \notin DOMAIN ShortOf
  <2>1. SentName(n) = n /\ n \notin DOMAIN map
    BY <1>1, <1>3 DEF SentName, ShortNamesApart
  <2> QED
    BY <2>1 DEF map
<1> QED
  BY <1>2, <1>3

\* The names in the map are names of the client, and the uses sent have no others.
LEMMA NamesOfClient ==
  ASSUME RequestInv, Users(messages) # {}
  PROVE  LET names == NamesUsed(OverrideThinking(asked), Front(WithoutPrefill(messages))) IN
         /\ names \subseteq ClientNames
         /\ names \subseteq NamesUsed(asked, messages)
         /\ \A i \in DOMAIN asked.tools : asked.tools[i].name \in names
         /\ \A u \in EarlierUses(messages) : \E n \in names : u.name = SentName(n)
<1> DEFINE names == NamesUsed(OverrideThinking(asked), Front(WithoutPrefill(messages)))
<1>1. PICK f : f = Front(WithoutPrefill(messages))
  OBVIOUS
<1>2. /\ DOMAIN f = 1 .. Len(f)
      /\ \A i \in 1 .. Len(f) : /\ f[i] = messages[i] /\ i \in DOMAIN messages
                                /\ messages[i].role = "assistant"
                                     => messages[i].content \in AssistantContents
  BY <1>1, PrefillDropped DEF RequestInv
<1>3. OverrideThinking(asked).tools = asked.tools
  BY OverrideKeepsTools DEF RequestInv
<1> DEFINE declared == {asked.tools[i].name : i \in DOMAIN asked.tools}
           spoken == {j \in DOMAIN f : f[j].role = "assistant"}
           spokenAll == {j \in DOMAIN messages : messages[j].role = "assistant"}
<1>4. names = declared \cup UNION {UsedNames(f[i].content) : i \in spoken}
  BY <1>1, <1>3 DEF NamesUsed, UsedNames
<1>5. NamesUsed(asked, messages) = declared \cup UNION {UsedNames(messages[i].content) : i \in spokenAll}
  BY DEF NamesUsed, UsedNames
<1>6. EarlierUses(messages) = UNION {UsesIn(f[i].content) : i \in spoken}
  BY <1>1 DEF EarlierUses, EarlierContents
<1>7. \A i \in spoken : i \in spokenAll /\ f[i] = messages[i]
                        /\ f[i].content \in AssistantContents
  BY <1>2
<1>8. \A content \in AssistantContents : UsedNames(content) \subseteq ClientNames
  BY DEF ClientNames
<1>9. \A content : \A u \in UsesIn(content) : \E n \in UsedNames(content) : u.name = SentName(n)
  BY DEF UsesIn, UsedNames
<1>10. declared \subseteq ClientNames
  <2>1. declared = {t.name : t \in ToSet(asked.tools)}
    BY DEF ToSet
  <2>2. PICK d : d = asked.tools /\ d \in Declarations
    BY DEF RequestInv
  <2>3. {t.name : t \in ToSet(d)} \subseteq ClientNames
    BY ONLY <2>2 DEF ClientNames
  <2> QED
    BY <2>1, <2>2, <2>3
<1> HIDE DEF names, spoken, spokenAll
<1>11. names \subseteq ClientNames
  <2>1. \A i \in spoken : UsedNames(f[i].content) \subseteq ClientNames
    BY <1>7, <1>8
  <2> HIDE DEF declared
  <2> QED
    BY <1>4, <1>10, <2>1
<1>12. names \subseteq NamesUsed(asked, messages)
  BY <1>4, <1>5, <1>7
<1>13. \A i \in DOMAIN asked.tools : asked.tools[i].name \in names
  BY <1>4
<1>14. \A u \in EarlierUses(messages) : \E n \in names : u.name = SentName(n)
  BY <1>4, <1>6, <1>9
<1> QED
  BY <1>11, <1>12, <1>13, <1>14 DEF names

\* Every name that is sent, of a tool that is declared or used in the history,
\* leads back to the name the client gave it.
THEOREM NamesLeadBack ==
  ASSUME ShortNamesApart
  PROVE  RequestSpec => []NamesRestored
<1>1. ASSUME RequestInv
      PROVE  NamesRestored
  <2> DEFINE Restored(name) == IF name \in DOMAIN Result.name_map THEN Result.name_map[name] ELSE name
  <2> SUFFICES ASSUME IsSent
               PROVE  /\ \A i \in DOMAIN asked.tools : Restored(Result.tools[i].name) = asked.tools[i].name
                      /\ \A i \in DOMAIN UsesOf(Result.history) :
                           Restored(UsesOf(Result.history)[i].name) \in NamesUsed(asked, messages)
    BY DEF NamesRestored
  <2>1. PICK names : names = NamesUsed(OverrideThinking(asked), Front(WithoutPrefill(messages)))
    OBVIOUS
  <2>2. Users(messages) # {} /\ Result.name_map = map_tool_names(names)
    BY <1>1, <2>1, SentResult DEF SentAs
  <2>3. /\ names \subseteq ClientNames
        /\ names \subseteq NamesUsed(asked, messages)
        /\ \A i \in DOMAIN asked.tools : asked.tools[i].name \in names
        /\ \A u \in EarlierUses(messages) : \E n \in names : u.name = SentName(n)
    BY <1>1, <2>1, <2>2, NamesOfClient
  <2>4. \A n \in names : Restored(SentName(n)) = n
    BY <2>2, <2>3, NameLeadsBack
  <2> HIDE DEF Restored
  <2>5. /\ UsesOf(Result.history) \in Seq(EarlierUses(messages))
        /\ \A i \in DOMAIN asked.tools : Result.tools[i].name = SentName(asked.tools[i].name)
    BY <1>1, SentTools
  <2>6. \A i \in DOMAIN asked.tools : Restored(Result.tools[i].name) = asked.tools[i].name
    BY <2>3, <2>4, <2>5
  <2>7. \A i \in DOMAIN UsesOf(Result.history) :
          Restored(UsesOf(Result.history)[i].name) \in NamesUsed(asked, messages)
    <3>1. \A i \in DOMAIN UsesOf(Result.history) : UsesOf(Result.history)[i] \in EarlierUses(messages)
      BY <2>5
    <3> QED
      BY <2>3, <2>4, <3>1
  <2> QED
    BY <2>6, <2>7
<1> QED
  BY <1>1, InitRequestInv, NextRequestInv, PTL DEF RequestSpec
=============================================================================
