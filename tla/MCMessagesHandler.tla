--------------------------- MODULE MCMessagesHandler ---------------------------
(***************************************************************************)
(* Instances of MessagesHandler, and the statements of the sources that    *)
(* the code does not keep.                                                 *)
(***************************************************************************)
EXTENDS MessagesHandler

Request(tools, stream, buffered, thinking, valid) ==
  [tools |-> tools, stream |-> stream, buffered |-> buffered, thinking |-> thinking,
   valid |-> valid, provider |-> TRUE]

AnyPayload ==
  {Request(t, s, b, k, TRUE) : t \in {{"exec"}, {"exec", "web_search"}, {"web_search"}},
                               s \in BOOLEAN, b \in {FALSE}, k \in {FALSE}}
  \cup {Request({"exec"}, TRUE, TRUE, FALSE, TRUE), Request({"exec"}, FALSE, FALSE, TRUE, TRUE),
        Request({"exec"}, TRUE, FALSE, FALSE, FALSE),
        [Request({"exec"}, TRUE, FALSE, FALSE, TRUE) EXCEPT !.provider = FALSE]}

-----------------------------------------------------------------------------

\* The usage of a request is recorded with the credits upstream metered for
\* it.  A loop whose next round fails records none (run_round), while one
\* whose search fails records them all.
CreditsRecorded == pc = "done" /\ route = "loop" => usage[1].credits = metered

\* A whole answer that stops for a tool holds a call: the stop reason is set
\* by the first piece of one, the call by the last.
WholeReasonFits ==
  (pc = "done" /\ route = "whole" /\ answer[1].reason = "tool_use") =>
    \E i \in DOMAIN answer[1].content : IsClientCall(answer[1].content[i])

=============================================================================
