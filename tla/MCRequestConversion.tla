------------------------ MODULE MCRequestConversion ------------------------
(* Small requests for RequestConversion: two tool uses, three tool names of    *)
(* which two differ in case and one is too long, two pictures.                 *)
EXTENDS RequestConversion

MCModels == {{"opus", "4-6", "thinking"}, {"haiku"}}
MCSystems == {<<>>, << <<>> >>, << <<"be brief">> >>}
MCThinkings == {"none"}
MCEfforts == {"ultra"}

Text(s) == [type |-> "text", text |-> s]
Thinking(s) == [type |-> "thinking", text |-> s]
Image(p) == [type |-> "image", picture |-> p]
Use(i, n) == [type |-> "tool_use", id |-> i, name |-> n]
Answer(i, c) == [type |-> "tool_result", id |-> i, content |-> c]

MCShortOf == [n \in {"mcp__long"} |-> "mcp_1f"]
MCLowerOf == [n \in {"Read", "read", "mcp__long", "mcp_1f"} |-> IF n = "Read" THEN "read" ELSE n]

Plain == [words |-> {}, inner |-> {}]
Draft2020 == [words |-> {"$schema"},
              inner |-> {{"exclusiveMinimum"}, {"maximum"}}]
MCDeclarations == {<<>>, <<[name |-> "Read", schema |-> Draft2020], [name |-> "mcp__long", schema |-> Plain]>>}

MCUserContents ==
    { <<Text(<<"hi">>)>>,
      <<Answer("t1", <<Image("p1")>>), Answer("t2", <<>>)>>,
      <<Answer("t2", <<Text(<<>>), Image("tiff")>>), Image("p1"), Text(<<"look">>)>>,
      <<Image("p1"), Image("p2"), Image("p1")>> }

MCAssistantContents ==
    { <<>>,
      <<Thinking(<<"hm">>), Use("t1", "read")>>,
      <<Use("t1", "Read"), Use("t2", "mcp__long")>>,
      <<Text(<<"ok">>), Use("t2", "Read")>> }
=============================================================================
