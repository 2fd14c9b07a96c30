--------------------------- MODULE MCAgentProcess ---------------------------
(* An A2A server, restarted once, beside a launcher or an MCP server. *)
EXTENDS AgentProcess
CONSTANTS p, q
MCKinds == {[x \in Processes |-> IF x = p THEN pair[1] ELSE pair[2]] :
              pair \in {<<"a2a", "launcher">>, <<"a2a", "mcp">>, <<"stdio", "mcp">>}}
MCStarts == [x \in Processes |-> IF x = p THEN 2 ELSE 1]
Dbs(dataset, sessions, tasks, shared) ==
  [dataset |-> dataset, sessions |-> sessions, tasks |-> tasks, shared |-> shared]
\* A first boot; an interrupted restore; a first boot beside a foreign generation of the
\* task store and of the server.
MCFound == {Dbs("absent", "absent", "absent", "absent"), Dbs("torn", "torn", "torn", "absent"),
            Dbs("absent", "absent", "foreign", "foreign")}
=============================================================================
