--------------------------- MODULE MCSessionTable ---------------------------
(* TLC instance of SessionTable: two devices behind the agent, one wireless.  *)
EXTENDS SessionTable

MCAgentDevs == <<"a", "b">>
=============================================================================
