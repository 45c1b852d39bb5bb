----------------------------- MODULE MCP2PLink -----------------------------
(* What the node and its gateway are given to do, in turn: frames, requests, *)
(* and the downlinks the gateway queues.                                     *)
EXTENDS P2PLink

Traffic ==
  {<<"command", "report", "status">>, <<"command", "answer", "rejoin">>,
   <<"check", "report", "report">>, <<"time", "unconfirmed">>, <<"command", "report", "detach">>}
=============================================================================
