--------------------------- MODULE MCAgentDaemon ---------------------------
(* One or two connections, attaching one after the other or racing, and a  *)
(* buffer of one byte, which the second byte of output overflows.          *)
EXTENDS AgentDaemon
=============================================================================
