--------------------------- MODULE MCClientHandle ---------------------------
(* Two callers that share a client of at most two connections.             *)
EXTENDS ClientHandle
=============================================================================
