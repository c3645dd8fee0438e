---------------------------- MODULE MCStreamPool ----------------------------
(* Two connections, two streams at a time and a chat message.              *)
EXTENDS StreamPool
============================================================================
