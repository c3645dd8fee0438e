-------------------------- MODULE MCWebsocketPool --------------------------
(* Instances of WebsocketPool for TLC.                                     *)
EXTENDS WebsocketPool
============================================================================
