------------------------- MODULE MCEndpointRecords -------------------------
(* Two messages of the peer under way at a time.                           *)
EXTENDS EndpointRecords
============================================================================
