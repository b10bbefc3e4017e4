--------------------------- MODULE MCStompSession -----------------------------
(* StompSession for TLC; the configurations choose sizes and properties.     *)
EXTENDS StompSession
=============================================================================
