------------------------- MODULE MCHttpConnectionPool -------------------------
(* Small instances of HttpConnectionPool for TLC. *)
EXTENDS HttpConnectionPool
=============================================================================
