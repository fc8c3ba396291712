--------------------------- MODULE MCConnectionPool ---------------------------
(***************************************************************************)
(* Symmetry is not used: ConnectionPool_share checks a liveness property.  *)
(***************************************************************************)
EXTENDS ConnectionPool
=============================================================================
