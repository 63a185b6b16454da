--------------------------- MODULE MCBackendConn ---------------------------
(* Small instances of BackendConn for TLC.                                 *)
EXTENDS BackendConnPool, TLC

Symmetry == Permutations(Request) \cup Permutations(Conn)
                \cup Permutations(Offliner)
=============================================================================
