--------------------------- MODULE MCBackService ---------------------------
(* Small instances of BackService for TLC.                                 *)
EXTENDS BackService, TLC

Symmetry == Permutations(ConnId) \cup Permutations(Accepted)

\* The state without unread, which only Converges reads and no step depends on.
WatchView ==
    <<poolVars, addrOf, addr2Conn, wpc, todo, addressMap, retiring, zkVars,
      stopVars>>

\* Converges is about services that are not stopped: what follows Stop need not
\* be explored for it.
NotStopped == ~stop
=============================================================================
