------------------------------ MODULE MCLedger ------------------------------
(***************************************************************************)
(* Records among four peers, with the default weights of config.hpp and    *)
(* two genesis records.  Peer self has three records it may make; one of   *)
(* the others' records comes so late that its parents are too heavy, and   *)
(* another builds on that one.                                             *)
(***************************************************************************)
EXTENDS LedgerProperties, AddLoops, TLC

CONSTANTS self, b, c, d, key, g1, g2, b1, c1, d1, d0, c2, s1, s2, s3, d2, b2, c3

MCPeer == {"/genesis", self, b, c, d}
MCCert == MCPeer
MCKey  == {key}
MCCertInfo == [p \in MCPeer |-> [identity |-> p, key |-> key, issuedByAnchor |-> TRUE]]
MCUnder == [p \in MCPeer |-> {p}]

Generic(p, ptrs) ==
  [producer |-> p, type |-> "GENERIC_RECORD", timestamp |-> 0, pointers |-> ptrs,
   prevCerts |-> {}, certs |-> {}, revoked |-> {}, key |-> key]
Genesis ==
  [producer |-> "/genesis", type |-> "GENESIS_RECORD", timestamp |-> 0, pointers |-> {},
   prevCerts |-> {}, certs |-> {}, revoked |-> {}, key |-> key]

AllData ==
     g1 :> Genesis @@ g2 :> Genesis
  @@ b1 :> Generic(b, {g1, g2})
  @@ c1 :> Generic(c, {g1, b1})
  @@ d1 :> Generic(d, {b1, c1})
  @@ d0 :> Generic(d, {g1, g2})
  @@ c2 :> Generic(c, {d0, b1})
  @@ s1 :> Generic(self, {g1, g2})
  @@ s2 :> Generic(self, {b1, g2})
  @@ s3 :> Generic(self, {b1, c1})
  @@ d2 :> Generic(d, {s1, c1})
  @@ b2 :> Generic(b, {c1, d1})
  @@ c3 :> Generic(c, {d1, b2})
AllNames ==
     g1 :> 0 @@ g2 :> 1 @@ s1 :> 2 @@ s2 :> 3 @@ s3 :> 4 @@ b1 :> 5 @@ c1 :> 6
  @@ c2 :> 7 @@ d0 :> 8 @@ d1 :> 9 @@ d2 :> 10 @@ b2 :> 11 @@ c3 :> 12

\* Most of them.
MCRecord == DOMAIN AllData \ {c3}
MCData == [r \in MCRecord |-> AllData[r]]
MCNameOrder == [r \in MCRecord |-> AllNames[r]]

Sync(tips) == [sender |-> b, key |-> key, certs |-> {}, tips |-> tips]
MCAdvert == {Sync({b2}), Sync({c2}), Sync({d2})}

\* Fewer of them, for runs in which time passes or the process restarts.
FewRecord == {g1, g2, b1, c1, d1, s1}
FewData == [r \in FewRecord |-> AllData[r]]
FewNameOrder == [r \in FewRecord |-> AllNames[r]]
FewAdvert == {Sync({d1}), Sync({s1, c1})}

\* A DAG another peer made before, none of whose records is too heavy to be
\* appended to, whichever is fetched first.
ChainRecord == {g1, g2, b1, c1, d1, b2, c3}
ChainData == [r \in ChainRecord |-> AllData[r]]
ChainNameOrder == [r \in ChainRecord |-> AllNames[r]]
ChainAdvert == {Sync({c3}), Sync({d1, c1})}
=============================================================================
