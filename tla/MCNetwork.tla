----------------------------- MODULE MCNetwork -----------------------------
(***************************************************************************)
(* Three peers with the default weights.  Each makes one record, the next  *)
(* on top of those before; a is the anchor, its record issues c a second   *)
(* certificate.  In one instance c also makes a record that revokes b's    *)
(* certificate, on which a and b would build if they took it in.  In the   *)
(* other it may make c0 over the genesis records: a peer that gets it late *)
(* finds them too heavy and rejects it.                                    *)
(***************************************************************************)
EXTENDS Network, TLC

CONSTANTS a, b, c, newCert, key, g1, g2, a1, b1, c1, c0, revokeB, a2, b2

MCPeer == {"/genesis", a, b, c}
MCMember == {a, b, c}
MCKey == {key}
MCCert == MCPeer \cup {newCert}
MCCertInfo == [x \in MCCert |->
  [identity |-> IF x = newCert THEN c ELSE x, key |-> key, issuedByAnchor |-> TRUE]]
MCUnder == [p \in MCPeer |-> {p}]
MCSigningKey == [p \in MCMember |-> key]

Packet_(p, type, ptrs) ==
  [producer |-> p, type |-> type, timestamp |-> 0, pointers |-> ptrs,
   prevCerts |-> {}, certs |-> {}, revoked |-> {}, key |-> key]
Generic(p, ptrs) == Packet_(p, "GENERIC_RECORD", ptrs)

AllData ==
     g1 :> Packet_("/genesis", "GENESIS_RECORD", {})
  @@ g2 :> Packet_("/genesis", "GENESIS_RECORD", {})
  @@ a1 :> [Packet_(a, "CERTIFICATE_RECORD", {g1, g2}) EXCEPT !.certs = {newCert}]
  @@ b1 :> Generic(b, {a1, g1})
  @@ c1 :> Generic(c, {a1, b1})
  @@ c0 :> Generic(c, {g1, g2})
  @@ revokeB :> [Packet_(c, "REVOCATION_RECORD", {g1, g2}) EXCEPT !.revoked = {b}]
  @@ a2 :> Generic(a, {revokeB, g1})
  @@ b2 :> Generic(b, {revokeB, a2})
AllNames ==
  g1 :> 0 @@ g2 :> 1 @@ a1 :> 2 @@ a2 :> 3 @@ b1 :> 4 @@ b2 :> 5 @@ c0 :> 6 @@ c1 :> 7
  @@ revokeB :> 8

\* The chain a1, b1, c1, and what rests on the revocation.
MCRecord == {g1, g2, a1, b1, c1, revokeB, a2, b2}
MCData == [r \in MCRecord |-> AllData[r]]
MCNameOrder == [r \in MCRecord |-> AllNames[r]]

\* The chain and the record beside it.
QuietRecord == {g1, g2, a1, b1, c1, c0}
QuietData == [r \in QuietRecord |-> AllData[r]]
QuietNameOrder == [r \in QuietRecord |-> AllNames[r]]
=============================================================================
