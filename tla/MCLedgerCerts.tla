--------------------------- MODULE MCLedgerCerts ---------------------------
(***************************************************************************)
(* Certificates issued and revoked through the ledger.  Peer self is an    *)
(* identity manager under the anchor's name.  i1 issues a certificate to   *)
(* newcomer, j1 is issued at the same time, v1 revokes newcomer's          *)
(* certificate, i2 issues it anew and names i1 only; newcomer signs n1 and *)
(* n2.  self may make the certificate record s1 while it has confirmed no  *)
(* other, or s2 once i1 and j1 are the heads.                              *)
(***************************************************************************)
EXTENDS LedgerProperties, TLC

CONSTANTS anchor, self, b, c, newcomer, key, newKey, newCert,
          g1, g2, i1, j1, b1, c1, n1, v1, b2, c2, i2, n2, b3, c3, s1, s2

MCPeer == {"/genesis", anchor, self, b, c, newcomer}
MCCert == {anchor, self, b, c, newCert}
MCKey  == {key, newKey}
MCCertInfo == [x \in MCCert |->
  IF x = newCert THEN [identity |-> newcomer, key |-> newKey, issuedByAnchor |-> TRUE]
                 ELSE [identity |-> x, key |-> key, issuedByAnchor |-> TRUE]]
MCUnder == [p \in MCPeer |-> IF p = anchor THEN {anchor, self} ELSE {p}]
MCStartingCerts == {anchor, self, b, c}

Packet_(p, type, ptrs, prev, issues, revokes) ==
  [producer |-> p, type |-> type, timestamp |-> 0, pointers |-> ptrs, prevCerts |-> prev,
   certs |-> issues, revoked |-> revokes, key |-> IF p = newcomer THEN newKey ELSE key]
Plain(p, ptrs) == Packet_(p, "GENERIC_RECORD", ptrs, {}, {}, {})

AllData ==
     g1 :> Packet_("/genesis", "GENESIS_RECORD", {}, {}, {}, {})
  @@ g2 :> Packet_("/genesis", "GENESIS_RECORD", {}, {}, {}, {})
  @@ i1 :> Packet_(anchor, "CERTIFICATE_RECORD", {g1, g2}, {}, {newCert}, {})
  @@ j1 :> Packet_(anchor, "CERTIFICATE_RECORD", {g1, g2}, {}, {}, {})
  @@ b1 :> Plain(b, {i1, j1})
  @@ c1 :> Plain(c, {i1, j1})
  @@ n1 :> Plain(newcomer, {b1, c1})
  @@ v1 :> Packet_(anchor, "REVOCATION_RECORD", {b1, c1}, {}, {}, {newCert})
  @@ b2 :> Plain(b, {v1, c1})
  @@ c2 :> Plain(c, {v1, b1})
  @@ i2 :> Packet_(anchor, "CERTIFICATE_RECORD", {b2, c2}, {i1}, {newCert}, {})
  @@ n2 :> Plain(newcomer, {b2, c2})
  @@ b3 :> Plain(b, {i2, c2})
  @@ c3 :> Plain(c, {i2, b3})
  @@ s1 :> Packet_(self, "CERTIFICATE_RECORD", {i1, j1}, {}, {newCert}, {})
  @@ s2 :> Packet_(self, "CERTIFICATE_RECORD", {b1, c1}, {i1, j1}, {}, {})
AllNames ==
     g1 :> 0 @@ g2 :> 1 @@ v1 :> 2 @@ i1 :> 3 @@ j1 :> 4 @@ i2 :> 5 @@ b1 :> 6 @@ b2 :> 7
  @@ b3 :> 8 @@ c1 :> 9 @@ c2 :> 10 @@ c3 :> 11 @@ n1 :> 12 @@ n2 :> 13 @@ s1 :> 14
  @@ s2 :> 15

MCRecord == DOMAIN AllData
MCData == AllData
MCNameOrder == AllNames

Sync(p, certs, tips) == [sender |-> p, key |-> IF p = newcomer THEN newKey ELSE key,
                         certs |-> certs, tips |-> tips]
MCAdvert == {Sync(b, {i1}, {n1}), Sync(c, {i2, j1}, {n2, c3}), Sync(newcomer, {i1}, {c2})}
=============================================================================
