----------------------- MODULE ReplicatedLedgerProofs -----------------------
(***************************************************************************)
(* Why approvals make a record persistent: who approves a record holds it. *)
(***************************************************************************)
EXTENDS ReplicatedLedger, RecordDagProofs, FiniteSetTheorems

\* What a member holds is closed under pointers.
VerifiedClosed ==
  \A p \in Member :
    /\ GenesisRecords \subseteq verified[p]
    /\ \A r \in verified[p] : PointersFromHeader(r) \subseteq verified[p]

\* No member holds a record of another one that its producer does not hold.
ProducersHold ==
  \A p \in Member : \A r \in verified[p] :
    ProducerPrefix(r) \in Member => r \in verified[ProducerPrefix(r)]

\* What a member has confirmed is approved, as far as it knows.
ConfirmedApproved ==
  \A p \in Member : \A r \in confirmed[p] :
    Cardinality(Approvers(verified[p], r)) >= confirmWeight

RLInv == RLTypeOK /\ VerifiedClosed /\ ProducersHold /\ ConfirmedApproved

\* Approvals are counted, and grow with the records they come from.
LEMMA ApproversGrow ==
  ASSUME NEW V \in SUBSET Record, NEW W \in SUBSET Record, V \subseteq W, NEW r
  PROVE  /\ IsFiniteSet(Approvers(W, r))
         /\ Cardinality(Approvers(V, r)) \in Nat
         /\ Cardinality(Approvers(W, r)) \in Nat
         /\ Cardinality(Approvers(V, r)) <= Cardinality(Approvers(W, r))
<1>1. \A x \in Record : ProducerPrefix(x) \in Peer
  BY DataAssumption DEF ProducerPrefix, Packet
<1>2. Approvers(W, r) \subseteq Peer /\ Approvers(V, r) \subseteq Approvers(W, r)
  BY <1>1 DEF Approvers
<1>3. IsFiniteSet(Approvers(W, r))
  BY <1>2, DataAssumption, FS_Subset
<1> QED BY <1>2, <1>3, FS_Subset, FS_CardinalityType

LEMMA InitInv ==
  ASSUME confirmWeight \in Nat, Init
  PROVE  RLInv
<1>1. RLTypeOK
  BY DEF Init, RLTypeOK, GenesisRecords
<1>2. \A g \in GenesisRecords : PointersFromHeader(g) = {}
  BY GenesisAssumption DEF Named
<1>3. VerifiedClosed /\ ProducersHold /\ ConfirmedApproved
  BY <1>2 DEF Init, VerifiedClosed, ProducersHold, ConfirmedApproved
<1> QED BY <1>1, <1>3 DEF RLInv

LEMMA VerifyInv ==
  ASSUME confirmWeight \in Nat, RLInv, NEW p \in Member, NEW r \in Record, Verify(p, r)
  PROVE  RLInv'
<1> USE DEF RLInv, RLTypeOK
<1>1. /\ PointersFromHeader(r) \subseteq verified[p]
      /\ ProducerPrefix(r) \in Member \ {p} => r \in verified[ProducerPrefix(r)]
      /\ verified' = [verified EXCEPT ![p] = verified[p] \cup {r}]
  BY DEF Verify
<1>2. PICK C \in SUBSET {x \in verified'[p] :
                           Cardinality(Approvers(verified'[p], x)) >= confirmWeight} :
        confirmed' = [confirmed EXCEPT ![p] = confirmed[p] \cup C]
  BY DEF Verify
<1>3. /\ \A q \in Member : verified'[q] = IF q = p THEN verified[p] \cup {r} ELSE verified[q]
      /\ \A q \in Member : confirmed'[q] = IF q = p THEN confirmed[p] \cup C ELSE confirmed[q]
  BY <1>1, <1>2
<1>4. verified' \in [Member -> SUBSET Record]
  BY <1>1
<1>5. RLTypeOK'
  BY <1>2, <1>4
<1>6. VerifiedClosed'
  BY <1>1, <1>3 DEF VerifiedClosed
<1>7. ProducersHold'
  BY <1>1, <1>3 DEF ProducersHold
<1>8. ASSUME NEW q \in Member, NEW x \in confirmed'[q]
      PROVE  Cardinality(Approvers(verified'[q], x)) >= confirmWeight
  <2>1. CASE x \in confirmed[q]
    <3>1. Cardinality(Approvers(verified[q], x)) >= confirmWeight
      BY <2>1 DEF ConfirmedApproved
    <3>2. /\ verified[q] \in SUBSET Record /\ verified'[q] \in SUBSET Record
          /\ verified[q] \subseteq verified'[q]
      BY <1>3, <1>4
    <3>3. /\ Cardinality(Approvers(verified[q], x)) \in Nat
          /\ Cardinality(Approvers(verified'[q], x)) \in Nat
          /\ Cardinality(Approvers(verified[q], x)) <= Cardinality(Approvers(verified'[q], x))
      BY <3>2, ApproversGrow
    <3> QED BY <3>1, <3>3
  <2>2. CASE q = p /\ x \in C
    BY <1>2, <2>2
  <2> QED BY <1>3, <1>8, <2>1, <2>2
<1>9. ConfirmedApproved'
  BY <1>8 DEF ConfirmedApproved
<1> QED BY <1>5, <1>6, <1>7, <1>9

LEMMA StepInv ==
  ASSUME confirmWeight \in Nat, RLInv, [Next]_vars
  PROVE  RLInv'
<1>1. CASE UNCHANGED vars
  BY <1>1 DEF vars, RLInv, RLTypeOK, VerifiedClosed, ProducersHold, ConfirmedApproved
<1>2. CASE Next
  BY <1>2, VerifyInv DEF Next
<1> QED BY <1>1, <1>2

\* Who approves a record has verified it: it verified its own record, which
\* descends from this one, and all that record descends from.
LEMMA ApproversVerified ==
  ASSUME RLInv, \A x \in Record \ GenesisRecords : ProducerPrefix(x) \in Member,
         NEW p \in Member, NEW r
  PROVE  Approvers(verified[p], r) \subseteq Verifiers(r)
<1> SUFFICES ASSUME NEW a \in verified[p], r \in AncestorsOf[a]
             PROVE  ProducerPrefix(a) \in Member /\ r \in verified[ProducerPrefix(a)]
  BY DEF Approvers, Verifiers
<1>1. a \in Record
  BY DEF RLInv, RLTypeOK
<1>2. a \notin GenesisRecords
  <2>1. \A g \in GenesisRecords : g \in Record /\ PointersFromHeader(g) = {}
    BY GenesisAssumption DEF Named, GenesisRecords
  <2>2. \A g \in GenesisRecords : AncestorsOf[g] = {}
    BY <2>1, AncestorsUnfold
  <2> QED BY <2>2
<1>3. ProducerPrefix(a) \in Member
  BY <1>1, <1>2
<1> DEFINE V == verified[ProducerPrefix(a)]
<1>4. a \in V
  BY <1>3 DEF RLInv, ProducersHold
<1>5. V \in SUBSET Record
  BY <1>3 DEF RLInv, RLTypeOK
<1>6. \A y \in V : PointersFromHeader(y) \subseteq V
  BY <1>3 DEF RLInv, VerifiedClosed
<1> HIDE DEF V
<1>7. AncestorsOf[a] \subseteq V
  BY <1>4, <1>5, <1>6, AncestorsWithin
<1> QED BY <1>3, <1>7 DEF V

\* Who approves what a member has confirmed has verified it.
LEMMA InvPersistent ==
  ASSUME confirmWeight \in Nat, IsFiniteSet(Member), RLInv
  PROVE  Persistent
<1> SUFFICES ASSUME \A x \in Record \ GenesisRecords : ProducerPrefix(x) \in Member,
                    NEW p \in Member, NEW r \in confirmed[p]
             PROVE  Cardinality(Verifiers(r)) >= confirmWeight
  BY DEF Persistent
<1>1. Approvers(verified[p], r) \subseteq Verifiers(r)
  BY ApproversVerified
<1>2. IsFiniteSet(Verifiers(r))
  <2>1. Verifiers(r) \subseteq Member
    BY DEF Verifiers
  <2> QED BY <2>1, FS_Subset
<1>3. /\ Cardinality(Approvers(verified[p], r)) <= Cardinality(Verifiers(r))
      /\ Cardinality(Approvers(verified[p], r)) \in Nat
      /\ Cardinality(Verifiers(r)) \in Nat
  BY <1>1, <1>2, FS_Subset, FS_CardinalityType
<1>4. Cardinality(Approvers(verified[p], r)) >= confirmWeight
  BY DEF RLInv, ConfirmedApproved
<1> QED BY <1>3, <1>4

\* The state keeps its types, for any number of members and any weight.
THEOREM ReplicatedTypeCorrect == ASSUME confirmWeight \in Nat PROVE Spec => []RLTypeOK
<1>1. Init => RLInv
  BY InitInv
<1>2. RLInv /\ [Next]_vars => RLInv'
  BY StepInv
<1>3. RLInv => RLTypeOK
  BY DEF RLInv
<1> QED BY <1>1, <1>2, <1>3, PTL DEF Spec

\* What one member has confirmed, at least confirmWeight others than its
\* producer have verified (the ground of "Persistence", doc/requirement.md:17).
THEOREM PersistentAlways ==
  ASSUME confirmWeight \in Nat, IsFiniteSet(Member)
  PROVE  Spec => []Persistent
<1>1. Init => RLInv
  BY InitInv
<1>2. RLInv /\ [Next]_vars => RLInv'
  BY StepInv
<1>3. RLInv => Persistent
  BY InvPersistent
<1> QED BY <1>1, <1>2, <1>3, PTL DEF Spec
=============================================================================
