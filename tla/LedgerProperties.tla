-------------------------- MODULE LedgerProperties --------------------------
(***************************************************************************)
(* What one peer promises, whatever the network does.                      *)
(***************************************************************************)
EXTENDS Ledger

TailRecordsOK ==
  /\ DOMAIN tailRecords \subseteq Record
  /\ tailRecords \in [DOMAIN tailRecords -> TailingRecordState]

TypeOK ==
  /\ Self \in Member
  /\ TailRecordsOK
  /\ backend \in SUBSET Record
  /\ syncStack \in Seq([record : Record, addedTime : Nat])
  /\ scan \in [at : Nat, stackSize : Nat]
  /\ pending \in SUBSET Record
  /\ replySync \in BOOLEAN
  /\ lastCertRecords \in SUBSET Record
  /\ peerCertificates \in SUBSET Cert
  /\ revokedCertificates \in SUBSET Cert
  /\ now \in Nat /\ losses \in Nat /\ restarts \in Nat
  /\ created \in SUBSET Record
  /\ admitted \in SUBSET Record
  /\ timedOut \in SUBSET Record
  /\ fault \in BOOLEAN

-----------------------------------------------------------------------------
(***************************************************************************)
(* Safety of the DAG.                                                      *)
(***************************************************************************)

\* *getRecord(...) never dereferences nullopt in addToTailingRecord
\* (ledger-impl.cpp:589, 613, 626): no unverified record is traversed.
NoNullDereference == ~ fault

\* The approvals of r: the producers of endorsed records that point to r,
\* directly or not; r's own producer does not count (doc/spec.md:98-100).
Approvals(r) ==
  {ProducerPrefix(a) : a \in {x \in admitted : r \in AncestorsOf[x]}} \ {ProducerPrefix(r)}

Undisturbed == restarts = 0 /\ timedOut = {}

\* The traversal prunes at records of the same producer, at records already
\* counted and at removed ones; the weight it keeps is still the number of
\* peers that approved the record directly or indirectly (doc/spec.md:100).
WeightIsApprovals ==
  Undisturbed => \A r \in DOMAIN tailRecords : tailRecords[r].refSet = Approvals(r)

\* A record is in the database just when k peers have approved it, k being
\* confirmWeight (doc/spec.md:101): the code stores a record only when the
\* weight is exactly k, and must not step over it.
ConfirmedAtK ==
  Undisturbed =>
    backend = {r \in admitted : Cardinality(Approvals(r)) >= confirmWeight}

\* Whatever is lost, timed out or restarted, a record in the database was
\* approved by k peers other than its producer.
ConfirmedByK == \A r \in backend : Cardinality(Approvals(r)) >= confirmWeight

\* The database is closed under pointers: the history of a confirmed record
\* is confirmed, so a peer can always show what a record rests on.
AncestorsConfirmed == \A r \in backend : PointersFromHeader(r) \subseteq backend

\* A rejected record stays a leaf: nothing is built on it, it carries no
\* weight and it is not stored ("Preceding record Validity", doc/spec.md:177).
RejectedIsolated ==
  \A r \in DOMAIN tailRecords : ~ tailRecords[r].parentEndorseVerified =>
    /\ tailRecords[r].refSet = {}
    /\ r \notin backend
    /\ \A c \in DOMAIN tailRecords \cup backend : r \notin PointersFromHeader(c)

\* Weight does not decrease along the pointers: an approval of an endorsed
\* record is one of its parents too.
WeightMonotone ==
  \A c \in DOMAIN tailRecords : \A p \in PointersFromHeader(c) \cap DOMAIN tailRecords :
    tailRecords[c].recordEndorseVerified =>
      (tailRecords[c].refSet \ {ProducerPrefix(p)}) \cup {ProducerPrefix(c)}
        \subseteq tailRecords[p].refSet

\* As long as a record is tailing, the verdict on it is final, no approval is
\* taken back, and no step adds more than one: the weight does not step over
\* confirmWeight, at which alone a record is stored (ledger-impl.cpp:607).
VerdictsAreFinal ==
  [][restarts' = restarts =>
       \A r \in DOMAIN tailRecords \cap DOMAIN tailRecords' :
         /\ tailRecords'[r].parentEndorseVerified = tailRecords[r].parentEndorseVerified
         /\ tailRecords'[r].recordEndorseVerified = tailRecords[r].recordEndorseVerified
         /\ tailRecords[r].refSet \subseteq tailRecords'[r].refSet
         /\ Weight(tailRecords', r) <= Weight(tailRecords, r) + 1]_vars

\* Removal of deep and of timed-out records leaves no tailing record whose
\* parents this peer cannot produce.
NoOrphans ==
  \A r \in DOMAIN tailRecords :
    PointersFromHeader(r) \subseteq DOMAIN tailRecords \cup backend

\* A confirmed record leaves the tailing records because it is deep enough,
\* never because a record it descends from timed out.  (After a restart a
\* genesis record is tailing again without weight, and may time out.)
ConfirmedLeaveDeep ==
  [][restarts' = 0 =>
       \A r \in (DOMAIN tailRecords \cap backend) \ DOMAIN tailRecords' :
          Cardinality(Approvals(r)') >= removeWeight]_vars

(***************************************************************************)
(* One peer alone, the only Member, implements the replicated ledger,      *)
(* whatever the others send (ReplicatedLedger says what it promises): what *)
(* it admits it admits after what the record points to, what it stores is  *)
(* approved and stored with all it rests on, and neither is ever taken     *)
(* back, by a timeout or a restart.                                        *)
(***************************************************************************)
Abstract == INSTANCE ReplicatedLedger
  WITH verified  <- [p \in Member |-> admitted],
       confirmed <- [p \in Member |-> backend]

ImplementsLedger == Abstract!Spec

-----------------------------------------------------------------------------
(***************************************************************************)
(* Safety of synchronisation.                                              *)
(***************************************************************************)

\* Between two callbacks no record waits in the sync stack that could be
\* added: the loop of onFetchedRecord, which stops when a pass removes
\* nothing, has found all of them in whatever order they arrived.
StackBlocked ==
  Idle => \A r \in Stacked : ~ Ready(tailRecords, backend, r)

\* What this peer advertises is enough to find everything it holds: every
\* record it has verified or stored is an advertised tip or a tip's ancestor.
TipsCoverLedger ==
  Undisturbed =>
    \A r \in {x \in DOMAIN tailRecords : tailRecords[x].parentEndorseVerified} \cup backend :
      \E tip \in SyncTips(tailRecords) : r \in AncestorsOf[tip] \cup {tip}

\* Every confirmed certificate record is found by following the chains from
\* the heads this peer advertises (m_lastCertRecords).
ChainsCoverCertificates ==
  restarts = 0 =>
    {c \in backend : Type(c) = "CERTIFICATE_RECORD"} \subseteq UNION {ChainOf[c] : c \in lastCertRecords}

-----------------------------------------------------------------------------
(***************************************************************************)
(* Safety of endorsement.                                                  *)
(***************************************************************************)

\* The certificates of the configuration and of the confirmed records B, but
\* for those that B revokes.
LiveCertificates(B) ==
  (StartingCerts \cup (UNION {Certificates(q) : q \in B})) \ (UNION {RevokedCertificates(q) : q \in B})

\* A record of another peer is endorsed only if it is signed with a
\* certificate of the configuration or of a confirmed record, and no confirmed
\* record has revoked it (doc/spec.md:167, 175).
EndorsedByLiveCertificate ==
  [][restarts = 0 =>
       \A r \in {x \in admitted' \ admitted : ProducerPrefix(x) # Self} :
         SignedUnder(LiveCertificates(backend), ProducerPrefix(r), Data[r].key)]_vars

\* What a confirmed record changes in the certificate storage is in effect
\* ("These changes will be effective after the record is confirmed",
\* doc/spec.md:73): what it revokes is revoked, what it issues is known.
ConfirmedChangesEffective ==
  \A r \in backend :
    /\ RevokedCertificates(r) \subseteq revokedCertificates
    /\ Certificates(r) \subseteq peerCertificates \cup revokedCertificates

-----------------------------------------------------------------------------
(***************************************************************************)
(* Liveness.                                                               *)
(***************************************************************************)

\* The loop over the sync stack ends (ledger-impl.cpp:511-526), and is no
\* longer than the square of the stack: a pass that removes nothing is the last
\* one, and each step removes a record, goes on to the next or starts a pass
\* after one that removed some.
StepsLeft ==
  LET n == Len(syncStack)
  IN  IF Idle THEN 0
      ELSE n * n + (IF scan.stackSize # n THEN n + 1 ELSE 0) + (n + 2 - scan.at)

ScanTerminates ==
  [][Scan => StepsLeft' \in Nat /\ StepsLeft \in Nat /\ StepsLeft' < StepsLeft]_vars

\* "All records will be eventally replicated to all peers if no new records
\* are added" (doc/requirement.md:25): what the others keep advertising is,
\* from some time on, in this peer's ledger.
CatchesUp ==
  \A m \in Advert : <>[](\A p \in m.tips : HasRecord(tailRecords, backend, p))

-----------------------------------------------------------------------------
(***************************************************************************)
(* The inductive invariant.  TypeOK, TailInv of the tailing and the stored *)
(* records, then facts about the records still to be added and about the   *)
(* approvals.                                                              *)
(***************************************************************************)

\* Until the first restart a stored record that is still tailing is heavy.
StoredHeavy ==
  restarts = 0 =>
    \A r \in DOMAIN tailRecords \cap backend : Weight(tailRecords, r) >= confirmWeight

StackInv ==
  /\ \A i \in DOMAIN syncStack :
       /\ ~ Seen(syncStack[i].record)
       /\ Interlocked(syncStack[i].record)
  /\ \A i, j \in DOMAIN syncStack : syncStack[i].record = syncStack[j].record => i = j

OwnAreCreated ==
  \A r \in DOMAIN tailRecords \cup backend \cup Stacked : ProducerPrefix(r) = Self => r \in created

ApprovalInv ==
  /\ \A r \in DOMAIN tailRecords : tailRecords[r].refSet \subseteq Approvals(r)
  /\ ConfirmedByK

LedgerInv ==
  /\ TypeOK
  /\ TailInv(tailRecords, backend)
  /\ StoredHeavy
  /\ StackInv
  /\ OwnAreCreated
  /\ ApprovalInv
  /\ NoNullDereference

\* What is good to endorse and what is stored was admitted.
AdmittedInv ==
  /\ GenesisRecords \subseteq admitted
  /\ \A r \in DOMAIN tailRecords : tailRecords[r].recordEndorseVerified => r \in admitted
  /\ backend \subseteq admitted

(***************************************************************************)
(* Weights are exact.  ApprovalInv says that what counts as an approval is *)
(* one; that none is missed needs to know where the traversal stops.  At a *)
(* record that was removed it may: it was heavier than any record that is  *)
(* kept (LightTails), its parents were at least as heavy as it was, so     *)
(* they are gone too, and with them all it descends from (the last part of *)
(* ExactInv).                                                              *)
(***************************************************************************)
LightTails == \A r \in DOMAIN tailRecords : Weight(tailRecords, r) < removeWeight

AdmittedClosed == \A r \in admitted : PointersFromHeader(r) \subseteq admitted

ExactInv ==
  Undisturbed =>
    /\ admitted \subseteq DOMAIN tailRecords \cup backend
    /\ \A r \in DOMAIN tailRecords :
         /\ r \in admitted => tailRecords[r].recordEndorseVerified
         /\ Approvals(r) \subseteq tailRecords[r].refSet
    /\ \A c \in admitted \ DOMAIN tailRecords :
         PointersFromHeader(c) \cap DOMAIN tailRecords = {}

CountingInv == AdmittedInv /\ LightTails /\ AdmittedClosed /\ ExactInv
=============================================================================
