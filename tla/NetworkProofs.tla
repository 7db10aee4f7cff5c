---------------------------- MODULE NetworkProofs ----------------------------
(***************************************************************************)
(* Peers that are each a Ledger implement one replicated ledger together:  *)
(* for any set of peers, any DAG and any weights.                          *)
(*                                                                         *)
(* Self is in its turn and the others wait, so the invariant of one peer   *)
(* is needed twice: about the variables of Ledger, where the step that     *)
(* keeps it is proved, and about a state, PeerInv.                         *)
(***************************************************************************)
EXTENDS Network, LedgerProofs

LocalState ==
  [tailRecords : UNION {[D -> TailingRecordState] : D \in SUBSET Record},
   backend : SUBSET Record, syncStack : Seq(StackEntry),
   scan : [at : Nat, stackSize : Nat], pending : SUBSET Record, replySync : BOOLEAN,
   lastCertRecords : SUBSET Record, peerCertificates : SUBSET Cert,
   revokedCertificates : SUBSET Cert, now : Nat, losses : Nat, restarts : Nat,
   created : SUBSET Record, admitted : SUBSET Record, timedOut : SUBSET Record,
   fault : BOOLEAN]

ApprovalsAmong(V, r) ==
  {ProducerPrefix(a) : a \in {x \in V : r \in AncestorsOf[x]}} \ {ProducerPrefix(r)}

StackedIn(s)    == {s.syncStack[i].record : i \in DOMAIN s.syncStack}
\* LedgerInv of the peer p in the state s, but for the types.
PeerLedgerInv(p, s) ==
  /\ TailInv(s.tailRecords, s.backend)
  /\ s.restarts = 0 =>
       \A r \in DOMAIN s.tailRecords \cap s.backend : Weight(s.tailRecords, r) >= confirmWeight
  /\ \A i \in DOMAIN s.syncStack :
       /\ ~ SeenRecord(s.tailRecords, s.backend, s.syncStack[i].record)
       /\ Interlocked(s.syncStack[i].record)
  /\ \A i, j \in DOMAIN s.syncStack : s.syncStack[i].record = s.syncStack[j].record => i = j
  /\ \A r \in DOMAIN s.tailRecords \cup s.backend \cup StackedIn(s) :
       ProducerPrefix(r) = p => r \in s.created
  /\ \A r \in DOMAIN s.tailRecords :
       s.tailRecords[r].refSet \subseteq ApprovalsAmong(s.admitted, r)
  /\ \A r \in s.backend : Cardinality(ApprovalsAmong(s.admitted, r)) >= confirmWeight
  /\ ~ s.fault

\* CountingInv in the state s.
PeerAdmittedInv(s) ==
  /\ GenesisRecords \subseteq s.admitted
  /\ \A r \in DOMAIN s.tailRecords : s.tailRecords[r].recordEndorseVerified => r \in s.admitted
  /\ s.backend \subseteq s.admitted

PeerExactInv(s) ==
  UndisturbedIn(s) =>
    /\ s.admitted \subseteq DOMAIN s.tailRecords \cup s.backend
    /\ \A r \in DOMAIN s.tailRecords :
         /\ r \in s.admitted => s.tailRecords[r].recordEndorseVerified
         /\ ApprovalsAmong(s.admitted, r) \subseteq s.tailRecords[r].refSet
    /\ \A c \in s.admitted \ DOMAIN s.tailRecords :
         PointersFromHeader(c) \cap DOMAIN s.tailRecords = {}

PeerCountingInv(s) ==
  /\ PeerAdmittedInv(s)
  /\ \A r \in DOMAIN s.tailRecords : Weight(s.tailRecords, r) < removeWeight
  /\ \A r \in s.admitted : PointersFromHeader(r) \subseteq s.admitted
  /\ PeerExactInv(s)

\* What a peer makes it admits, and it advertises stored certificate records.
OwnInv == created \subseteq admitted /\ lastCertRecords \subseteq backend

\* The tips cover the ledger (TipsCoverLedger in the state s).
PeerTipsInv(s) ==
  UndisturbedIn(s) =>
    \A r \in Held(s) : \E tip \in SyncTips(s.tailRecords) : r \in AncestorsOf[tip] \cup {tip}

\* CertInv in the state s.
PeerCertInv(s) ==
  s.restarts = 0 =>
    /\ StartingCerts \subseteq s.peerCertificates
    /\ s.peerCertificates \subseteq StartingCerts \cup UNION {Certificates(q) : q \in s.backend}
    /\ s.revokedCertificates \subseteq UNION {RevokedCertificates(q) : q \in s.backend}
    /\ \A r \in s.backend :
         /\ RevokedCertificates(r) \subseteq s.revokedCertificates
         /\ Certificates(r) \subseteq s.peerCertificates \cup s.revokedCertificates

PeerInv(p, s) ==
  /\ s \in LocalState
  /\ PeerLedgerInv(p, s)
  /\ PeerCountingInv(s)
  /\ s.created \subseteq s.admitted /\ s.lastCertRecords \subseteq s.backend
  /\ PeerTipsInv(s)
  /\ PeerCertInv(s)

LEMMA LocalFields ==
  /\ Local.tailRecords = tailRecords /\ Local.backend = backend
  /\ Local.syncStack = syncStack /\ Local.scan = scan /\ Local.pending = pending
  /\ Local.replySync = replySync /\ Local.lastCertRecords = lastCertRecords
  /\ Local.peerCertificates = peerCertificates
  /\ Local.revokedCertificates = revokedCertificates
  /\ Local.now = now /\ Local.losses = losses /\ Local.restarts = restarts
  /\ Local.created = created /\ Local.admitted = admitted
  /\ Local.timedOut = timedOut /\ Local.fault = fault
  BY DEF Local

\* The invariant of the peer that is in its turn, in both forms.
LEMMA LocalTypes == TypeOK <=> Self \in Member /\ Local \in LocalState
<1>1. tailRecords \in UNION {[D -> TailingRecordState] : D \in SUBSET Record}
        <=> TailRecordsOK
  BY DEF TailRecordsOK
<1>2. TypeOK => Local \in LocalState
  <2> HIDE DEF TailingRecordState
  <2> SUFFICES ASSUME TypeOK PROVE Local \in LocalState
    OBVIOUS
  <2>1. tailRecords \in UNION {[D -> TailingRecordState] : D \in SUBSET Record}
    BY <1>1 DEF TypeOK
  <2> DEFINE Tables == UNION {[D -> TailingRecordState] : D \in SUBSET Record}
             Stacks == Seq(StackEntry)
  <2>2. tailRecords \in Tables /\ syncStack \in Stacks
    BY <2>1 DEF TypeOK, StackEntry
  <2> HIDE DEF Tables, Stacks
  <2>3. Local \in [tailRecords : Tables,
   backend : SUBSET Record, syncStack : Stacks,
   scan : [at : Nat, stackSize : Nat], pending : SUBSET Record, replySync : BOOLEAN,
   lastCertRecords : SUBSET Record, peerCertificates : SUBSET Cert,
   revokedCertificates : SUBSET Cert, now : Nat, losses : Nat, restarts : Nat,
   created : SUBSET Record, admitted : SUBSET Record, timedOut : SUBSET Record,
   fault : BOOLEAN]
    BY <2>2 DEF TypeOK, Local
  <2> QED BY <2>3 DEF LocalState, Tables, Stacks
<1>3. Local \in LocalState /\ Self \in Member => TypeOK
  BY <1>1, LocalFields DEF TypeOK, LocalState, StackEntry
<1> QED BY <1>2, <1>3 DEF TypeOK

LEMMA LocalLedgerInv ==
  Self \in Member =>
    (Local \in LocalState /\ PeerLedgerInv(Self, Local) <=> LedgerInv)
<1> SUFFICES ASSUME Self \in Member
             PROVE  Local \in LocalState /\ PeerLedgerInv(Self, Local) <=> LedgerInv
  OBVIOUS
<1>1. \A r : ApprovalsAmong(admitted, r) = Approvals(r)
  BY DEF ApprovalsAmong, Approvals
<1>2. StackedIn(Local) = Stacked
  BY LocalFields DEF StackedIn, Stacked
<1>3. PeerLedgerInv(Self, Local) <=>
        /\ TailInv(tailRecords, backend)
        /\ StoredHeavy
        /\ StackInv
        /\ OwnAreCreated
        /\ ApprovalInv
        /\ NoNullDereference
  BY <1>1, <1>2, LocalFields DEF PeerLedgerInv, StoredHeavy, StackInv, OwnAreCreated,
     ApprovalInv, ConfirmedByK, NoNullDereference, Seen
<1> QED BY <1>3, LocalTypes DEF LedgerInv

LEMMA LocalCountingInv == PeerCountingInv(Local) <=> CountingInv
<1>1. \A r : ApprovalsAmong(admitted, r) = Approvals(r)
  BY DEF ApprovalsAmong, Approvals
<1>2. UndisturbedIn(Local) <=> Undisturbed
  BY LocalFields DEF UndisturbedIn, Undisturbed
<1>3. PeerAdmittedInv(Local) <=> AdmittedInv
  BY LocalFields DEF PeerAdmittedInv, AdmittedInv
<1>4. PeerExactInv(Local) <=> ExactInv
  BY <1>1, <1>2, LocalFields DEF PeerExactInv, ExactInv
<1> QED BY <1>3, <1>4, LocalFields DEF PeerCountingInv, CountingInv, LightTails, AdmittedClosed

LEMMA LocalTips == PeerTipsInv(Local) <=> TipsCoverLedger
<1>1. UndisturbedIn(Local) <=> Undisturbed
  BY LocalFields DEF UndisturbedIn, Undisturbed
<1>2. Held(Local) = {x \in DOMAIN tailRecords : tailRecords[x].parentEndorseVerified} \cup backend
  BY LocalFields DEF Held
<1> QED BY <1>1, <1>2, LocalFields DEF PeerTipsInv, TipsCoverLedger

LEMMA LocalInv ==
  Self \in Member =>
    (PeerInv(Self, Local)
       <=> LedgerInv /\ CountingInv /\ OwnInv /\ TipsCoverLedger /\ CertInv)
<1>1. PeerCertInv(Local) <=> CertInv
  BY LocalFields DEF PeerCertInv, CertInv, ConfirmedChangesEffective
<1> QED BY <1>1, LocalLedgerInv, LocalCountingInv, LocalTips, LocalFields DEF PeerInv, OwnInv

-----------------------------------------------------------------------------
(***************************************************************************)
(* A callback of one peer.                                                 *)
(***************************************************************************)

\* What is admitted is found from the tips: TipsCoverLedgerAlways shows it of
\* the states the invariants describe.
LEMMA StepOwn ==
  ASSUME LedgerInv, CountingInv, OwnInv, [AnyNext]_vars
  PROVE  OwnInv' /\ Self' = Self /\ created \subseteq created'
<1> USE DEF OwnInv
<1>1. CASE UNCHANGED <<Self, created, admitted, lastCertRecords, backend>>
  BY <1>1
<1>2. ASSUME NEW r, NEW e, AddStep(r, e), (created' = created \cup {r} /\ e) \/ created' = created
      PROVE  OwnInv'
  <2>1. PICK R \in SUBSET Record : OnRecordsConfirmed(R, {})
    BY <1>2, AddConfirms
  <2>2. backend' = backend \cup R /\ lastCertRecords' \subseteq lastCertRecords \cup R
    BY <2>1 DEF OnRecordsConfirmed, LastCertsAfter
  <2>3. admitted' = IF e THEN admitted \cup {r} ELSE admitted
    BY <1>2, AddAdmitted DEF CountingInv
  <2> QED BY <1>2, <2>2, <2>3
<1>3. ASSUME NEW r \in Record, CreateRecord(r)
      PROVE  OwnInv' /\ Self' = Self /\ created \subseteq created'
  <2>1. created' = created \cup {r} /\ Self' = Self
    BY <1>3 DEF CreateRecord
  <2> QED BY <1>2, <1>3, <2>1, CreateRecordAdds
<1>4. CASE ScanAdd
  <2>1. created' = created /\ Self' = Self
    BY <1>4 DEF ScanAdd
  <2> QED BY <1>2, <1>4, <2>1, ScanAddAdds
<1>5. CASE Restart
  BY <1>5 DEF Restart, Reopen
<1> QED BY <1>1, <1>3, <1>4, <1>5 DEF AnyNext, Scan, OnLedgerSyncRequest, SendReplySync,
           OnFetchedRecord, ScanExpire, ScanKeep, ScanEnd, LoseInterest, Tick, vars,
           ledgerVars, countVars, fetchVars

\* Only a record that arrives is stacked, and it is well formed.
LEMMA FetchStacks ==
  ASSUME LedgerInv, NEW r \in pending, OnFetchedRecord(r)
  PROVE  Stacked' \subseteq Stacked \/ (Stacked' \subseteq Stacked \cup {r} /\ VerifyRecordFormat(r))
<1>1. TypeOK /\ StackInv /\ r \in Record
  BY DEF LedgerInv, TypeOK
<1>2. CASE StackRecord(r)
  <2>1. /\ ~ Seen(r) /\ r \notin Stacked
        /\ CheckSyntaxValidityOfRecord(r)
        /\ syncStack' = Append(syncStack, [record |-> r, addedTime |-> now])
    BY <1>2 DEF StackRecord
  <2>2. Interlocked(r) /\ UNCHANGED <<tailRecords, backend>>
    BY <2>1 DEF CheckSyntaxValidityOfRecord, Interlocked, OnFetchedRecord, ledgerVars
  <2>3. Stacked' = Stacked \cup {r}
    BY <1>1, <2>1, <2>2, StackGrows
  <2> QED BY <2>1, <2>3 DEF CheckSyntaxValidityOfRecord
<1>3. CASE DropRecord(r)
  BY <1>3 DEF DropRecord, Stacked
<1> QED BY <1>2, <1>3 DEF OnFetchedRecord

LEMMA OthersStackNothing ==
  ASSUME LedgerInv,
         \/ \E r \in Record : CreateRecord(r)
         \/ \E m \in SyncMessage : OnLedgerSyncRequest(m)
         \/ SendReplySync
         \/ Scan
         \/ Restart
         \/ UNCHANGED vars
  PROVE  Stacked' \subseteq Stacked
<1>1. CASE syncStack' = syncStack
  BY <1>1 DEF Stacked
<1>2. ASSUME AtRecord, syncStack' = RemoveAt(syncStack, scan.at)
      PROVE  Stacked' \subseteq Stacked
  BY <1>2, StackedRemoved DEF LedgerInv, AtRecord
<1>3. CASE syncStack' = <<>>
  BY <1>3, EmptySeq DEF Stacked
<1> QED BY <1>1, <1>2, <1>3 DEF CreateRecord, OnLedgerSyncRequest, SendReplySync, Scan,
           ScanAdd, ScanExpire, ScanKeep, ScanEnd, Restart, Reopen, vars, fetchVars

-----------------------------------------------------------------------------
(***************************************************************************)
(* The invariant of the network.  A record is vouched for when the members *)
(* have made all their records it rests on.                                *)
(***************************************************************************)
Vouched(r) ==
  \A a \in RestsOn[r] : \A q \in Member \cap {ProducerPrefix(a)} : a \in StateOf(q).created

NetInv ==
  /\ Self \in Member
  /\ waiting \in [Member \ {Self} -> LocalState]
  /\ \A p \in Member : PeerInv(p, StateOf(p))
  /\ \A p \in Member : \A r \in StateOf(p).admitted \cup StackedIn(StateOf(p)) : Vouched(r)
  /\ \A r \in cached : Vouched(r)
  /\ sent \subseteq SyncMessage
  /\ \A r \in Circulating : \E p \in Member : r \in StateOf(p).admitted

LEMMA LocalInvNext ==
  (Self \in Member =>
     (PeerInv(Self, Local)
        <=> LedgerInv /\ CountingInv /\ OwnInv /\ TipsCoverLedger /\ CertInv))'
  BY LocalInv, PTL

LEMMA SelfInv ==
  ASSUME NetInv
  PROVE  /\ LedgerInv /\ CountingInv /\ OwnInv /\ CertInv
         /\ StateOf(Self) = Local
         /\ \A r \in admitted \cup Stacked : Vouched(r)
<1>1. StateOf(Self) = Local
  BY DEF StateOf
<1>2. Self \in Member /\ PeerInv(Self, Local)
  BY <1>1 DEF NetInv
<1>3. StackedIn(Local) = Stacked
  BY LocalFields DEF StackedIn, Stacked
<1>4. \A r \in Local.admitted \cup StackedIn(Local) : Vouched(r)
  BY <1>1, <1>2 DEF NetInv
<1> QED BY <1>1, <1>2, <1>3, <1>4, LocalInv, LocalFields

\* What a peer has, it admitted.
LEMMA PeerHas ==
  ASSUME NEW p, NEW s, PeerInv(p, s), NEW r, HasRecord(s.tailRecords, s.backend, r)
  PROVE  r \in s.admitted
<1>1. \A x \in DOMAIN s.tailRecords : RecordInv(s.tailRecords, s.backend, x)
  BY LinkInvParts DEF PeerInv, PeerLedgerInv, TailInv
<1> QED BY <1>1 DEF HasRecord, RecordInv, PeerInv, PeerCountingInv, PeerAdmittedInv

\* So what it answers with is vouched for.
LEMMA AnsweredVouched ==
  ASSUME NetInv, NEW r, Answered(r)
  PROVE  Vouched(r)
<1>1. CASE r \in cached
  BY <1>1 DEF NetInv
<1>2. ASSUME NEW q \in Member, HasRecord(StateOf(q).tailRecords, StateOf(q).backend, r)
      PROVE  Vouched(r)
  <2>1. PeerInv(q, StateOf(q))
    BY DEF NetInv
  <2>2. r \in StateOf(q).admitted
    BY <1>2, <2>1, PeerHas
  <2> QED BY <2>2 DEF NetInv
<1> QED BY <1>1, <1>2 DEF Answered

\* A peer's callback leaves the others alone, and all have made no less.
LEMMA CallbackStates ==
  ASSUME NetInv, [AnyNext]_vars, UNCHANGED waiting
  PROVE  /\ Self' = Self
         /\ \A p \in Member : StateOf(p)' = IF p = Self THEN Local' ELSE StateOf(p)
         /\ \A p \in Member : PeerInv(p, StateOf(p)')
         /\ \A p \in Member : StateOf(p).created \subseteq StateOf(p)'.created
         /\ \A p \in Member : StateOf(p).admitted \subseteq StateOf(p)'.admitted
<1>1. LedgerInv /\ CountingInv /\ OwnInv /\ CertInv /\ StateOf(Self) = Local
  BY SelfInv
<1>2. /\ LedgerInv' /\ CountingInv' /\ OwnInv' /\ CertInv'
      /\ Self' = Self /\ created \subseteq created'
  BY <1>1, StepInv, StepCounting, StepOwn, StepCertificates
<1>3. TipsCoverLedger'
  <2>1. (LedgerInv /\ CountingInv => TipsCoverLedger)'
    BY TipsCover, PTL
  <2> QED BY <1>2, <2>1
<1>4. Self \in Member /\ Self' \in Member
  BY <1>2 DEF NetInv
<1>5. PeerInv(Self', Local')
  BY <1>2, <1>3, <1>4, LocalInvNext
<1>6. \A p \in Member : StateOf(p)' = IF p = Self THEN Local' ELSE StateOf(p)
  BY <1>2 DEF StateOf
<1>7. \A p \in Member : PeerInv(p, StateOf(p)')
  BY <1>2, <1>5, <1>6 DEF NetInv
<1>8. admitted \subseteq admitted'
  BY <1>1, StepAdmits DEF CountingInv, Admits
<1>9. /\ Local.created = created /\ Local.admitted = admitted
      /\ Local'.created = created' /\ Local'.admitted = admitted'
  BY DEF Local
<1> QED BY <1>1, <1>2, <1>6, <1>7, <1>8, <1>9

LEMMA VouchedStays ==
  ASSUME NetInv, [AnyNext]_vars, UNCHANGED waiting, NEW r, Vouched(r)
  PROVE  Vouched(r)'
  BY CallbackStates DEF Vouched

\* A peer makes a record on top of what it admitted.
LEMMA CreatedVouched ==
  ASSUME NetInv, UNCHANGED waiting, NEW r \in Record, CreateRecord(r)
  PROVE  Vouched(r)'
<1>1. LedgerInv /\ CountingInv /\ OwnInv /\ \A x \in admitted : Vouched(x)
  BY SelfInv
<1>2. [AnyNext]_vars
  BY DEF AnyNext
<1>3. /\ ProducerPrefix(r) = Self /\ created' = created \cup {r}
      /\ PointersFromHeader(r) \subseteq Appendable
      /\ \A p \in PrevCertificates(r) \ lastCertRecords : HasRecord(tailRecords, backend, p)
  BY DEF CreateRecord, CanCreate
<1>4. Named(r) \subseteq admitted
  <2>1. Appendable \subseteq admitted
    <3>1. \A x \in DOMAIN tailRecords : RecordInv(tailRecords, backend, x)
      BY <1>1, LinkInvParts DEF LedgerInv, TailInv
    <3> QED BY <1>1, <3>1 DEF Appendable, RecordInv, CountingInv, AdmittedInv
  <2>2. PrevCertificates(r) \subseteq admitted
    <3>1. \A x \in DOMAIN tailRecords : RecordInv(tailRecords, backend, x)
      BY <1>1, LinkInvParts DEF LedgerInv, TailInv
    <3> QED BY <1>1, <1>3, <3>1 DEF HasRecord, RecordInv, OwnInv, CountingInv, AdmittedInv
  <2> QED BY <1>3, <2>1, <2>2 DEF Named
<1>5. \A x \in Named(r) : Vouched(x)'
  BY <1>1, <1>2, <1>4, VouchedStays
<1>6. ASSUME NEW q \in Member, q = ProducerPrefix(r) PROVE r \in StateOf(q)'.created
  <2>1. StateOf(q)' = Local' /\ Local'.created = created'
    BY <1>2, <1>3, <1>6, CallbackStates DEF Local
  <2> QED BY <1>3, <1>6, <2>1
<1>7. RestsOn[r] = {r} \cup UNION {RestsOn[x] : x \in Named(r)}
  BY RestsOnUnfold
<1> QED BY <1>5, <1>6, <1>7 DEF Vouched

\* A callback of a peer keeps what it has vouched for.
LEMMA CallbackVouched ==
  ASSUME NetInv, [AnyNext]_vars, UNCHANGED waiting,
         \A x \in Stacked' : x \in Stacked \/ Answered(x)
  PROVE  \A p \in Member : \A r \in StateOf(p)'.admitted \cup StackedIn(StateOf(p)') : Vouched(r)'
<1>1. /\ LedgerInv /\ CountingInv
      /\ \A r \in admitted \cup Stacked : Vouched(r)
  BY SelfInv
<1>2. ASSUME NEW r \in Stacked' PROVE Vouched(r)'
  BY <1>1, AnsweredVouched, VouchedStays
<1>3. ASSUME NEW r \in admitted' PROVE Vouched(r)'
  <2>1. CASE r \in admitted
    BY <1>1, <2>1, VouchedStays
  <2>2. CASE r \notin admitted
    <3>1. PICK x \in Record : Admits(x) /\ (CreateRecord(x) \/ x \in Stacked)
      BY <1>1, <2>2, StepAdmits DEF CountingInv
    <3>2. r = x
      BY <2>2, <3>1 DEF Admits
    <3>3. CASE CreateRecord(x)
      BY <3>2, <3>3, CreatedVouched
    <3>4. CASE x \in Stacked
      BY <1>1, <3>2, <3>4, VouchedStays
    <3> QED BY <3>1, <3>3, <3>4
  <2> QED BY <2>1, <2>2
<1>4. /\ \A p \in Member : StateOf(p)' = IF p = Self THEN Local' ELSE StateOf(p)
      /\ Local'.admitted = admitted'
  BY CallbackStates DEF Local
<1>5. StackedIn(Local') = Stacked'
  BY DEF StackedIn, Stacked, Local
<1>6. ASSUME NEW p \in Member, p # Self,
             NEW r \in StateOf(p)'.admitted \cup StackedIn(StateOf(p)')
      PROVE  Vouched(r)'
  <2>1. r \in StateOf(p).admitted \cup StackedIn(StateOf(p))
    BY <1>4, <1>6
  <2>2. Vouched(r)
    BY <2>1 DEF NetInv
  <2> QED BY <2>2, VouchedStays
<1> QED BY <1>2, <1>3, <1>4, <1>5, <1>6

\* What a peer advertises it admitted.
LEMMA AdvertisedAdmitted ==
  LedgerInv /\ CountingInv /\ OwnInv =>
    /\ SyncInterest(Self, tailRecords, lastCertRecords) \in SyncMessage
    /\ lastCertRecords \cup SyncTips(tailRecords) \subseteq admitted
<1> SUFFICES ASSUME LedgerInv, CountingInv, OwnInv
             PROVE  /\ SyncInterest(Self, tailRecords, lastCertRecords) \in SyncMessage
                    /\ lastCertRecords \cup SyncTips(tailRecords) \subseteq admitted
  OBVIOUS
<1>1. TypeOK /\ \A x \in DOMAIN tailRecords : RecordInv(tailRecords, backend, x)
  BY LinkInvParts DEF LedgerInv, TailInv
<1>2. lastCertRecords \cup SyncTips(tailRecords) \subseteq admitted
  BY <1>1 DEF OwnInv, CountingInv, AdmittedInv, SyncTips, RecordInv
<1>3. Self \in Peer /\ SigningKey[Self] \in Key
  BY <1>1, LedgerAssumption, NetworkAssumption DEF TypeOK
<1>4. lastCertRecords \in SUBSET Record /\ SyncTips(tailRecords) \in SUBSET Record
  BY <1>1, <1>2 DEF TypeOK
<1> QED BY <1>2, <1>3, <1>4 DEF SyncInterest, SyncMessage

LEMMA AdvertisedAdmittedNext ==
  (LedgerInv /\ CountingInv /\ OwnInv =>
     /\ SyncInterest(Self, tailRecords, lastCertRecords) \in SyncMessage
     /\ lastCertRecords \cup SyncTips(tailRecords) \subseteq admitted)'
  BY AdvertisedAdmitted, PTL

\* What a callback is to the network.
LEMMA CallbackStep ==
  ASSUME NetInv, Callback
  PROVE  /\ [AnyNext]_vars
         /\ sent' \subseteq sent \cup {SyncInterest(Self, tailRecords', lastCertRecords')}
         /\ \A r \in cached' : r \in cached \/ Answered(r)
         /\ \A r \in Stacked' : r \in Stacked \/ (Answered(r) /\ VerifyRecordFormat(r))
<1> DEFINE Goal ==
      /\ [AnyNext]_vars
      /\ sent' \subseteq sent \cup {SyncInterest(Self, tailRecords', lastCertRecords')}
      /\ \A r \in cached' : r \in cached \/ Answered(r)
      /\ \A r \in Stacked' : r \in Stacked \/ (Answered(r) /\ VerifyRecordFormat(r))
<1>1. LedgerInv
  BY SelfInv
<1>2. ASSUME NEW r \in Record, Create(r) PROVE Goal
  <2>1. Stacked' \subseteq Stacked
    BY <1>1, <1>2, OthersStackNothing DEF Create
  <2> QED BY <1>2, <2>1 DEF Create, AnyNext
<1>3. CASE Send
  <2>1. Stacked' \subseteq Stacked
    BY <1>1, <1>3, OthersStackNothing DEF Send
  <2>2. tailRecords' = tailRecords /\ lastCertRecords' = lastCertRecords
    BY <1>3 DEF Send, SendReplySync, vars, ledgerVars
  <2> QED BY <1>3, <2>1, <2>2 DEF Send, AnyNext
<1>4. ASSUME NEW m \in sent, Receive(m) PROVE Goal
  <2>1. m \in SyncMessage
    BY DEF NetInv
  <2>2. Stacked' \subseteq Stacked
    BY <1>1, <1>4, <2>1, OthersStackNothing DEF Receive
  <2> QED BY <1>4, <2>1, <2>2 DEF Receive, AnyNext
<1>5. ASSUME NEW r \in pending, Fetch(r) PROVE Goal
  <2>1. Stacked' \subseteq Stacked \/ (Stacked' \subseteq Stacked \cup {r} /\ VerifyRecordFormat(r))
    BY <1>1, <1>5, FetchStacks DEF Fetch
  <2> QED BY <1>5, <2>1 DEF Fetch, AnyNext
<1>6. CASE ScanStack
  <2>1. Stacked' \subseteq Stacked
    BY <1>1, <1>6, OthersStackNothing DEF ScanStack
  <2> QED BY <1>6, <2>1 DEF ScanStack, AnyNext
<1>7. CASE RestartPeer
  <2>1. Stacked' \subseteq Stacked
    BY <1>1, <1>7, OthersStackNothing DEF RestartPeer
  <2> QED BY <1>7, <2>1 DEF RestartPeer, AnyNext
<1> QED BY <1>2, <1>3, <1>4, <1>5, <1>6, <1>7 DEF Callback

LEMMA CallbackInv ==
  ASSUME NetInv, Callback, UNCHANGED waiting
  PROVE  NetInv'
<1>1. /\ [AnyNext]_vars
      /\ sent' \subseteq sent \cup {SyncInterest(Self, tailRecords', lastCertRecords')}
      /\ \A r \in cached' : r \in cached \/ Answered(r)
      /\ \A r \in Stacked' : r \in Stacked \/ Answered(r)
  BY CallbackStep
<1>2. /\ Self' = Self /\ Self \in Member
      /\ \A p \in Member : StateOf(p)' = IF p = Self THEN Local' ELSE StateOf(p)
      /\ \A p \in Member : PeerInv(p, StateOf(p)')
      /\ \A p \in Member : StateOf(p).admitted \subseteq StateOf(p)'.admitted
  BY <1>1, CallbackStates DEF NetInv
<1>3. waiting' \in [Member \ {Self'} -> LocalState]
  BY <1>2 DEF NetInv
<1>4. \A p \in Member : \A r \in StateOf(p)'.admitted \cup StackedIn(StateOf(p)') : Vouched(r)'
  BY <1>1, CallbackVouched
<1>5. \A r \in cached' : Vouched(r)'
  <2>1. \A r \in cached' : Vouched(r)
    BY <1>1, AnsweredVouched DEF NetInv
  <2> QED BY <1>1, <2>1, VouchedStays
<1>6. /\ LedgerInv' /\ CountingInv' /\ OwnInv'
      /\ Local'.admitted = admitted'
  <2>1. LedgerInv /\ CountingInv /\ OwnInv
    BY SelfInv
  <2>2. LedgerInv' /\ CountingInv' /\ OwnInv'
    BY <1>1, <2>1, StepInv, StepCounting, StepOwn
  <2> QED BY <2>2 DEF Local
<1>7. /\ SyncInterest(Self, tailRecords', lastCertRecords') \in SyncMessage
      /\ lastCertRecords' \cup SyncTips(tailRecords') \subseteq admitted'
  BY <1>2, <1>6, AdvertisedAdmittedNext
<1>8. sent' \subseteq SyncMessage
  BY <1>1, <1>7 DEF NetInv
<1>9. ASSUME NEW m \in sent', NEW r \in m.certs \cup m.tips
      PROVE  \E p \in Member : r \in StateOf(p)'.admitted
  <2>1. CASE m \in sent
    <3>1. PICK p \in Member : r \in StateOf(p).admitted
      BY <1>9, <2>1 DEF NetInv, Circulating
    <3> QED BY <1>2, <3>1
  <2>2. CASE m = SyncInterest(Self, tailRecords', lastCertRecords')
    <3>1. r \in lastCertRecords' \cup SyncTips(tailRecords')
      BY <1>9, <2>2 DEF SyncInterest
    <3>2. r \in StateOf(Self).admitted \/ r \in Local'.admitted
      BY <1>6, <1>7, <3>1
    <3> QED BY <1>2, <1>6, <1>7, <3>1
  <2> QED BY <1>1, <2>1, <2>2
<1>10. \A r \in Circulating' : \E p \in Member : r \in StateOf(p)'.admitted
  BY <1>9 DEF Circulating
<1> QED BY <1>2, <1>3, <1>4, <1>5, <1>8, <1>10 DEF NetInv

\* It is another peer's turn, or nothing happens: all states are as before.
LEMMA SameStatesInv ==
  ASSUME NetInv, Self' \in Member, waiting' \in [Member \ {Self'} -> LocalState],
         \A p \in Member : StateOf(p)' = StateOf(p), UNCHANGED <<sent, cached>>
  PROVE  NetInv'
<1>1. \A r : Vouched(r) => Vouched(r)'
  BY DEF Vouched
<1>2. \A p \in Member : PeerInv(p, StateOf(p)')
  BY DEF NetInv
<1>3. \A p \in Member : \A r \in StateOf(p)'.admitted \cup StackedIn(StateOf(p)') : Vouched(r)'
  BY <1>1 DEF NetInv
<1>4. \A r \in cached' : Vouched(r)'
  BY <1>1 DEF NetInv
<1>5. \A r \in Circulating' : \E p \in Member : r \in StateOf(p)'.admitted
  BY DEF NetInv, Circulating
<1> QED BY <1>2, <1>3, <1>4, <1>5 DEF NetInv

\* The variables take the values of the state that waited.
LEMMA LocalStateFields ==
  ASSUME NEW s \in LocalState
  PROVE  s = [tailRecords |-> s.tailRecords, backend |-> s.backend,
              syncStack |-> s.syncStack, scan |-> s.scan, pending |-> s.pending,
              replySync |-> s.replySync, lastCertRecords |-> s.lastCertRecords,
              peerCertificates |-> s.peerCertificates,
              revokedCertificates |-> s.revokedCertificates, now |-> s.now,
              losses |-> s.losses, restarts |-> s.restarts, created |-> s.created,
              admitted |-> s.admitted, timedOut |-> s.timedOut, fault |-> s.fault]
  BY DEF LocalState

LEMMA TurnStates ==
  ASSUME NetInv, NEW p \in Member, Turn(p)
  PROVE  /\ Self' = p
         /\ waiting' \in [Member \ {p} -> LocalState]
         /\ \A q \in Member : StateOf(q)' = StateOf(q)
<1>1. p # Self /\ Self' = p /\ waiting' = [q \in Member \ {p} |-> StateOf(q)]
  BY DEF Turn
<1>2. \A q \in Member : StateOf(q) \in LocalState
  BY DEF NetInv, PeerInv
<1>3. waiting' \in [Member \ {p} -> LocalState]
  BY <1>1, <1>2
<1>4. waiting[p] \in LocalState
  BY <1>1 DEF NetInv
<1>5. Local' = waiting[p]
  <2>1. Local' = [tailRecords |-> waiting[p].tailRecords, backend |-> waiting[p].backend,
              syncStack |-> waiting[p].syncStack, scan |-> waiting[p].scan,
              pending |-> waiting[p].pending, replySync |-> waiting[p].replySync,
              lastCertRecords |-> waiting[p].lastCertRecords,
              peerCertificates |-> waiting[p].peerCertificates,
              revokedCertificates |-> waiting[p].revokedCertificates,
              now |-> waiting[p].now, losses |-> waiting[p].losses,
              restarts |-> waiting[p].restarts, created |-> waiting[p].created,
              admitted |-> waiting[p].admitted, timedOut |-> waiting[p].timedOut,
              fault |-> waiting[p].fault]
    BY DEF Local, Turn
  <2> QED BY <1>4, <2>1, LocalStateFields
<1>6. StateOf(p)' = StateOf(p)
  BY <1>1, <1>5 DEF StateOf
<1>7. \A q \in Member \ {p} : StateOf(q)' = StateOf(q)
  BY <1>1 DEF StateOf
<1> QED BY <1>1, <1>3, <1>6, <1>7

LEMMA NetStepInv == NetInv /\ [NetworkNext]_networkVars => NetInv'
<1> SUFFICES ASSUME NetInv, [NetworkNext]_networkVars PROVE NetInv'
  OBVIOUS
<1>1. CASE Callback /\ UNCHANGED waiting
  BY <1>1, CallbackInv
<1>2. ASSUME NEW p \in Member, Turn(p) PROVE NetInv'
  <2>1. UNCHANGED <<sent, cached>>
    BY <1>2 DEF Turn
  <2> QED BY <1>2, <2>1, TurnStates, SameStatesInv
<1>3. CASE UNCHANGED networkVars
  <2>1. UNCHANGED <<vars, waiting, sent, cached>>
    BY <1>3 DEF networkVars
  <2>2. Self' = Self /\ Local' = Local
    BY <2>1 DEF vars, ledgerVars, fetchVars, countVars, Local
  <2>3. \A p \in Member : StateOf(p)' = StateOf(p)
    BY <2>1, <2>2 DEF StateOf
  <2> QED BY <2>1, <2>2, <2>3, SameStatesInv DEF NetInv
<1> QED BY <1>1, <1>2, <1>3 DEF NetworkNext

LEMMA NetInitInv == NetworkInit => NetInv
<1> SUFFICES ASSUME NetworkInit PROVE NetInv
  OBVIOUS
<1>1. Init /\ Self \in Member /\ waiting = [p \in Member \ {Self} |-> Local]
  BY DEF NetworkInit, Init
<1>2. /\ DOMAIN tailRecords = GenesisRecords /\ backend = {} /\ DOMAIN syncStack = {}
      /\ lastCertRecords = {} /\ created = {} /\ admitted = GenesisRecords
  BY <1>1, EmptySeq DEF Init, GenesisTail
<1>3. LedgerInv /\ CountingInv
  BY <1>1, InitInv, InitCounting
<1>4. OwnInv /\ TipsCoverLedger /\ CertInv
  <2>1. CertInv
    BY <1>1 DEF Init, CertInv, ConfirmedChangesEffective
  <2> QED BY <1>2, <1>3, <2>1, TipsCover DEF OwnInv
<1>5. PeerInv(Self, Local)
  BY <1>1, <1>3, <1>4, LocalInv
<1>6. StackedIn(Local) = {}
  BY <1>2, LocalFields DEF StackedIn
<1>7. \A p \in Member, g \in GenesisRecords : ProducerPrefix(g) # p
  BY LedgerAssumption, PrefixAssumption
<1>8. ASSUME NEW p \in Member PROVE PeerInv(p, Local)
  <2>1. \A r \in DOMAIN Local.tailRecords \cup Local.backend \cup StackedIn(Local) :
          ProducerPrefix(r) # p
    BY <1>2, <1>6, <1>7, LocalFields
  <2> QED BY <1>5, <2>1 DEF PeerInv, PeerLedgerInv
<1>9. \A p \in Member : StateOf(p) = Local
  BY <1>1 DEF StateOf
<1>10. waiting \in [Member \ {Self} -> LocalState]
  BY <1>1, <1>5 DEF PeerInv
<1>11. \A g \in GenesisRecords : Vouched(g)
  <2> SUFFICES ASSUME NEW g \in GenesisRecords PROVE Vouched(g)
    OBVIOUS
  <2>1. g \in Record /\ Named(g) = {}
    BY GenesisAssumption DEF GenesisRecords
  <2>2. RestsOn[g] = {g}
    BY <2>1, RestsOnUnfold
  <2> QED BY <1>7, <2>2 DEF Vouched
<1>12. \A p \in Member : \A r \in StateOf(p).admitted \cup StackedIn(StateOf(p)) : Vouched(r)
  BY <1>2, <1>6, <1>9, <1>11, LocalFields
<1>13. \A m \in sent : \E p \in Member : m = SyncInterest(p, tailRecords, lastCertRecords)
  BY DEF NetworkInit
<1>14. lastCertRecords \cup SyncTips(tailRecords) \subseteq admitted
  BY <1>3, <1>4, AdvertisedAdmitted
<1>15. sent \subseteq SyncMessage
  <2>1. \A p \in Member : p \in Peer /\ SigningKey[p] \in Key
    BY LedgerAssumption, NetworkAssumption
  <2>2. lastCertRecords \in SUBSET Record /\ SyncTips(tailRecords) \in SUBSET Record
    BY <1>3, <1>14 DEF LedgerInv, TypeOK
  <2> QED BY <1>13, <2>1, <2>2 DEF SyncInterest, SyncMessage
<1>16. \A r \in Circulating : \E p \in Member : r \in StateOf(p).admitted
  <2>1. \A r \in Circulating : r \in lastCertRecords \cup SyncTips(tailRecords)
    BY <1>13 DEF Circulating, SyncInterest
  <2> QED BY <1>1, <1>9, <1>14, <2>1, LocalFields
<1>17. cached = {}
  BY DEF NetworkInit
<1> QED BY <1>1, <1>8, <1>9, <1>10, <1>12, <1>15, <1>16, <1>17 DEF NetInv

\* What a peer stacks is well formed, so it admits only what is, or its own.
FormatInv ==
  \A p \in Member : \A r \in StateOf(p).admitted \cup StackedIn(StateOf(p)) :
    ProducerPrefix(r) = p \/ VerifyRecordFormat(r)

LEMMA CallbackFormat ==
  ASSUME NetInv, FormatInv, Callback, UNCHANGED waiting
  PROVE  FormatInv'
<1> DEFINE Formed(p, r) == ProducerPrefix(r) = p \/ VerifyRecordFormat(r)
<1>1. /\ [AnyNext]_vars
      /\ \A r \in Stacked' : r \in Stacked \/ VerifyRecordFormat(r)
  BY CallbackStep
<1>2. /\ LedgerInv /\ CountingInv /\ StateOf(Self) = Local /\ Self \in Member
  BY SelfInv DEF NetInv
<1>3. \A p \in Member : StateOf(p)' = IF p = Self THEN Local' ELSE StateOf(p)
  BY <1>1, CallbackStates
<1>4. /\ Local.admitted = admitted /\ Local'.admitted = admitted'
      /\ StackedIn(Local) = Stacked /\ StackedIn(Local') = Stacked'
  BY DEF Local, StackedIn, Stacked
<1>5. \A r \in admitted \cup Stacked : Formed(Self, r)
  BY <1>2, <1>4 DEF FormatInv
<1>6. ASSUME NEW r \in admitted' PROVE Formed(Self, r)
  <2>1. ASSUME NEW x \in Record, Admits(x), CreateRecord(x) \/ x \in Stacked
        PROVE  Formed(Self, r)
    <3>1. Formed(Self, x)
      BY <1>5, <2>1 DEF CreateRecord, CanCreate
    <3>2. r \in admitted \/ r = x
      BY <1>6, <2>1 DEF Admits
    <3> QED BY <1>5, <3>1, <3>2
  <2>2. CASE UNCHANGED <<admitted, backend>>
    BY <1>5, <1>6, <2>2
  <2> QED BY <1>1, <1>2, <2>1, <2>2, StepAdmits DEF CountingInv
<1>7. \A r \in admitted' \cup Stacked' : Formed(Self, r)
  BY <1>1, <1>5, <1>6
<1>8. ASSUME NEW p \in Member, NEW r \in StateOf(p)'.admitted \cup StackedIn(StateOf(p)')
      PROVE  Formed(p, r)
  <2>1. CASE p = Self
    BY <1>3, <1>4, <1>7, <1>8, <2>1
  <2>2. CASE p # Self
    BY <1>3, <1>8, <2>2 DEF FormatInv
  <2> QED BY <2>1, <2>2
<1> QED BY <1>8 DEF FormatInv

LEMMA FormatStepInv == NetInv /\ FormatInv /\ [NetworkNext]_networkVars => FormatInv'
<1> SUFFICES ASSUME NetInv, FormatInv, [NetworkNext]_networkVars PROVE FormatInv'
  OBVIOUS
<1>1. ASSUME \A p \in Member : StateOf(p)' = StateOf(p) PROVE FormatInv'
  BY <1>1 DEF FormatInv
<1>2. ASSUME NEW p \in Member, Turn(p) PROVE FormatInv'
  BY <1>1, <1>2, TurnStates
<1>3. CASE UNCHANGED networkVars
  BY <1>1, <1>3 DEF networkVars, vars, ledgerVars, fetchVars, countVars, StateOf, Local
<1> QED BY <1>2, <1>3, CallbackFormat DEF NetworkNext

LEMMA FormatInit == NetworkInit => FormatInv
<1> SUFFICES ASSUME NetworkInit PROVE FormatInv
  OBVIOUS
<1>1. admitted = GenesisRecords /\ DOMAIN syncStack = {}
  BY EmptySeq DEF NetworkInit, Init
<1>2. \A p \in Member : StateOf(p) = Local
  BY DEF NetworkInit, StateOf
<1>3. \A g \in GenesisRecords : VerifyRecordFormat(g)
  BY DEF GenesisRecords, VerifyRecordFormat
<1> QED BY <1>1, <1>2, <1>3, LocalFields DEF FormatInv, StackedIn

\* Undisturbed, a peer holds just what it admitted.
LEMMA HeldIsAdmitted ==
  ASSUME NEW p, NEW s, PeerInv(p, s), UndisturbedIn(s)
  PROVE  Held(s) = s.admitted
<1>1. \A x \in DOMAIN s.tailRecords : RecordInv(s.tailRecords, s.backend, x)
  BY LinkInvParts DEF PeerInv, PeerLedgerInv, TailInv
<1>2. Held(s) \subseteq s.admitted
  BY <1>1 DEF Held, RecordInv, PeerInv, PeerCountingInv, PeerAdmittedInv
<1>3. s.admitted \subseteq Held(s)
  BY <1>1 DEF Held, RecordInv, PeerInv, PeerCountingInv, PeerExactInv
<1> QED BY <1>2, <1>3

\* It has confirmed what it holds approvals of by confirmWeight others, and
\* trusts what that issues and does not revoke.
LEMMA ConfirmedIsApproved ==
  ASSUME NEW p, NEW s, PeerInv(p, s), UndisturbedIn(s)
  PROVE  s.backend = {r \in s.admitted : Cardinality(ApprovalsAmong(s.admitted, r)) >= confirmWeight}
<1>1. \A x \in DOMAIN s.tailRecords : RecordInv(s.tailRecords, s.backend, x)
  BY LinkInvParts DEF PeerInv, PeerLedgerInv, TailInv
<1>2. \A r \in s.backend :
        r \in s.admitted /\ Cardinality(ApprovalsAmong(s.admitted, r)) >= confirmWeight
  BY DEF PeerInv, PeerLedgerInv, PeerCountingInv, PeerAdmittedInv
<1>3. ASSUME NEW r \in s.admitted, r \notin s.backend,
             Cardinality(ApprovalsAmong(s.admitted, r)) >= confirmWeight
      PROVE  FALSE
  <2>1. r \in DOMAIN s.tailRecords
    BY <1>3 DEF PeerInv, PeerCountingInv, PeerExactInv
  <2>2. s.tailRecords[r].refSet = ApprovalsAmong(s.admitted, r)
    BY <1>3, <2>1 DEF PeerInv, PeerLedgerInv, PeerCountingInv, PeerExactInv
  <2>3. Weight(s.tailRecords, r) >= confirmWeight
    BY <1>3, <2>2 DEF Weight
  <2> QED BY <1>1, <1>3, <2>1, <2>3 DEF RecordInv
<1> QED BY <1>2, <1>3

LEMMA TrustIsConfirmed ==
  ASSUME NEW p, NEW s, PeerInv(p, s), UndisturbedIn(s)
  PROVE  s.peerCertificates \ s.revokedCertificates = LiveCertificates(s.backend)
  BY DEF PeerInv, PeerCertInv, UndisturbedIn, LiveCertificates

LEMMA AdmittedIsHeld ==
  ASSUME NEW p, NEW s, PeerInv(p, s), UndisturbedIn(s), NEW r \in s.admitted
  PROVE  HasRecord(s.tailRecords, s.backend, r)
<1>1. \A x \in DOMAIN s.tailRecords : RecordInv(s.tailRecords, s.backend, x)
  BY LinkInvParts DEF PeerInv, PeerLedgerInv, TailInv
<1> QED BY <1>1 DEF HasRecord, RecordInv, PeerInv, PeerCountingInv, PeerExactInv

-----------------------------------------------------------------------------
(***************************************************************************)
(* The theorems.                                                           *)
(***************************************************************************)

\* The invariant of each peer, and what they know of one another's records,
\* whatever is lost, late or repeated and whoever restarts.
THEOREM NetworkInvariant == NetworkSpec => []NetInv
  BY NetInitInv, NetStepInv, PTL DEF NetworkSpec

\* The replicated ledger sees the same DAG.
LEMMA ReplicatedRecords ==
  /\ \A r : Replicated!PointersFromHeader(r) = PointersFromHeader(r)
  /\ \A r : Replicated!ProducerPrefix(r) = ProducerPrefix(r)
  /\ Replicated!GenesisRecords = GenesisRecords
  BY DEF Replicated!PointersFromHeader, PointersFromHeader, Replicated!ProducerPrefix,
         ProducerPrefix, Replicated!GenesisRecords, GenesisRecords, Replicated!Type, Type

LEMMA ReplicatedCardinality == \A S : Replicated!Cardinality(S) = Cardinality(S)
  BY DEF Replicated!Cardinality, Cardinality

LEMMA ReplicatedApprovals == \A r : Replicated!Approvers(admitted', r) = Approvals(r)'
<1>1. Replicated!AncestorsOf = AncestorsOf
  BY DEF Replicated!AncestorsOf, AncestorsOf, Replicated!PointersFromHeader, PointersFromHeader
<1>2. \A V, r : Replicated!Approvers(V, r) =
        {ProducerPrefix(a) : a \in {x \in V : r \in AncestorsOf[x]}} \ {ProducerPrefix(r)}
  BY <1>1 DEF Replicated!Approvers, Replicated!ProducerPrefix, ProducerPrefix
<1> QED BY <1>2 DEF Approvals

\* A callback of a peer is a step of its replica, or of none.
LEMMA CallbackVerifies ==
  ASSUME NetInv, Callback, UNCHANGED waiting
  PROVE  [Replicated!Next]_(Replicated!vars)
<1> DEFINE verified  == [p \in Member |-> StateOf(p).admitted]
           confirmed == [p \in Member |-> StateOf(p).backend]
           verifiedNext  == [p \in Member |-> StateOf(p)'.admitted]
           confirmedNext == [p \in Member |-> StateOf(p)'.backend]
<1>1. [AnyNext]_vars
  BY CallbackStep
<1>2. /\ LedgerInv /\ CountingInv /\ StateOf(Self) = Local
      /\ \A r \in Stacked : Vouched(r)
      /\ Self \in Member
  BY SelfInv DEF NetInv
<1>3. \A p \in Member : StateOf(p)' = IF p = Self THEN Local' ELSE StateOf(p)
  BY <1>1, CallbackStates
<1>4. /\ Local.admitted = admitted /\ Local'.admitted = admitted'
      /\ Local.backend = backend /\ Local'.backend = backend'
  BY DEF Local
<1>5. /\ verifiedNext = [verified EXCEPT ![Self] = admitted']
      /\ confirmedNext = [confirmed EXCEPT ![Self] = backend']
      /\ verified[Self] = admitted /\ confirmed[Self] = backend
  BY <1>2, <1>3, <1>4
<1>6. CASE UNCHANGED <<admitted, backend>>
  <2>1. verifiedNext = verified /\ confirmedNext = confirmed
    BY <1>2, <1>3, <1>4, <1>6
  <2> QED BY <2>1 DEF Replicated!vars
<1>7. ASSUME NEW self \in Member, self = Self,
             NEW r \in Record, Admits(r), CreateRecord(r) \/ r \in Stacked
      PROVE  Replicated!Verify(self, r)
  <2>1. PICK C \in SUBSET admitted' :
          /\ backend' = backend \cup C
          /\ \A x \in C : /\ Cardinality(Approvals(x)') >= confirmWeight
                          /\ PointersFromHeader(x) \subseteq backend'
    BY <1>7 DEF Admits
  <2>2. ProducerPrefix(r) \in Member \ {self} => r \in StateOf(ProducerPrefix(r)).admitted
    <3>1. CASE CreateRecord(r)
      BY <1>7, <3>1 DEF CreateRecord, CanCreate
    <3>2. CASE r \in Stacked
      <4> SUFFICES ASSUME NEW q \in Member, q = ProducerPrefix(r)
                   PROVE  r \in StateOf(q).admitted
        OBVIOUS
      <4>1. r \in RestsOn[r]
        BY RestsOnUnfold
      <4>2. r \in StateOf(q).created
        BY <1>2, <3>2, <4>1 DEF Vouched
      <4> QED BY <4>2 DEF NetInv, PeerInv
    <3> QED BY <1>7, <3>1, <3>2
  <2>3. PointersFromHeader(r) \subseteq admitted /\ admitted' = admitted \cup {r}
    BY <1>7 DEF Admits
  <2>4. C \in SUBSET {x \in admitted' :
                Replicated!Cardinality(Replicated!Approvers(admitted', x)) >= confirmWeight}
    BY <2>1, ReplicatedApprovals, ReplicatedCardinality
  <2>5. verifiedNext = [verified EXCEPT ![self] = verified[self] \cup {r}]
        /\ confirmedNext = [confirmed EXCEPT ![self] = confirmed[self] \cup C]
        /\ verifiedNext[self] = admitted' /\ confirmedNext[self] = backend'
    BY <1>2, <1>3, <1>4, <1>5, <1>7, <2>1, <2>3
  <2>6. ProducerPrefix(r) \in Member \ {self} => r \in verified[ProducerPrefix(r)]
    BY <2>2
  <2>7. /\ PointersFromHeader(r) \subseteq verified[self]
        /\ \A x \in C : PointersFromHeader(x) \subseteq confirmedNext[self]
        /\ C \in SUBSET {x \in verifiedNext[self] :
                Replicated!Cardinality(Replicated!Approvers(verifiedNext[self], x))
                  >= confirmWeight}
    BY <1>5, <1>7, <2>1, <2>3, <2>4, <2>5
  <2> HIDE DEF verified, confirmed, verifiedNext, confirmedNext
  <2>8. /\ Replicated!PointersFromHeader(r) \subseteq verified[self]
        /\ Replicated!ProducerPrefix(r) \in Member \ {self}
             => r \in verified[Replicated!ProducerPrefix(r)]
        /\ \A x \in C : Replicated!PointersFromHeader(x) \subseteq confirmedNext[self]
    BY <2>6, <2>7, ReplicatedRecords
  <2> DEFINE heavy == {x \in verifiedNext[self] :
                Replicated!Cardinality(Replicated!Approvers(verifiedNext[self], x))
                  >= confirmWeight}
  <2>9. C \in SUBSET heavy
    BY <2>7
  <2> HIDE DEF heavy
  <2>10. \E K \in SUBSET heavy :
           /\ confirmedNext = [confirmed EXCEPT ![self] = @ \cup K]
           /\ \A x \in K : Replicated!PointersFromHeader(x) \subseteq confirmedNext[self]
    BY <2>5, <2>8, <2>9
  <2> QED BY <2>5, <2>8, <2>10
          DEF Replicated!Verify, heavy, verified, confirmed, verifiedNext, confirmedNext
<1> HIDE DEF verified, confirmed, verifiedNext, confirmedNext
<1> QED BY <1>1, <1>2, <1>6, <1>7, StepAdmits DEF CountingInv, Replicated!Next

\* Whatever is lost, late, repeated or out of order, and whoever restarts, the
\* peers together do what the replicated ledger promises: each verifies a
\* record after its producer and after all it points to, and what one confirms
\* is approved and confirmed with its history.
THEOREM NetworkImplementsReplicatedLedger == NetworkSpec => ImplementsReplicatedLedger
<1>1. NetworkInit => Replicated!Init
  <2> SUFFICES ASSUME NetworkInit PROVE Replicated!Init
    OBVIOUS
  <2>1. admitted = GenesisRecords /\ backend = {}
    BY DEF NetworkInit, Init
  <2>2. \A p \in Member : StateOf(p) = Local
    BY DEF NetworkInit, StateOf
  <2>3. \A p \in Member : StateOf(p).admitted = GenesisRecords /\ StateOf(p).backend = {}
    BY <2>1, <2>2, LocalFields
  <2> QED BY <2>3, ReplicatedRecords DEF Replicated!Init
<1>2. NetInv /\ [NetworkNext]_networkVars => [Replicated!Next]_(Replicated!vars)
  <2> SUFFICES ASSUME NetInv, [NetworkNext]_networkVars
               PROVE  [Replicated!Next]_(Replicated!vars)
    OBVIOUS
  <2>1. CASE Callback /\ UNCHANGED waiting
    BY <2>1, CallbackVerifies
  <2>2. CASE \A p \in Member : StateOf(p)' = StateOf(p)
    BY <2>2 DEF Replicated!vars
  <2>3. ASSUME NEW p \in Member, Turn(p)
        PROVE  \A q \in Member : StateOf(q)' = StateOf(q)
    BY <2>3, TurnStates
  <2>4. CASE UNCHANGED networkVars
    BY <2>2, <2>4 DEF networkVars, vars, ledgerVars, fetchVars, countVars, StateOf, Local
  <2> QED BY <2>1, <2>2, <2>3, <2>4 DEF NetworkNext
<1> QED BY <1>1, <1>2, NetworkInvariant, PTL
        DEF NetworkSpec, ImplementsReplicatedLedger, Replicated!Spec

\* The peer that made an approval of r has verified r.
LEMMA ApproverVerified ==
  ASSUME NetInv, \A x \in Record \ GenesisRecords : ProducerPrefix(x) \in Member,
         NEW p \in Member, NEW a \in StateOf(p).admitted, NEW r, r \in AncestorsOf[a]
  PROVE  ProducerPrefix(a) \in Member /\ r \in StateOf(ProducerPrefix(a)).admitted
<1>1. \A q \in Member : PeerInv(q, StateOf(q))
  BY DEF NetInv
<1>2. a \in Record
  BY <1>1 DEF PeerInv, LocalState
<1>3. a \notin GenesisRecords
  <2>1. \A g \in GenesisRecords : g \in Record /\ PointersFromHeader(g) = {}
    BY GenesisAssumption DEF Named, GenesisRecords
  <2>2. \A g \in GenesisRecords : AncestorsOf[g] = {}
    BY <2>1, AncestorsUnfold
  <2> QED BY <2>2
<1>4. ProducerPrefix(a) \in Member
  BY <1>2, <1>3
<1> DEFINE V == StateOf(ProducerPrefix(a)).admitted
<1>5. a \in StateOf(ProducerPrefix(a)).created
  <2>1. a \in RestsOn[a]
    BY <1>2, RestsOnUnfold
  <2> QED BY <1>4, <2>1 DEF NetInv, Vouched
<1>6. a \in V /\ V \in SUBSET Record /\ \A y \in V : PointersFromHeader(y) \subseteq V
  BY <1>1, <1>4, <1>5 DEF PeerInv, PeerCountingInv, LocalState
<1> HIDE DEF V
<1>7. AncestorsOf[a] \subseteq V
  BY <1>6, AncestorsWithin
<1> QED BY <1>4, <1>7 DEF V

\* What one peer has confirmed at least confirmWeight others than its producer
\* hold ("Persistence", doc/requirement.md:17), but for those that verified it
\* and have since restarted or timed records out: the approvers have verified
\* it, and an undisturbed peer holds all it has verified.
THEOREM NetworkPersistence == NetworkSpec => []Persistence
<1> DEFINE verifiers(r) == {q \in Member : r \in StateOf(q).admitted} \ {ProducerPrefix(r)}
<1>1. ASSUME NetInv, \A x \in Record \ GenesisRecords : ProducerPrefix(x) \in Member,
             NEW p \in Member, NEW r \in StateOf(p).backend
      PROVE  Cardinality(Keepers(r)) >= confirmWeight
  <2>1. \A q \in Member : PeerInv(q, StateOf(q))
    BY <1>1 DEF NetInv
  <2>2. /\ StateOf(p).admitted \in SUBSET Record
        /\ Cardinality(ApprovalsAmong(StateOf(p).admitted, r)) >= confirmWeight
    BY <1>1, <2>1 DEF PeerInv, LocalState, PeerLedgerInv
  <2>3. ASSUME NEW a \in StateOf(p).admitted, r \in AncestorsOf[a]
        PROVE  ProducerPrefix(a) \in Member /\ r \in StateOf(ProducerPrefix(a)).admitted
    BY <1>1, <2>3, ApproverVerified
  <2>4. ApprovalsAmong(StateOf(p).admitted, r) \subseteq verifiers(r)
    BY <2>3 DEF ApprovalsAmong
  <2>5. verifiers(r) \subseteq Keepers(r)
    <3> SUFFICES ASSUME NEW q \in Member, r \in StateOf(q).admitted, UndisturbedIn(StateOf(q))
                 PROVE  r \in Held(StateOf(q))
      BY DEF Keepers
    <3>1. PeerInv(q, StateOf(q))
      BY <2>1
    <3> QED BY <3>1, HeldIsAdmitted
  <2>6. IsFiniteSet(Keepers(r))
    <3>1. Keepers(r) \subseteq Peer
      BY LedgerAssumption DEF Keepers
    <3> QED BY <3>1, DataAssumption, FS_Subset
  <2> HIDE DEF verifiers
  <2>7. /\ Cardinality(ApprovalsAmong(StateOf(p).admitted, r)) <= Cardinality(Keepers(r))
        /\ Cardinality(ApprovalsAmong(StateOf(p).admitted, r)) \in Nat
        /\ Cardinality(Keepers(r)) \in Nat
    BY <2>4, <2>5, <2>6, FS_Subset, FS_CardinalityType
  <2> QED BY <2>2, <2>7, WeightAssumption
<1>2. ASSUME NetInv PROVE Persistence
  BY <1>1, <1>2 DEF Persistence
<1> QED BY <1>2, NetworkInvariant, PTL

\* What a peer has confirmed it may act on: the certificates it files the
\* anchor issued, and those it revokes belong to the producer of the record
\* unless that is the anchor.  A badly formed record can be stored by its
\* producer's ledger only as long as nobody approves it, and the producer does
\* not count: some other peer took in what is confirmed, and checked its form.
THEOREM NetworkChangesAuthorized == NetworkSpec => []ChangesAuthorized
<1>1. ASSUME NetInv, FormatInv,
             \A x \in Record \ GenesisRecords : ProducerPrefix(x) \in Member,
             NEW p \in Member, NEW r \in StateOf(p).backend
      PROVE  VerifyRecordFormat(r)
  <2> DEFINE A == ApprovalsAmong(StateOf(p).admitted, r)
  <2>1. Cardinality(A) >= confirmWeight
    BY <1>1 DEF NetInv, PeerInv, PeerLedgerInv
  <2>2. A # {}
    BY <2>1, FS_EmptySet, WeightAssumption
  <2>3. PICK a \in StateOf(p).admitted :
          r \in AncestorsOf[a] /\ ProducerPrefix(a) # ProducerPrefix(r)
    BY <2>2 DEF ApprovalsAmong
  <2>4. ProducerPrefix(a) \in Member /\ r \in StateOf(ProducerPrefix(a)).admitted
    BY <1>1, <2>3, ApproverVerified
  <2> QED BY <1>1, <2>3, <2>4 DEF FormatInv
<1>2. ASSUME NetInv, FormatInv PROVE ChangesAuthorized
  <2>1. ASSUME NEW r, VerifyRecordFormat(r)
        PROVE  /\ \A cert \in Certificates(r) : CertInfo[cert].issuedByAnchor
               /\ \A cert \in RevokedCertificates(r) :
                    ProducerPrefix(r) \in {AnchorIdentity, Identity(cert)}
    BY <2>1 DEF VerifyRecordFormat, Certificates, RevokedCertificates
  <2> QED BY <1>1, <1>2, <2>1 DEF ChangesAuthorized
<1>3. NetworkSpec => []FormatInv
  BY FormatInit, FormatStepInv, NetworkInvariant, PTL DEF NetworkSpec
<1> QED BY <1>2, <1>3, NetworkInvariant, PTL

\* What was advertised can be fetched, with all it rests on, one peer being
\* asked for each record.  A member that verified a record has its parents, and
\* the members that made them have not lost them: an admitted record is tailing
\* or stored until the peer restarts or records time out.
THEOREM NetworkFindable == NetworkSpec => []Findable
<1>1. NetInv => Findable
  <2> SUFFICES ASSUME NetInv, NEW r \in Circulating, NEW x \in AncestorsOf[r] \cup {r},
                      NEW q \in Member \cap {ProducerPrefix(x)},
                      UndisturbedIn(StateOf(q))
               PROVE  HasRecord(StateOf(q).tailRecords, StateOf(q).backend, x)
    BY DEF Findable
  <2>1. PICK p \in Member : r \in StateOf(p).admitted
    BY DEF NetInv
  <2> DEFINE A == StateOf(p).admitted
             s == StateOf(q)
  <2>2. A \in SUBSET Record /\ r \in A /\ \A y \in A : PointersFromHeader(y) \subseteq A
    BY <2>1 DEF NetInv, PeerInv, PeerCountingInv, LocalState
  <2>3. PeerInv(q, s) /\ UndisturbedIn(s)
    BY DEF NetInv
  <2>4. \A y \in A : Vouched(y)
    BY DEF NetInv
  <2> HIDE DEF A
  <2>5. x \in A /\ x \in Record
    <3>1. AncestorsOf[r] \subseteq A
      BY <2>2, AncestorsWithin
    <3> QED BY <2>2, <3>1
  <2>6. x \in s.created
    <3>1. x \in RestsOn[x]
      BY <2>5, RestsOnUnfold
    <3> QED BY <2>4, <2>5, <3>1 DEF Vouched
  <2> HIDE DEF s
  <2>7. x \in s.admitted
    BY <2>3, <2>6 DEF PeerInv
  <2>8. HasRecord(s.tailRecords, s.backend, x)
    BY <2>3, <2>7, AdmittedIsHeld
  <2> QED BY <2>8 DEF s
<1> QED BY <1>1, NetworkInvariant, PTL

\* Two peers that have verified each other's tips hold the same records: each
\* finds everything from its tips, and holds what a record it holds rests on.
\* What they have confirmed follows from what they hold, whatever the order
\* they got it in, and what they trust from what they have confirmed.
THEOREM NetworkSilence == NetworkSpec => []SilenceMeansAgreement
<1>1. NetInv => SilenceMeansAgreement
  <2>1. ASSUME NEW p, NEW q, NEW s, NEW t, PeerInv(p, s), PeerInv(q, t),
               UndisturbedIn(s), UndisturbedIn(t), SyncTips(s.tailRecords) \subseteq Held(t)
        PROVE  Held(s) \subseteq Held(t)
    <3> SUFFICES ASSUME NEW r \in Held(s) PROVE r \in Held(t)
      OBVIOUS
    <3>1. PICK tip \in SyncTips(s.tailRecords) : r \in AncestorsOf[tip] \cup {tip}
      BY <2>1 DEF PeerInv, PeerTipsInv
    <3>2. tip \in t.admitted
      BY <2>1, HeldIsAdmitted
    <3>3. t.admitted \in SUBSET Record /\ \A y \in t.admitted : PointersFromHeader(y) \subseteq t.admitted
      BY <2>1 DEF PeerInv, PeerCountingInv, LocalState
    <3>4. r \in t.admitted
      BY <3>1, <3>2, <3>3, AncestorsWithin
    <3> QED BY <2>1, <3>4, HeldIsAdmitted
  <2> SUFFICES ASSUME NetInv, NEW p \in Member, NEW q \in Member,
                      UndisturbedIn(StateOf(p)), UndisturbedIn(StateOf(q)),
                      SyncTips(StateOf(p).tailRecords) \subseteq Held(StateOf(q)),
                      SyncTips(StateOf(q).tailRecords) \subseteq Held(StateOf(p))
               PROVE  /\ Held(StateOf(p)) = Held(StateOf(q))
                      /\ StateOf(p).backend = StateOf(q).backend
                      /\ StateOf(p).peerCertificates \ StateOf(p).revokedCertificates
                           = StateOf(q).peerCertificates \ StateOf(q).revokedCertificates
    BY DEF SilenceMeansAgreement
  <2>2. PeerInv(p, StateOf(p)) /\ PeerInv(q, StateOf(q))
    BY DEF NetInv
  <2>3. Held(StateOf(p)) = Held(StateOf(q))
    BY <2>1, <2>2
  <2>4. StateOf(p).admitted = StateOf(q).admitted
    BY <2>2, <2>3, HeldIsAdmitted
  <2>5. StateOf(p).backend = StateOf(q).backend
    BY <2>2, <2>4, ConfirmedIsApproved
  <2> QED BY <2>2, <2>3, <2>5, TrustIsConfirmed
<1> QED BY <1>1, NetworkInvariant, PTL

\* The guards of Ledger about the others' behaviour, Exists, exclude nothing
\* that happens among peers: what is advertised, and what is fetched, rests on
\* no record of this peer that it has not made.
THEOREM OthersRestOnWhatExists ==
  NetworkSpec => [](/\ \A r \in Circulating : Exists(r)
                    /\ \A r \in pending : Answered(r) => Exists(r))
<1>1. NetInv => /\ \A r \in Circulating : Exists(r)
                /\ \A r \in pending : Answered(r) => Exists(r)
  <2> SUFFICES ASSUME NetInv
               PROVE  /\ \A r \in Circulating : Exists(r)
                      /\ \A r \in pending : Answered(r) => Exists(r)
    OBVIOUS
  <2>1. Self \in Member /\ StateOf(Self).created = created
    BY SelfInv, LocalFields DEF NetInv
  <2>2. \A r : Vouched(r) => Exists(r)
    BY <2>1 DEF Vouched, Exists
  <2>3. \A r \in Circulating : Vouched(r)
    BY DEF NetInv
  <2> QED BY <2>2, <2>3, AnsweredVouched
<1> QED BY <1>1, NetworkInvariant, PTL
=============================================================================
