------------------------------- MODULE Ledger -------------------------------
(***************************************************************************)
(* One peer of a DLedger: LedgerImpl (src/src/ledger-impl.cpp) with its    *)
(* certificate manager and its database, in a network that may deliver any *)
(* sync Interest of a given set, answer a record Interest with the record  *)
(* or not at all, and do so in any order.                                  *)
(*                                                                         *)
(* The io_service runs one callback at a time, so an action is a callback; *)
(* only the loop of onFetchedRecord that empties the sync stack is several *)
(* actions, one per iteration, and nothing else happens between them.      *)
(***************************************************************************)
EXTENDS TailingRecords, Certificates, Sequences, SequencesExt

CONSTANTS
  Member,                \* the peers this may be
  Advert,                \* sync Interests the other peers may send
  AppRetrieves,          \* records m_onRecordAppRetrievalCheck accepts
  AppEndorses,           \* records m_onRecordAppEndorseCheck accepts
  ancestorFetchTimeout,
  clockSkewTolerance,
  MaxTime,               \* bound: the clock stops here
  MaxLosses,             \* bound: unanswered Interests
  MaxRestarts            \* bound: restarts of the process

SyncMessage == [sender : Peer, key : Key, certs : SUBSET Record, tips : SUBSET Record]

ASSUME LedgerAssumption ==
  /\ Member \subseteq Peer
  /\ \A p \in Member, g \in GenesisRecords : ProducerPrefix(g) \notin Under[p]
  /\ Advert \subseteq SyncMessage
  /\ AppRetrieves \subseteq Record
  /\ AppEndorses \subseteq Record
  /\ ancestorFetchTimeout \in Nat
  /\ clockSkewTolerance \in Nat

ASSUME BoundAssumption == MaxTime \in Nat /\ MaxLosses \in Nat /\ MaxRestarts \in Nat

\* Self never changes; it is a variable because Network lets each peer have its
\* turn.
VARIABLES
  Self,                 \* m_config.peerPrefix
  tailRecords,          \* m_tailRecords
  backend,              \* names in the database; survives a restart
  syncStack,            \* m_syncStack
  scan,                 \* the loop over m_syncStack: 0 when it does not run
  pending,              \* record names with an Interest outstanding
  replySync,            \* a reply to a sync Interest is scheduled
  lastCertRecords,      \* m_lastCertRecords
  peerCertificates,     \* tables of the certificate manager
  revokedCertificates,
  now,                  \* the clock
  losses, restarts,     \* count the bounded events
  created,              \* history: records createRecord reported as created
  admitted,             \* history: records added with endorseVerified
  timedOut,             \* history: records removed by removeTimeoutRecords
  fault                 \* undefined behaviour was reached

ledgerVars  == <<tailRecords, backend, lastCertRecords,
                 peerCertificates, revokedCertificates, admitted, timedOut, fault>>
fetchVars   == <<syncStack, scan, pending, replySync>>
countVars   == <<now, losses, restarts>>
vars        == <<Self, ledgerVars, fetchVars, countVars, created>>

Idle     == scan = [at |-> 0, stackSize |-> 0]
Stacked  == {syncStack[i].record : i \in DOMAIN syncStack}
Seen(r)  == SeenRecord(tailRecords, backend, r)

\* A record of this peer is in the network only after this peer made it, and
\* so is every record that names it, as a pointer or in a certificate chain.
Exists(r) == \A a \in RestsOn[r] : ProducerPrefix(a) = Self => a \in created

\* The constructor adds the genesis records to the tailing records.
GenesisTail(time) ==
  [g \in GenesisRecords |-> [parentEndorseVerified |-> TRUE, refSet |-> {},
                             recordEndorseVerified |-> TRUE, addedTime |-> time]]

Init ==
  /\ Self \in Member
  /\ tailRecords = GenesisTail(0)
  /\ backend = {}
  /\ syncStack = <<>>
  /\ scan = [at |-> 0, stackSize |-> 0]
  /\ pending = {}
  /\ replySync = FALSE
  /\ lastCertRecords = {}
  /\ peerCertificates = StartingCerts
  /\ revokedCertificates = {}
  /\ now = 0
  /\ losses = 0
  /\ restarts = 0
  /\ created = {}
  /\ admitted = GenesisRecords
  /\ timedOut = {}
  /\ fault = FALSE

(***************************************************************************)
(* addToTailingRecord(record, endorseVerified), with onRecordConfirmed for *)
(* each record it confirms: the record is stored, a certificate or         *)
(* revocation record is handed to the certificate manager.  The bound      *)
(* variables are the table after each part and the records updated.        *)
(*                                                                         *)
(* The database may fail to write a record; nothing looks at the result    *)
(* of putRecord.  unwritten are the records it fails to write; here it     *)
(* writes all, module Storage has the other cases.                         *)
(***************************************************************************)
OnRecordsConfirmed(R, unwritten) ==
  /\ backend' = backend \cup (R \ unwritten)
  /\ lastCertRecords' = LastCertsAfter(lastCertRecords, R)
  /\ peerCertificates' = CertsAfter(peerCertificates, revokedCertificates, R)
  /\ revokedCertificates' = RevokedAfter(revokedCertificates, R)

AddWriting(r, endorseVerified, unwritten) ==
  \E inserted \in {Inserted(tailRecords, r, endorseVerified, now)} :
  \E updated  \in {UpdatedRecords(inserted, r)} :
  \E weighed  \in {Weighed(inserted, r, updated)} :
  \E settled  \in {Settled(weighed, updated)} :
    /\ tailRecords' = RemoveTimeoutRecords(settled, now)
    /\ OnRecordsConfirmed(Confirmed(weighed, updated), unwritten)
    /\ admitted' = IF endorseVerified THEN admitted \cup {r} ELSE admitted
    /\ timedOut' = timedOut \cup (DOMAIN settled \ DOMAIN tailRecords')
    /\ fault' = NullDereference(weighed, r, updated)

AddToTailingRecord(r, endorseVerified) == AddWriting(r, endorseVerified, {})

(***************************************************************************)
(* createRecord.  A record this peer may make next is a member of Record   *)
(* that points to precedingRecordNum of the tailing records it may append  *)
(* to; shuffling makes every such choice possible.  A certificate record   *)
(* also names the heads of the certificate chains, and what else the       *)
(* caller has named (addPrevCertPointer): records it found in this ledger. *)
(***************************************************************************)
Appendable ==
  {p \in DOMAIN tailRecords :
     /\ Weight(tailRecords, p) <= appendWeight
     /\ ProducerPrefix(p) \notin Under[Self]
     /\ tailRecords[p].parentEndorseVerified}

CanCreate(r) ==
  /\ Idle /\ ~ fault
  /\ ProducerPrefix(r) = Self /\ Type(r) # "GENESIS_RECORD"
  /\ r \notin created
  /\ DOMAIN tailRecords # {}
  /\ AuthorizedToGenerate(peerCertificates, Self)
  /\ PointersFromHeader(r) \subseteq Appendable
  /\ PointerCountOK(r, precedingRecordNum)
  /\ Type(r) = "CERTIFICATE_RECORD" => lastCertRecords \subseteq PrevCertificates(r)
  /\ \A p \in PrevCertificates(r) \ lastCertRecords : HasRecord(tailRecords, backend, p)

CreateRecord(r) ==
  /\ CanCreate(r)
  /\ AddToTailingRecord(r, TRUE)
  /\ created' = created \cup {r}
  /\ UNCHANGED <<Self, fetchVars, countVars>>

(***************************************************************************)
(* onLedgerSyncRequest: unseen certificate records are fetched, and if     *)
(* there are any the rest of the message is not looked at; otherwise       *)
(* unseen tips are fetched, and a tip that is no tip here schedules a      *)
(* reply.  A reply scheduled before is cancelled either way.               *)
(***************************************************************************)
OnLedgerSyncRequest(m) ==
  LET certs       == {c \in m.certs : Type(c) = "CERTIFICATE_RECORD"}
      unseenCerts == {c \in certs : ~ Seen(c)}
      tailing(p)  == p \in DOMAIN tailRecords /\ tailRecords[p].refSet = {}
  IN  /\ Idle /\ ~ fault
      /\ \A p \in m.certs \cup m.tips : Exists(p)
      /\ VerifyInterest(peerCertificates, revokedCertificates, m)
      /\ IF unseenCerts # {}
           THEN /\ pending' = pending \cup unseenCerts
                /\ replySync' = FALSE
           ELSE /\ pending' = pending \cup {p \in m.tips : ~ Seen(p)}
                /\ replySync' = \E p \in m.tips : Seen(p) /\ ~ tailing(p)
      /\ UNCHANGED <<Self, ledgerVars, syncStack, scan, countVars, created>>

\* The scheduled reply is sent; the timer of the periodic one starts anew.
SendReplySync ==
  /\ Idle /\ ~ fault
  /\ replySync
  /\ replySync' = FALSE
  /\ UNCHANGED <<Self, ledgerVars, syncStack, scan, pending, countVars, created>>

(***************************************************************************)
(* onFetchedRecord: the record arrives.                                    *)
(***************************************************************************)
CheckSyntaxValidityOfRecord(r) ==
  /\ PointerCountOK(r, precedingRecordNum)
  /\ VerifySignature(peerCertificates, r)
  /\ GenerationTimestamp(r) <= now + clockSkewTolerance
  /\ \A p \in PointersFromHeader(r) : ProducerPrefix(p) # ProducerPrefix(r)
  /\ VerifyRecordFormat(r)
  /\ r \in AppRetrieves

CheckEndorseValidityOfRecord(r) ==
  /\ EndorseSignature(peerCertificates, revokedCertificates, r)
  /\ ContributionPolicy(tailRecords, r)
  /\ r \in AppEndorses

\* Mutant of StackRecord: what it names is not fetched.
StackWithoutFetching(r) ==
  /\ ~ Seen(r)
  /\ r \notin Stacked
  /\ Type(r) # "GENESIS_RECORD"
  /\ CheckSyntaxValidityOfRecord(r)
  /\ syncStack' = Append(syncStack, [record |-> r, addedTime |-> now])
  /\ pending' = pending \ {r}
  /\ scan' = IF \A p \in Named(r) : Seen(p) THEN [at |-> 1, stackSize |-> Len(syncStack) + 1]
             ELSE scan

\* It is new and well-formed: stack it and fetch what it names, or, when
\* everything it names has been seen, go over the stack.
StackRecord(r) ==
  LET unseen == {p \in Named(r) : ~ Seen(p)}
  IN  /\ ~ Seen(r)
      /\ r \notin Stacked
      /\ Type(r) # "GENESIS_RECORD"
      /\ CheckSyntaxValidityOfRecord(r)
      /\ syncStack' = Append(syncStack, [record |-> r, addedTime |-> now])
      /\ pending' = (pending \ {r}) \cup unseen
      /\ scan' = IF unseen = {} THEN [at |-> 1, stackSize |-> Len(syncStack) + 1]
                 ELSE scan

\* It is known, stacked already, a genesis record or badly formed.
DropRecord(r) ==
  /\ \/ Seen(r)
     \/ r \in Stacked
     \/ Type(r) = "GENESIS_RECORD"
     \/ ~ CheckSyntaxValidityOfRecord(r)
  /\ pending' = pending \ {r}
  /\ UNCHANGED <<syncStack, scan>>

OnFetchedRecord(r) ==
  /\ Idle /\ ~ fault
  /\ r \in pending
  /\ Exists(r)
  /\ StackRecord(r) \/ DropRecord(r)
  /\ UNCHANGED <<Self, ledgerVars, replySync, countVars, created>>

(***************************************************************************)
(* The loop over the sync stack, one record per step: a record whose       *)
(* ancestors are here is added (checkRecordAncestor), an old one is given  *)
(* up, any other is kept.  At the end of the stack the loop starts again   *)
(* if the stack has shrunk since it started.                               *)
(***************************************************************************)
AtRecord == scan.at \in DOMAIN syncStack
Current  == syncStack[scan.at].record

Overdue(entry) ==
  now - entry.addedTime > ancestorFetchTimeout \/ entry.addedTime - now > ancestorFetchTimeout

ScanAdd ==
  /\ ~ fault /\ AtRecord
  /\ Ready(tailRecords, backend, Current)
  /\ syncStack' = RemoveAt(syncStack, scan.at)
  /\ IF Current \in DOMAIN tailRecords
       THEN UNCHANGED ledgerVars
       ELSE AddToTailingRecord(Current, CheckEndorseValidityOfRecord(Current))
  /\ UNCHANGED <<Self, scan, pending, replySync, countVars, created>>

ScanExpire ==
  /\ ~ fault /\ AtRecord
  /\ ~ Ready(tailRecords, backend, Current)
  /\ Overdue(syncStack[scan.at])
  /\ syncStack' = RemoveAt(syncStack, scan.at)
  /\ UNCHANGED <<Self, ledgerVars, scan, pending, replySync, countVars, created>>

ScanKeep ==
  /\ ~ fault /\ AtRecord
  /\ ~ Ready(tailRecords, backend, Current)
  /\ ~ Overdue(syncStack[scan.at])
  /\ scan' = [scan EXCEPT !.at = @ + 1]
  /\ UNCHANGED <<Self, ledgerVars, syncStack, pending, replySync, countVars, created>>

\* Mutant of ScanEnd: one pass over the stack.
ScanOnce ==
  /\ ~ fault /\ ~ Idle
  /\ ~ AtRecord
  /\ scan' = [at |-> 0, stackSize |-> 0]
  /\ UNCHANGED <<Self, ledgerVars, syncStack, pending, replySync, countVars, created>>

ScanEnd ==
  /\ ~ fault /\ ~ Idle
  /\ ~ AtRecord
  /\ scan' = IF scan.stackSize # Len(syncStack)
               THEN [at |-> 1, stackSize |-> Len(syncStack)]
               ELSE [at |-> 0, stackSize |-> 0]
  /\ UNCHANGED <<Self, ledgerVars, syncStack, pending, replySync, countVars, created>>

Scan == ScanAdd \/ ScanExpire \/ ScanKeep \/ ScanEnd

(***************************************************************************)
(* The environment: an Interest stays unanswered (onTimeout and onNack     *)
(* only log it), time passes, the process restarts.                        *)
(***************************************************************************)
LoseInterest(r) ==
  /\ Idle /\ ~ fault
  /\ losses < MaxLosses
  /\ r \in pending
  /\ pending' = pending \ {r}
  /\ losses' = losses + 1
  /\ UNCHANGED <<Self, ledgerVars, syncStack, scan, replySync, now, restarts, created>>

Tick ==
  /\ Idle /\ ~ fault
  /\ now < MaxTime
  /\ now' = now + 1
  /\ UNCHANGED <<Self, ledgerVars, fetchVars, losses, restarts, created>>

\* What is in memory is gone; the database is opened again.
Reopen ==
  /\ restarts < MaxRestarts
  /\ restarts' = restarts + 1
  /\ tailRecords' = GenesisTail(now)
  /\ syncStack' = <<>>
  /\ scan' = [at |-> 0, stackSize |-> 0]
  /\ pending' = {}
  /\ replySync' = FALSE
  /\ lastCertRecords' = {}
  /\ peerCertificates' = StartingCerts
  /\ revokedCertificates' = {}

Restart ==
  /\ ~ fault
  /\ Reopen
  /\ UNCHANGED <<Self, backend, now, losses, created, admitted, timedOut, fault>>

Next ==
  \/ \E r \in Record : CreateRecord(r)
  \/ \E m \in Advert : OnLedgerSyncRequest(m)
  \/ SendReplySync
  \/ \E r \in pending : OnFetchedRecord(r)
  \/ Scan
  \/ \E r \in pending : LoseInterest(r)
  \/ Tick
  \/ Restart

Spec == Init /\ [][Next]_vars

(***************************************************************************)
(* Fairness: the loop of onFetchedRecord runs on; an answered Interest's   *)
(* callback runs, so that a record this peer does not have is not passed   *)
(* over for ever; every peer sends its sync Interest again and again       *)
(* (m_syncEventID, every syncInterval); time passes.                       *)
(***************************************************************************)
FetchNewRecord ==
  \E r \in pending : OnFetchedRecord(r) /\ Len(syncStack') > Len(syncStack)

Fairness ==
  /\ WF_vars(Scan)
  /\ WF_vars(FetchNewRecord)
  /\ \A m \in Advert : WF_vars(OnLedgerSyncRequest(m))
  /\ WF_vars(Tick)

FairSpec == Spec /\ Fairness
=============================================================================
