------------------------------ MODULE Network ------------------------------
(***************************************************************************)
(* Several peers of a DLedger: each is a Ledger, and what they receive is  *)
(* what the others send.  A sync Interest reaches each peer any number of  *)
(* times, or not at all, and after others that were sent later.  An        *)
(* Interest for a record goes to its producer (the prefix it has           *)
(* registered), or a forwarder answers with a packet it has seen before.   *)
(*                                                                         *)
(* Peers share nothing, so one callback of one peer at a time is enough.   *)
(* The variables of Ledger hold the state of the peer whose turn it is,    *)
(* Self; the states of the others wait in "waiting".  Time stands still; a *)
(* lost Interest for a record is one that stays pending, for asking for    *)
(* the record again changes nothing.                                       *)
(***************************************************************************)
EXTENDS LedgerProperties

CONSTANTS
  SigningKey,            \* member -> the key it signs with
  MayRestart,            \* bound: peers that may restart, MaxRestarts times each
  MaxSent                \* bound: sync Interests that no new record causes

ASSUME NetworkAssumption ==
  /\ SigningKey \in [Member -> Key]
  /\ MayRestart \subseteq Member
  /\ MaxSent \in Nat

VARIABLES
  waiting,   \* [Member \ {Self} -> the states of the others]
  sent,      \* sync Interests sent so far
  cached     \* records that were fetched so far

Local ==
  [tailRecords |-> tailRecords, backend |-> backend, syncStack |-> syncStack,
   scan |-> scan, pending |-> pending, replySync |-> replySync,
   lastCertRecords |-> lastCertRecords, peerCertificates |-> peerCertificates,
   revokedCertificates |-> revokedCertificates, now |-> now, losses |-> losses,
   restarts |-> restarts, created |-> created, admitted |-> admitted,
   timedOut |-> timedOut, fault |-> fault]

networkVars == <<vars, waiting, sent, cached>>

StateOf(p) == IF p = Self THEN Local ELSE waiting[p]

SyncInterest(p, t, heads) ==
  [sender |-> p, key |-> SigningKey[p], certs |-> heads, tips |-> SyncTips(t)]

\* The constructor sends one.
NetworkInit ==
  /\ Init
  /\ waiting = [p \in Member \ {Self} |-> Local]
  /\ sent = {SyncInterest(p, tailRecords, lastCertRecords) : p \in Member}
  /\ cached = {}

-----------------------------------------------------------------------------
Create(r) ==
  /\ CreateRecord(r)
  /\ sent' = sent \cup {SyncInterest(Self, tailRecords', lastCertRecords')}
  /\ UNCHANGED cached

\* The timer of the periodic sync Interest, or of a reply.
Send ==
  /\ Idle /\ ~ fault
  /\ Cardinality(sent) < MaxSent
  /\ UNCHANGED vars \/ SendReplySync
  /\ sent' = sent \cup {SyncInterest(Self, tailRecords, lastCertRecords)}
  /\ UNCHANGED cached

Receive(m) ==
  /\ m.sender # Self
  /\ OnLedgerSyncRequest(m)
  /\ UNCHANGED <<sent, cached>>

\* onRecordRequest of the producer answers with what getRecord returns.
Answered(r) ==
  \/ r \in cached
  \/ \E q \in Member \cap {ProducerPrefix(r)} :
       HasRecord(StateOf(q).tailRecords, StateOf(q).backend, r)

Fetch(r) ==
  /\ Answered(r)
  /\ OnFetchedRecord(r)
  /\ cached' = cached \cup {r}
  /\ UNCHANGED sent

ScanStack ==
  /\ Scan
  /\ UNCHANGED <<sent, cached>>

\* The constructor sends a sync Interest.
RestartPeer ==
  /\ Self \in MayRestart
  /\ Restart
  /\ sent' = sent \cup {SyncInterest(Self, tailRecords', lastCertRecords')}
  /\ UNCHANGED cached

\* Nothing happens; the next callback is one of p.
Turn(p) ==
  /\ p # Self /\ Idle
  /\ Self' = p
  /\ waiting' = [q \in Member \ {p} |-> StateOf(q)]
  /\ tailRecords' = waiting[p].tailRecords
  /\ backend' = waiting[p].backend
  /\ syncStack' = waiting[p].syncStack
  /\ scan' = waiting[p].scan
  /\ pending' = waiting[p].pending
  /\ replySync' = waiting[p].replySync
  /\ lastCertRecords' = waiting[p].lastCertRecords
  /\ peerCertificates' = waiting[p].peerCertificates
  /\ revokedCertificates' = waiting[p].revokedCertificates
  /\ now' = waiting[p].now
  /\ losses' = waiting[p].losses
  /\ restarts' = waiting[p].restarts
  /\ created' = waiting[p].created
  /\ admitted' = waiting[p].admitted
  /\ timedOut' = waiting[p].timedOut
  /\ fault' = waiting[p].fault
  /\ UNCHANGED <<sent, cached>>

Callback ==
  \/ \E r \in Record : Create(r)
  \/ Send
  \/ \E m \in sent : Receive(m)
  \/ \E r \in pending : Fetch(r)
  \/ ScanStack
  \/ RestartPeer

NetworkNext ==
  \/ Callback /\ UNCHANGED waiting
  \/ \E p \in Member : Turn(p)

NetworkSpec == NetworkInit /\ [][NetworkNext]_networkVars

-----------------------------------------------------------------------------
(***************************************************************************)
(* The records a peer has verified so far and those in its database are    *)
(* what the replicated ledger promises (ReplicatedLedger, which says what  *)
(* that is), whatever is lost, late or out of order and whoever restarts.  *)
(***************************************************************************)
Replicated == INSTANCE ReplicatedLedger
  WITH verified  <- [p \in Member |-> StateOf(p).admitted],
       confirmed <- [p \in Member |-> StateOf(p).backend]

ImplementsReplicatedLedger == Replicated!Spec

\* What getRecord returns in the state s, and whether a restart or a timeout has
\* taken anything from it.
Held(s) == {x \in DOMAIN s.tailRecords : s.tailRecords[x].parentEndorseVerified} \cup s.backend
UndisturbedIn(s) == s.restarts = 0 /\ s.timedOut = {}

\* "Persistence" (doc/requirement.md:17): a record in the database of one peer
\* is held by confirmWeight besides its producer, but for those of them that
\* have verified it and then lost what they had not stored.  The peer that
\* confirms it has only seen records of the others.
Keepers(r) ==
  {q \in Member \ {ProducerPrefix(r)} :
     LET s == StateOf(q)
     IN  r \in Held(s) \/ (r \in s.admitted /\ ~ UndisturbedIn(s))}

Persistence ==
  (\A r \in Record \ GenesisRecords : ProducerPrefix(r) \in Member) =>
    \A p \in Member : \A r \in StateOf(p).backend : Cardinality(Keepers(r)) >= confirmWeight

\* A certificate is filed only if the anchor issued it, and revoked only by the
\* anchor or its owner, although acceptRecord looks at neither and createRecord
\* lets a peer put a badly formed record into its own ledger: the others do not
\* take it in (ledger-impl.cpp:300), so none approves it and nobody confirms it.
ChangesAuthorized ==
  (\A r \in Record \ GenesisRecords : ProducerPrefix(r) \in Member) =>
    \A p \in Member : \A r \in StateOf(p).backend :
      /\ \A cert \in Certificates(r) : CertInfo[cert].issuedByAnchor
      /\ \A cert \in RevokedCertificates(r) :
           ProducerPrefix(r) \in {AnchorIdentity, Identity(cert)}

\* What was advertised can be fetched, with all it rests on, although just
\* one peer is asked for each record and it may have removed the record from
\* its tailing records (ledger-impl.cpp:425, 440): until it restarts, or its
\* records time out, a producer has every record it made.
Circulating == UNION {m.certs \cup m.tips : m \in sent}

Findable ==
  \A r \in Circulating : \A x \in AncestorsOf[r] \cup {r} :
    \A q \in Member \cap {ProducerPrefix(x)} :
      LET s == StateOf(q)
      IN  UndisturbedIn(s) => HasRecord(s.tailRecords, s.backend, x)

\* Two peers that have verified each other's tips hold the same records, have
\* confirmed the same ones and trust the same certificates, in whatever order
\* each got them and whatever it has removed or rejected: a round of sync
\* Interests (ledger-impl.cpp:241-244) compares the whole ledgers.
SilenceMeansAgreement ==
  \A p, q \in Member :
    LET s == StateOf(p)
        t == StateOf(q)
    IN  /\ UndisturbedIn(s) /\ UndisturbedIn(t)
        /\ SyncTips(s.tailRecords) \subseteq Held(t)
        /\ SyncTips(t.tailRecords) \subseteq Held(s)
        => /\ Held(s) = Held(t)
           /\ s.backend = t.backend
           /\ s.peerCertificates \ s.revokedCertificates = t.peerCertificates \ t.revokedCertificates

\* doc/requirement.md:25, "All records will be eventally replicated to all
\* peers if no new records are added": when all that was advertised has been
\* seen and nothing is asked for or waits in a stack, all peers hold the same.
\* Another sync Interest would change nothing.
QuietMeansConsistent ==
  (\A p \in Member :
     LET s == StateOf(p)
     IN  /\ s.restarts = 0 /\ s.scan.at = 0
         /\ s.pending = {} /\ s.syncStack = <<>>
         /\ \A r \in Circulating : SeenRecord(s.tailRecords, s.backend, r))
  => \A p, q \in Member : Held(StateOf(p)) = Held(StateOf(q))
=============================================================================
