# DLedger in TLA+

DLedger is a distributed ledger for named data networks. Every peer keeps a DAG
of signed records; a new record points to `precedingRecordNum` earlier records of
other peers and thereby approves them and all they rest on. The *weight* of a
record is the number of peers that approved it directly or indirectly; a record
whose weight reaches `confirmWeight` is confirmed and stored in a database.
Peers multicast *sync Interests* that name the records without weight (the
tips), and fetch from each other what they have not seen. Who may sign what is
itself decided by records: certificate and revocation records take effect when
they are confirmed.

This directory holds specifications of that program, the instances TLC checks
and proofs for TLAPS. Paths such as `ledger-impl.cpp:553` are in `src/src/`,
`src/include/dledger/` or, for documents, `src/doc/`; `dfi-app/` is `src/dfi-app/`.

## 1. The system

| Component | State | Operations | Interacts with |
|---|---|---|---|
| Records, names (`record.cpp`, `record_name.cpp`) | none; a packet is immutable and named by its digest | decode, checks of the pointer list, producer, type, timestamp from the name | everything |
| Tailing records (`ledger-impl.cpp:553-704`) | `m_tailRecords`: name to weight, two verification flags, time added | `addToTailingRecord`, `onRecordConfirmed`, `removeTimeoutRecords` | backend, certificate manager, application callback |
| Creation (`ledger-impl.cpp:88-155`) | none of its own | `createRecord` | adds to the tailing records, sends a sync Interest |
| Synchronisation (`ledger-impl.cpp:227-261, 366-551`) | `m_syncStack`, two timers, `m_lastCertRecords`, outstanding Interests | `sendSyncInterest`, `onLedgerSyncRequest`, `fetchRecord`, `onFetchedRecord`, `checkRecordAncestor`, two validity checks, `onRecordRequest` | network, certificate manager, tailing records |
| Certificate manager (`default-cert-manager.cpp`) | `m_peerCertificates`, `m_revokedCertificates`, in memory only | four checks, `acceptRecord`, `authorizedToGenerate` | called by the ledger |
| Backend (`backend.cpp`) | LevelDB: name to packet | get, put, list | called by the ledger |
| Configuration | the parameters | - | - |
| DFI application (`dfi-app/dfi-ledger.cpp`) | records waiting to be processed, a code block | confirm callback, periodic processing, output records | ledger, function runner |
| Function runner (`dfi-app/dynamic-function-runner.cpp`) | a guest process and two pipes per call | argument, polls, callbacks, result, kill | application, guest process |
| First prototype (`app/peer.cpp`) | - | - | not built |

One `io_service` thread runs all callbacks of a peer one after the other, so
interleaving is at the granularity of a callback: sync Interests, fetched
records, timers and the application's calls in any order. Two things run beside
it: the other peers, and the guest process of a function that is being run.

What makes this hard:

- **Order.** Records arrive in any order; weights, confirmation and rejection
  must not depend on it more than the design says. One new record may confirm
  several others, and they are handled in the order of their names.
- **Pruned traversals.** The weight is maintained by a traversal that stops at
  records of the same producer, at records it has counted and at removed ones.
- **Two notions of "here".** `hasRecord` does not admit to a rejected record,
  `seenRecord` does; a dereference of an absent record hangs on the difference.
- **Time.** Unconfirmed records are removed with their descendants, at the end of
  every addition, even of the record just added.
- **Loss.** An Interest is sent once.
- **Restart.** The database survives; tailing records, certificate tables and
  chain heads do not. A crash may come between two writes of one addition, and a
  write may fail unnoticed.
- **Retries.** `createRecord` changes the caller's object before it can fail.
- **Two processes.** Host and guest share two pipes and no clock.
- **Late checks.** A record is checked when it arrives and again when its
  ancestors are there; certificates may be revoked in between.

What makes each part correct is stated in section 4; the hazards with the line
where each bites are in `PROJECT.json`.

## 2. Modules

    RecordDag <-- TailingRecords --+
        ^                          +--> Ledger <-- LedgerProperties <-- AddLoops <-- MCLedger
        +------ Certificates ------+                    ^  ^  ^
        |             ^                                 |  |  +-- Storage <-- MCStorage
        |             +-- CertManager                   |  +----- Network <-- MCNetwork
        +-- ReplicatedLedger                            +-------- MCLedgerCerts

    RecordBuilding <-- MCRecordBuilding
    FunctionRunner <-- DfiApplication <-- MCDfiApplication

    RecordDagProofs <-- LedgerProofs <-- NetworkProofs, StorageProofs

(an arrow points to what is extended by the module at its other end;
`LedgerProofs` extends `AddLoops` too.
`LedgerProperties`, `Network` and `StorageProofs` instantiate `ReplicatedLedger`
with a refinement mapping each. A module of proofs extends the module it is
named after, too.)

- **RecordDag** - a record is its full name; `Data` maps it to the fields the
  code decodes. A full name ends in a digest of the packet, so the content is a
  function of the name and no set of records can refer to each other in a
  circle (`HashDagAssumption`). A header with a repeated name is abstracted to a
  set of the wrong size: `checkPointerCount` refuses both.
- **TailingRecords** - `addToTailingRecord` as operators of the table `t` and
  the stored names `b`, one for each part: `Inserted` (561-575),
  `UpdatedRecords`/`Weighed` (577-600), `Confirmed`/`Settled` (602-618),
  `NullDereference` (589, 626), `RemoveTimeoutRecords` (677-704),
  `LastCertsAfter` (655-666). The explicit stack of the traversal and the
  rounds of the removal compute least sets and are stated as such, and the loop
  that confirms the updated records one at a time as a union; **AddLoops**
  has the three loops as the code runs them, as recursive functions of the number
  of rounds. What they compute is compared with the least sets in every state of
  two runs, and proved for every instance. Part 4 of
  the code (620-641), which would verify descendants of a record that becomes
  confirmed, has no effect but a dereference of an absent record: it looks for
  records with `parentEndorseVerified` false and calls `getRecord` for them,
  which returns nothing for just those. It is part of `NullDereference`, and it
  never runs (`ReferencesNeverNeedUpdate`).
- **Certificates** - the certificate manager's checks as operators of its two
  tables; **CertManager** - the manager as a state machine of its own, which
  accepts identity records in any order and restarts.
- **Ledger** - a peer: one action per callback.

  | Action | Code |
  |---|---|
  | `CreateRecord(r)` | `createRecord` when it succeeds: shuffling makes every choice of `precedingRecordNum` candidates possible |
  | `OnLedgerSyncRequest(m)` | a sync Interest with certificate heads and tips |
  | `SendReplySync` | the scheduled reply fires |
  | `OnFetchedRecord(r)` | the record arrives: `StackRecord` or `DropRecord` |
  | `ScanAdd`, `ScanExpire`, `ScanKeep`, `ScanEnd` | one iteration each of the loop over the sync stack (511-526); nothing else runs while `scan.at # 0` |
  | `LoseInterest(r)` | `onTimeout`, `onNack` |
  | `Tick`, `Restart` | the clock, the process ends and starts |

  `AddToTailingRecord` is the whole of `addToTailingRecord` with all it calls,
  in one step. `created`, `admitted` and `timedOut` are history, read by no
  guard but that of `CreateRecord` and of the network (a record of this peer
  exists only after it made it). `fault` records that undefined behaviour was
  reached.
- **LedgerProperties** - the properties, the refinement mapping of one peer and
  the inductive invariant.
- **ReplicatedLedger** - what the ledger promises, without its mechanism: each
  member has a growing set of verified records, each after what it points to and
  after its producer has it, and a growing set of confirmed ones, closed under
  pointers, each approved by `confirmWeight` members among what it has verified.
  `LedgerProperties` maps `verified` to `admitted` and `confirmed` to `backend`
  of one peer; `Network` does so for all peers.
- **Network** - several peers, each of them a `Ledger`. They share nothing, so one
  callback of one peer at a time is enough: the variables of `Ledger` hold the
  state of the peer whose turn it is, `Self`, and the others' wait in `waiting`.
  That is why `Self` is a variable of `Ledger`, which no step of `Ledger` changes,
  and `Member` the constant set of the peers it may be: what is proved of a step of
  one peer is then a fact about a step of the network, without an instance of
  `Ledger` per peer. `sent` holds every sync Interest ever sent: each reaches a
  peer any number of times, late or never. An Interest for a record leads to its
  producer (`onRecordRequest`), or to a forwarder that has seen the packet
  (`cached`); a lost one stays pending.
- **Storage** - `Ledger` over a database that fails. In `ScanAddUnwritten` and
  `CreateUnwritten` `putRecord` fails for any of the records an addition confirms
  (its result is ignored, 653), and the peer goes on; `Crash` ends the process
  between two writes of one addition, when a prefix of the confirmed records *in
  the order of their names* has been handed to `putRecord` (`Handed`), which may
  have failed for any of them, and starts it again.
- **RecordBuilding** - one `Record` object and a caller that passes it to
  `createRecord` any number of times. The actions are the ways a call can end:
  `RefuseAtOnce` (92-97), `RefuseForTail` (117, after the KeyLocators were added),
  `Raise` (the object is built and refuses changes, `record.cpp:45, 66`), `Link`
  with or without a signature (124-154). Between two calls the ledger moves on.
- **FunctionRunner** - `run_wasi_module`: host and guest as two processes. An
  action of the host is what happens between two system calls that may block or
  whose result depends on the guest; a message reaches the pipe in one piece or in
  two; `buffered` is the stdio buffer, which `poll` does not see. The guest does
  what the C guests of `dfi-app/` do, at any speed, and may trap at any point,
  in the middle of a message too: with an error it ends at once, without one its
  pipes are closed first (312-318). `host = "dead"` is the end of the whole process (a
  failed assertion, which a block of no bytes leads to as well, `exit` in `compile`, a
  write to a pipe nobody reads).
- **DfiApplication** - the callback for confirmed records, the periodic batch, the
  output record and its retry, over the runner. It runs in the ledger's thread:
  nothing is confirmed while a batch is processed. A data record with more than three
  items overflows `inputs` (`dfi-ledger.cpp:45`), which may end the process or not; one
  with fewer is processed with what was on the stack, and of a result one byte is
  kept (56): `FirstByte` says which bytes that may be.
- **MC...** - instances.

Environment of a single peer: the others may send any sync Interest of the set
`Advert`, and answer an Interest with the one packet that has the name, or not at
all. (In `Network` they are peers, and send what they have.) What
the application's two check callbacks accept are constant sets.

## 3. Runs

Every ledger instance uses two genesis records, `precedingRecordNum = 2` and a handful
of records among three to five producers, chosen so that weights 0 to 3 occur,
several records are confirmed at once, a record comes too late for the
contribution policy, another is built on it, and this peer's own records
compete with them. Weights above 3 add nothing: the code compares with
`appendWeight`, `contributionWeight` and `confirmWeight` only, and each is
passed on both sides. `MaxTime`, `MaxLosses`, `MaxRestarts` bound the clock,
the lost Interests and the restarts; with `blockConfirmationTimeout = 1`, four
clock values let a record be added, time out, be added again, and a confirmed
one grow older than the timeout. `CHECK_DEADLOCK FALSE` is set in the ledger
runs because the instance has finitely many records: when all are known and the
clock has reached its bound, nothing is left to do. (A sync Interest with nothing
new does not change the state.) In `MCRecordBuilding` the attempts are used up or
an exception has left `createRecord`; in `MCDfiApplication` the process may be dead
and its restarts used up.

| Run | Instance | Shows |
|---|---|---|
| `MCLedger` | 12 records, default weights, no time | weights, confirmation, rejection, the sync stack and the tips in every order of arrival and creation; the traversal loop |
| `MCLedgerTimed` | 6 records, 4 clock values, one restart | timeouts, expiry of stacked records, the inductive invariant, the meaning of a stored record after a restart; the removal loop; one peer implements the replicated ledger |
| `MCLedgerCerts` | 16 records that issue, revoke, renew certificates, one loss | endorsement follows the confirmed certificates; chain heads |
| `MCCatchUp` | 7 records, fair, no loss | the peer catches up |
| `MCNetwork` | 3 peers, each with one record on top of the earlier ones, the first of which issues a certificate; a revocation that is not its maker's to make and two records on it; one restart, of a peer that approves what is confirmed | the peers implement the replicated ledger; persistence, authority of what is confirmed, findability, agreement on records, confirmation and certificates |
| `MCStorage` | 8 records, `confirmWeight = 3`, one restart or crash, two failed writes, one after the other or of one addition, also together with the crash | what is left when the database fails |
| `MCRecordBuilding` | 3 tail records, 2 certificate records, 3 attempts | one Record object over several attempts |
| `MCCertManager` | 12 records, three of them badly formed, one of these made by this peer, 6 certificates | the tables in every order of acceptance |
| `MCDfiApplication` | 6 records, one with too few items, one with too many, one that holds no numbers; 6 guest scripts, 3 polls, one restart | host and guest; what keeps a batch from ending |

In `MCNetwork` the confirmations need records of all three peers, so each of them
confirms after hearing from the others; `MaxSent` bounds the different sync Interests
in the network before a timer adds another: with 6 there are those from the start,
those with the records of the chain and those that tell what a peer has learned, in
any order and in place of each other. In `MCStorage` two writes may fail while the
process runs and one crash may happen, so that an addition may lose two records, and
a hole be followed by a second one and by a traversal over it. Three polls instead of 200
let a guest answer at the first, at a later one and at none. Three attempts let an
object be refused for want of tailing records or stay unsigned twice and then be
built, or be built and come back; the proofs are for any number of them. In
`MCDfiApplication` a batch is one record instead of five, so that two waiting
records are already more than a batch.

The other three runs each exhibit one disagreement between the code and what is
said of it, listed in section 6.

## 4. Properties

Safety of the DAG: `NoNullDereference` (no absent record is dereferenced),
`WeightIsApprovals` (the weight maintained by the pruned traversal is the number
of approving peers, by its definition over the whole history), `ConfirmedAtK`
(stored if and only if `confirmWeight` peers approved), `ConfirmedByK` (the half
of it that survives losses, timeouts and restarts), `AncestorsConfirmed` (the
database is closed under pointers), `RejectedIsolated`, `WeightMonotone`,
`NoOrphans`, and the action property `ConfirmedLeaveDeep`.

The loops: `TraversalIsLeastSet` and `RemovalIsLeastSet`.

Refinement: `ImplementsLedger` (one peer) and `ImplementsReplicatedLedger` (the
network). Of the network also `Persistence` (`requirement.md:17`: what a peer has
confirmed, `confirmWeight` peers besides the producer hold, in the database or among
the tailing records, but for those of them that have verified it and since restarted
or timed records out), `ChangesAuthorized` (a confirmed record issues only what the
anchor issued and revokes only what belongs to its producer, or it is the anchor's:
`acceptRecord` does not look, and a peer may have badly formed records of its own, but
the others give them no approvals), `Findable` (the
producer, whom alone an Interest reaches, still has what was advertised and all it
rests on) and `SilenceMeansAgreement` (two peers that hold each other's tips hold
the same records, have confirmed the same ones and trust the same certificates;
the heads of the chains may differ, for a record confirmed before one it names
leaves that one a head).

Failing storage: `HolesAreLost` (a record lacks a parent only if the write of that
parent failed or was cut off), `FaultOnlyAfterFailedWrite` (a crash alone never
leads to a dereference of an absent record; a failed write does, once the record has
left the tailing records and is fetched again and rejected, and TLC reaches it),
`ConfirmedAtKOrUnwritten`, `ConfirmedByK`.

Building a record: `PublishedOnce`, `TakenIfSignedAtOnce` (a record whose first
signature failed gets more pointers than configured when it is tried again; this
peer adds it, all others refuse it), `LinksAllHeads`.

Function runner and application: `NothingOverlooked`, `NoticedResultReturned`,
`NoRunaway`, and the liveness property `BatchEnds`.

Four more statements are proved and are in no run's configuration:
`VerdictsAreFinal` (while a record is tailing its verdict stands, its approvals are
kept, and a step adds one at most, so that the test `weight == confirmWeight` is
not stepped over), `ReferencesNeedNoUpdate`, `ScanTerminates` (a measure of the
loop over the sync stack) and `BatchAdvances` (one of a batch of the application).

Safety of synchronisation: `StackBlocked` (no record that could be added is left
in the stack), `TipsCoverLedger` (the advertised tips are enough to find all that
is here), `ChainsCoverCertificates` (the same for certificate chains).

Safety of endorsement: `EndorsedByLiveCertificate`, `ConfirmedChangesEffective`;
of the certificate manager: `EffectiveCertificates` (independence of the order).

Liveness: `CatchesUp`, under `FairSpec`. Weak fairness of `Scan`: a callback's
loop runs to its end. Of `FetchNewRecord`: an answer that has arrived is handed
to its callback, and not only answers that are thrown away. Of each
`OnLedgerSyncRequest(m)`: every peer repeats its sync Interest each
`syncInterval` (`ledger-impl.cpp:257-259`), the same one as long as it adds
nothing, which is what "if no new records are added" supposes. Of `Tick`: time
passes. Nothing obliges `CreateRecord`, `SendReplySync` or a restart.

`BatchEnds`, under the `FairSpec` of `DfiApplication`: weak fairness of the host's
thread, which does nothing else in the meantime, and of nothing else. The guest may be
slow, stop or never end, and a batch ends all the same unless a guest stops in the
middle of a message: then the host, which reads whole fields, waits for ever
(`dynamic-function-runner.cpp:463-475`), and the limit of 200 polls does not help.
The property names this as the one exception.

`WeightIsApprovals`, `ConfirmedAtK` and `TipsCoverLedger` are stated for
executions without restart and without timeouts, which forget approvals by
design; `ConfirmedLeaveDeep`, `ChainsCoverCertificates` and
`EndorsedByLiveCertificate` for executions without restart (after one, genesis
records are tailing and stored at once, and the tables are those of the
configuration).

## 5. Proofs

Proved by TLAPS for any number of peers, records, certificates, any weights and
any bounds, from the named assumptions of the modules:

- `RecordDagProofs`: `NoCycles`, and that `AncestorsOf`, a recursive function
  over the DAG, is defined and closed (`AncestorsEquation`, `AncestorsClosed`).
- `LedgerProofs`, one peer. First, for each part of `addToTailingRecord`, what it
  does to a table that satisfies `TailInv`. Then `LedgerInvariant`
  (`Spec => []LedgerInv`) and from it `LedgerTypeCorrect`, `NeverNullDereference`,
  `ConfirmedByKAlways`, `DatabaseClosed`, `NoOrphansAlways`,
  `WeightMonotoneAlways`, `RejectedIsolatedAlways`, `ConfirmedLeaveDeepAlways`;
  with `ScanInv`, `StackBlockedAlways`; with `CountingInv`,
  `WeightIsApprovalsAlways`, `ConfirmedAtKAlways`, `TipsCoverLedgerAlways`; with
  `CertInv`, `ChainsCoverCertificatesAlways`,
  `ConfirmedChangesEffectiveUntilRestart`, `EndorsedByLiveCertificateAlways`;
  `LedgerImplementsReplicatedLedger` (`Spec => ImplementsLedger`); of the loops
  `TraversalIsLeastSetAlways`, `RemovalIsLeastSetAlways`, `AdditionsRunTheLoops`,
  `ReferencesNeverNeedUpdate`, `ScanAlwaysTerminates`; and `VerdictsNeverChange`.
- `ReplicatedLedgerProofs`: `ReplicatedTypeCorrect`, `PersistentAlways`.
- `NetworkProofs`, several peers: `NetworkInvariant` (`NetworkSpec => []NetInv`),
  `NetworkImplementsReplicatedLedger`, `NetworkPersistence`,
  `NetworkChangesAuthorized`, `NetworkFindable`, `NetworkSilence`,
  `OthersRestOnWhatExists`.
- `StorageProofs`, a database that fails: `StorageInvariant`,
  `HolesAreLostAlways`, `FaultOnlyAfterFailedWriteAlways`, `StoredByKAlways`,
  `ConfirmedAtKOrUnwrittenAlways`, `ConfirmedImplementReplicatedLedger`.
- `RecordBuildingProofs`: `BuildInvariant`, `PublishedOnceAlways`,
  `TakenIfSignedAtOnceAlways`; `ObjectInvariant`, `BuildTypeCorrect`,
  `LinksAllHeadsAlways`.
- `CertManagerProofs`: `CertManagerTypeCorrect`, `EffectiveCertificatesAlways`.
- `DfiApplicationProofs`, application and function runner: `DfiInvariant`,
  `DfiTypeCorrect`, `NothingOverlookedAlways`, `NoticedResultReturnedAlways`,
  `NoRunawayAlways`, `BatchAdvancesAlways`.

The argument. None of the safety properties is inductive. That the traversal
meets no unverified record needs that rejected records are leaves, which needs
that a record is added only when its parents are verified or stored, which needs
that a record removed from the table is stored if anything still points to it.
For that, a record may leave only if it has weight `removeWeight >= confirmWeight`
(then it is stored) or is removed with its descendants; that the parents of a
stored record are stored needs that a parent of a tailing record is at least as
heavy, up to producers that are equal. `Approves(t, c)` says this exactly: an
endorsed record's approvals, without its parent's producer and with its own,
are approvals of the parent. It is enough, because a parent has another producer
than its child (`Interlocked`, the interlock policy): removing one producer and
adding one leaves no fewer. `Approves` holds after `Weighed` only because the
traversal is closed, and fails inside the operation, where the new record's
producer has not been added yet: hence `LinkInv`, which holds in between, and
`TailInv`. After a restart the genesis records are back in the table with weight
0 though they may be stored; `StoredHeavy`, on which `ConfirmedLeaveDeep` rests,
is therefore limited to executions without restart, and nothing else uses it.
`StackInv` and `OwnAreCreated` say that what will be added is new and
interlocked; `ApprovalInv` ties weights to the history.

*The loop over the sync stack* (`ScanInv`). The records before the one the loop is
at wait for something, unless one was removed since the loop started; then it
starts again. Between two callbacks no wait ends, because what a stacked record
names could become seen only by an addition, and an addition outside the loop is
of a record this peer makes now, while what is stacked was made before
(`Exists`).

*Exact weights* (`CountingInv`). `ApprovalInv` says that what is counted is an
approval. That none is missed needs to know that the traversal, which stops at
records that counted the producer before, at those of the producer itself and at
those that are gone, does not stop too early. So consider, after it, the admitted
records that, if they are tailing, have counted the producer or are its own. They
include the parents of the new record, and are closed under pointers, hence they
include all its ancestors: a tailing record approves its parents and so do its
approvers (`Approves`), and a record that is gone has no tailing parents, for these
were at least as heavy as it and no heavy record is kept (`LightTails`, the last
part of `ExactInv`). `ConfirmedAtK` follows, and `TipsCoverLedger`: the newest
admitted record above a given one has no approvals, so it is tailing and a tip.

*Certificates* (`CertInv`). An addition may confirm several certificate records and
hands them over in the order of their names, and a head of the chains is dropped
when a confirmed record that is not handed over before it names it. Of the heads
and new records from which a given certificate record is reached, one is the newest
(pointers form no cycle); no confirmed record names it, so it stays
a head. The tables hold what the configuration and confirmed records issued, and
what the latter revoked is marked as revoked; until a restart the converse holds
too, and the certificates in effect are a function of the confirmed records.

*The loops of an addition.* What is defined round by round is a recursive function
on the naturals. That such a function exists, and what holds after each of its rounds,
is shown by an induction stated for sets of numbers (`NatSetInduction`, `Iterates`,
`IterationExists` in `RecordDagProofs`). The traversal: what is counted
was open in the table it started from and is reachable, what is not on the stack
any more has no open parents, and each round takes a record off the stack that was
pushed once only, since it was open when it was pushed and is not any more; so
there are no more rounds than records. The loop over the updated records: the
weight of one of them is changed by no other, so each is confirmed by the weight it
has after the traversal; and after each round the database, the heads and the tables
are those of the records done so far confirmed together, where `LastCertsAfter` and
`CertsAfter` hold the order of the names that a head dropped later or a certificate
revoked earlier depends on (`ConfirmStepInv`). The removal: after `n` rounds what is gone and what is to go are
late or descend from what is. `AdditionsRunTheLoops` puts the three together: in every
run, each addition of the model is one of the code's loops. The theorems about
additions are therefore about them.

*That loops end.* The loop over the sync stack begins again when a pass has removed
something. `StepsLeft` is quadratic in the stack, larger by a pass when
something was removed since it began, and an iteration makes it smaller. In the
application a step of the host's thread takes a record out of the batch or takes the
call one place on, and going back to `poll` takes one of the polls (`CallLeft`). Under
fairness these measures are why `Scan` ends, and the batch if the thread is not kept
in `fread`; that a fair behaviour gets there stays with TLC (`CatchesUp`, `BatchEnds`).

*Verdicts.* An addition changes of the records already tailing only their approvals, by the
producer of the new record: hence one at most.

*The refinements.* That of one peer needs `LedgerInv` and little more: an addition
admits one record whose parents were admitted before, and the records it confirms
are approved (`ApprovalInv`) and have stored parents (`TailInv`); every other step leaves
`admitted` and `backend` alone. Persistence follows in the abstract ledger, from
an invariant that says that a verified record's ancestors are verified by the same
member and, by induction over steps and not over the DAG, by the record's
producer: whoever approves a record holds it.

*The network.* `NetInv` says that each peer satisfies `LedgerInv`, `CountingInv`, `CertInv` and
`TipsCoverLedger`, by the lemmas of `LedgerProofs` for the peer whose turn it is,
and because nothing changes for the others; to pass the turn, all of this is also
stated of a record of a state (`PeerInv`). What connects the peers is `Vouched`:
whatever one of them has admitted, stacked or been sent rests only on records their
makers have created. `createRecord` keeps it because it links to admitted records;
an answer because it comes from the producer or a forwarder. With it, the condition
of `Verify` that the producer has the record holds, and the peers together
implement `ReplicatedLedger`. `NetworkPersistence` carries `PersistentAlways` over:
that gives `confirmWeight` peers that have verified the record, and one that neither
restarted nor timed anything out still has what it verified. The same fact discharges what `Ledger` assumes of its environment: its guards
`Exists` exclude nothing that happens among peers (`OthersRestOnWhatExists`).
`NetworkSilence`: with the same records two peers count the same approvals
(`CountingInv`), so they have confirmed the same ones, and the certificates in effect
follow from these (`TrustFollowsLedger`), each peer's part of `CertInv`.
`NetworkChangesAuthorized`: what a peer has taken in or stacked and is another's passed
`verifyRecordFormat` (`FormatInv`), and a confirmed record has an approver besides its
producer, who has checked what the producer need not have.

*Failing storage.* The tables themselves have no simple invariant once a write has
failed: a record that was not written and has left the tailing records is fetched
again, judged again, and may be rejected while its children are still tailing.
But `Known`, the stored records and the lost ones, is closed under pointers, and
with `Known` in the place of the stored ones and taken out of the table, all is as
if no write had failed: from a known record the traversal reaches known records
only, and of the others it reaches what it would have reached. `StorageInv` is
`TailInv` of these two. Of the table and the database as they are, only `LinkInv`
holds, and only as long as no write of the running process has failed: a crash
leaves a database that is not closed under pointers, but starts a new table. In the
same sense the peer still implements `ReplicatedLedger`, with `confirmed` mapped to
`Known`.

*The function runner.* `DfiInv` lists, for each place of the guest, what can be in
the pipes and the stdio buffer: nothing, half a message or a whole one, of the call
it is about, with the argument it was given (`MessageInv`, `InputInv`); and of the
host, that it keeps in its buffer half a message at most and only while it waits
for the rest (`HostInv`).

In `RecordBuilding` the number of pointers remembers what happened: an object that
is not built has none until signing has failed once and at least
`precedingRecordNum` ever after, since the loop adds a pointer before it looks at
the number. So the first link gives exactly as many as configured, and any later
one more.

The assumptions are those of the code: pointers form no cycle (digests), names
are ordered, a peer's prefix is not a prefix of `/genesis`, `appendWeight <=
contributionWeight` (checked by the constructor), `confirmWeight > 0` and
`precedingRecordNum > 0` (not checked by the code; the defaults are 2).

Only the liveness properties `CatchesUp` and `BatchEnds`, which are out of the
prover's reach, are no more than model-checked. Every invariant, action property and
refinement that a passing run checks has a theorem; three of them say something less
or more than the run does: `ConfirmedChangesEffectiveUntilRestart` excludes restarts,
of which the instance of its run has none and for which the property is false
(`MCRevocationRestart`); `LedgerImplementsReplicatedLedger` and
`ConfirmedImplementReplicatedLedger` are about a peer that is the only one in
`Member`, as in the runs; the last has no run of its own.

## 6. Where code and documents disagree

Each is a run that TLC ends with a counterexample; the quotations are in
`PROJECT.json`.

- `MCNetworkQuiet`: eventual consistency (`requirement.md:25`) fails without any
  loss, timeout or restart. A record is too deep or not by the weight of its
  parents when it arrives (`ledger-impl.cpp:342-354`); one peer holds it, another
  has rejected it and never asks again.
- `MCRevocationRestart`: confirmed revocations are not in effect after a restart
  (`spec.md:73`).
- `MCDfiOutput`: the output record of a batch has no items
  (`dfi-app/dfi-ledger.cpp:88-95` builds blocks and drops them), so the callback
  for a confirmed output record (135-140) takes nothing from the waiting records,
  and they are processed again and again.

Other behaviour that a reader of the code may not expect, met while modelling
and listed with the hazards where it bites:

- One lost Interest for an ancestor is not repeated: `onTimeout` only logs, and
  the record that waits for it keeps a second copy out (457-462).
- After a restart what was built on confirmed records is rejected as too deep.
- A record that timed out can be fetched again and confirmed, where `spec.md:155`
  calls it invalid; `createRecord` may report a record that the timeout removed
  within the same call; genesis records time out and are then asked for and
  refused.
- A peer whose name is a prefix of the others' names (the anchor of
  `test/ledger-impl-test-anchor.cpp` is `/dledger`, the others are
  `/dledger/test-a` and so on) takes their records for its own and builds on
  genesis records only, where `spec.md:137` leaves out its own.
- `authorizedToGenerate` does not look at revocations (`cert-manager.hpp:58`).
- A failed write is noticed by nobody; once the record is heavy enough to leave
  the tailing records, the peer does not have it. When others still advertise it, it is
  fetched again and may be rejected, and then a traversal that comes to it
  dereferences `nullopt` (589).
- A peer keeps what it has approved, but has not confirmed itself, in memory only. When
  approvers restart, a record that is confirmed elsewhere may be held by fewer than
  `confirmWeight` peers besides its producer: `Persistence` without its exception is
  violated in `MCNetwork`.
- `spec.md:154` asks for more than k entities, `spec.md:101` for k or more; the code
  (607) and `ConfirmedAtK` follow the latter.
- A failed signature makes the next attempt with the same object produce a record
  that only its producer accepts.
- A guest that gives no result ends the application: the result is read through
  the null pointer of an empty vector (`dfi-app/dfi-ledger.cpp:56`). Of one that gives
  a result, four bytes in the guests of `dfi-app/`, the first byte is kept.
- `inputs` has room for three items (`dfi-app/dfi-ledger.cpp:45`); a confirmed record
  with more overflows it, one with fewer leaves it uninitialised in part.
- The comment "2 second wait total" (`dfi-app/dynamic-function-runner.cpp:342`) holds
  for a guest that writes whole messages only: a guest that stops in the middle of one
  keeps the ledger's thread for ever.

## 7. What is abstracted, and what is not modelled

- Outstanding Interests are a set: two for the same name are one. Their answers
  would be the same packet, the second of which is always dropped.
- In a sync Interest the certificates come before the tips, as
  `sendSyncInterest` writes them; the loop of `onLedgerSyncRequest` passes over
  tips only after an unseen certificate.
- Time is a bounded counter; `addedTime` and timestamps are in its units.
- In `Ledger` `createRecord` succeeds or changes nothing, `putRecord` succeeds and
  the process does not end in the middle of a callback; `RecordBuilding` and
  `Storage` are about what is left out there. That they are not in one module keeps
  each small: a record built by a retry is refused by the syntax check of every
  other peer, so it never meets the rest of the ledger but in the producer's own.
- In `Network` time stands still, and the one revocation of its instance is never
  confirmed: timeouts, and revocations in effect, are checked with one peer in an
  environment that does more than other peers would. The theorems about `Network` are
  for any certificate and revocation records.
- `createRecord` adds the heads of the certificate chains to those the application has
  named (`addPrevCertPointer`); what it may name is any record this peer has.
- In `DfiApplication` the ledger confirms records in any order; the retry through
  dangling references (100) may end the process or do nothing. What a function
  computes is left out: a result is named by its argument until its first byte is
  taken. Writes of the ledger's database do not fail here. Of the host, `fork` and `pipe`
  succeed; zombies and descriptors are not counted.
- The modules and programs the function runner runs inside its own process
  (`run_module`, `run_program`) are calls of wasmtime without state of their own.
- `Backend::listRecord` and `deleteRecord`: the first changes no state and turns on
  the spelling of names, which are model values here; the second is never called.
- The application's callbacks have no effect on the ledger; `onRecordRequest`,
  `getRecord` and `listRecord` change no state.
- Certificate expiry (looked at in the manager's constructor only), encoding,
  logging, prefix registration, the command line program, and `app/peer.cpp`,
  which is not built.

## 8. Plan

Done: every module of section 2, with their runs and the proofs of section 5.

Next, in this order:

1. **Network with time** - peers whose records time out at different moments, and
   an instance whose revocations are confirmed in different orders.
2. **Callbacks** - an application that calls `createRecord` from the callback for
   confirmed records, inside the loop over the updated ones (673).
3. **Names** - the order of URIs and the prefix scan of `listRecord`.
