------------------------------ MODULE AddLoops ------------------------------
(***************************************************************************)
(* The loops of addToTailingRecord and removeTimeoutRecords as the code    *)
(* runs them, round by round, next to the sets that TailingRecords,        *)
(* Certificates and Ledger state for what they compute.                    *)
(***************************************************************************)
EXTENDS LedgerProperties

\* One round of the loop over the stack of the traversal: the record on top is
\* taken off, its parents that are counted now are pushed.
TraversalStep(r, s) ==
  IF s.stack = <<>> THEN s
  ELSE LET current == Head(s.stack)
           counted == IF Type(current) = "GENESIS_RECORD" THEN {}
                      ELSE PointersFromHeader(current) \cap Open(s.table, r)
       IN  [table   |-> Weighed(s.table, r, counted),
            stack   |-> SetToSeq(counted) \o Tail(s.stack),
            updated |-> s.updated \cup counted]

\* The table, the stack and the updated records after each round, for the
\* record r just inserted in t.
Traversal(t, r) ==
  LET start == [table   |-> t,
                stack   |-> IF t[r].recordEndorseVerified THEN <<r>> ELSE <<>>,
                updated |-> {}]
      after[n \in Nat] == IF n = 0 THEN start ELSE TraversalStep(r, after[n - 1])
  IN  after

\* One round of the loop over the updated records, in the order of their names:
\* the next one is confirmed if its weight is confirmWeight just now, with all
\* onRecordConfirmed does, and removed if it is deep enough.
ConfirmStep(s) ==
  IF s.rest = {} THEN s
  ELSE LET x == CHOOSE y \in s.rest : \A z \in s.rest : NameOrder[y] <= NameOrder[z]
           R == Confirmed(s.table, {x})
       IN  [rest    |-> s.rest \ {x},
            table   |-> Settled(s.table, {x}),
            stored  |-> s.stored \cup R,
            heads   |-> (s.heads \cup {c \in R : Type(c) = "CERTIFICATE_RECORD"})
                          \ UNION {PrevCertificates(c) : c \in R},
            certs   |-> s.certs \cup ((UNION {Certificates(c) : c \in R}) \ s.revoked),
            revoked |-> s.revoked \cup UNION {RevokedCertificates(c) : c \in R}]

ConfirmRounds(start) ==
  LET after[n \in Nat] == IF n = 0 THEN start ELSE ConfirmStep(after[n - 1])
  IN  after

\* One round of removeTimeoutRecords: a set of records is removed, the next one
\* is their children.
RemovalRound(s) ==
  LET rest == DOMAIN s.table \ s.timeoutList
  IN  [table       |-> [x \in rest |-> s.table[x]],
       timeoutList |-> {x \in rest : PointersFromHeader(x) \cap s.timeoutList # {}}]

\* The table and the records to be removed from it after each round.
RemovalRounds(t, time) ==
  LET start == [table |-> t, timeoutList |-> TimedOut(t, time)]
      after[n \in Nat] == IF n = 0 THEN start ELSE RemovalRound(after[n - 1])
  IN  after

\* addToTailingRecord, one loop after the other, each run to its end.
AddByLoops(r, endorseVerified) ==
  LET inserted  == Inserted(tailRecords, r, endorseVerified, now)
      traversed == Traversal(inserted, r)[Cardinality(DOMAIN inserted)]
      confirmed == ConfirmRounds([rest |-> traversed.updated, table |-> traversed.table,
                                  stored |-> backend, heads |-> lastCertRecords,
                                  certs |-> peerCertificates, revoked |-> revokedCertificates])
                     [Cardinality(traversed.updated)]
      removed   == RemovalRounds(confirmed.table, now)[Cardinality(DOMAIN confirmed.table)]
  IN  /\ tailRecords' = removed.table
      /\ backend' = confirmed.stored
      /\ lastCertRecords' = confirmed.heads
      /\ peerCertificates' = confirmed.certs
      /\ revokedCertificates' = confirmed.revoked
      /\ admitted' = IF endorseVerified THEN admitted \cup {r} ELSE admitted
      /\ timedOut' = timedOut \cup (DOMAIN confirmed.table \ DOMAIN removed.table)
      /\ fault' = NullDereference(traversed.table, r, traversed.updated)

-----------------------------------------------------------------------------
\* The record that the next step may add, and whether it is endorsed.
MayAdd(r, endorseVerified) ==
  \/ CanCreate(r) /\ endorseVerified
  \/ /\ AtRecord /\ r = Current
     /\ Ready(tailRecords, backend, r)
     /\ endorseVerified = CheckEndorseValidityOfRecord(r)

\* The traversal (ledger-impl.cpp:576-600) stops where the producer has been
\* counted before, and still counts it for everything it should.  It pushes no
\* record twice: it has ended after as many rounds as there are records.
TraversalIsLeastSet ==
  \A r \in Record \ DOMAIN tailRecords, endorseVerified \in BOOLEAN :
    MayAdd(r, endorseVerified) =>
      LET inserted == Inserted(tailRecords, r, endorseVerified, now)
          ended    == Traversal(inserted, r)[Cardinality(DOMAIN inserted)]
      IN  /\ ended.stack = <<>>
          /\ ended.updated = UpdatedRecords(inserted, r)
          /\ ended.table = Weighed(inserted, r, ended.updated)

\* referenceNeedUpdate after the loop over the updated records (603-609): a
\* record that was not verified is confirmed.
ReferenceNeedUpdate(r, endorseVerified) ==
  LET inserted == Inserted(tailRecords, r, endorseVerified, now)
      updated  == UpdatedRecords(inserted, r)
      weighed  == Weighed(inserted, r, updated)
  IN  \E x \in Confirmed(weighed, updated) : ~ weighed[x].parentEndorseVerified

\* No addition verifies a record that was rejected before: a rejected record
\* gets no approvals, so it is never confirmed, and the loop that would verify
\* the records after it (ledger-impl.cpp:620-641) never runs.
ReferencesNeedNoUpdate ==
  \A r \in Record, endorseVerified \in BOOLEAN :
    MayAdd(r, endorseVerified) => ~ ReferenceNeedUpdate(r, endorseVerified)

\* Round by round removeTimeoutRecords (ledger-impl.cpp:689-703) removes all
\* descendants of a late record among the tailing records, and no other.  It
\* has ended after as many rounds as there are records.
RemovalIsLeastSet ==
  LET ended == RemovalRounds(tailRecords, now)[Cardinality(DOMAIN tailRecords)]
  IN  /\ ended.timeoutList = {}
      /\ ended.table = RemoveTimeoutRecords(tailRecords, now)
=============================================================================
