--------------------------- MODULE TailingRecords ---------------------------
(***************************************************************************)
(* The tailing records of a peer: LedgerImpl::addToTailingRecord and what  *)
(* it calls (src/src/ledger-impl.cpp:553-704), as operators of             *)
(*   t - m_tailRecords, a function from some of the records to their       *)
(*       TailingRecordState                                                *)
(*   b - the names stored in m_backend                                     *)
(* The loops of the code compute least sets; they are stated as such.      *)
(***************************************************************************)
EXTENDS RecordDag

CONSTANTS
  precedingRecordNum,        \* pointers of a record
  appendWeight,              \* highest weight this peer appends to
  contributionWeight,        \* highest weight others may append to
  confirmWeight,             \* weight at which a record is confirmed
  blockConfirmationTimeout   \* longest time a record may stay unconfirmed

\* The constructor refuses appendWeight > contributionWeight (ledger-impl.cpp:47).
\* It refuses neither confirmWeight = 0, with which no record would be
\* confirmed, nor precedingRecordNum = 0, with which createRecord adds every
\* candidate: it compares after it has added a pointer (ledger-impl.cpp:124-128).
ASSUME WeightAssumption ==
  /\ precedingRecordNum \in Nat \ {0}
  /\ appendWeight \in Nat
  /\ contributionWeight \in Nat
  /\ appendWeight <= contributionWeight
  /\ confirmWeight \in Nat \ {0}
  /\ blockConfirmationTimeout \in Nat

TailingRecordState ==
  [parentEndorseVerified : BOOLEAN,   \* it and its ancestors are good to endorse
   refSet                : SUBSET Peer,
   recordEndorseVerified : BOOLEAN,   \* it is good to endorse
   addedTime             : Nat]

Weight(t, r) == Cardinality(t[r].refSet)

\* hasRecord does not admit to a rejected record, seenRecord does.
HasRecord(t, b, r) ==
  IF r \in DOMAIN t THEN t[r].parentEndorseVerified ELSE r \in b

SeenRecord(t, b, r) == r \in DOMAIN t \/ r \in b

\* Mutant of Ready: content with parents that were seen, rejected or not.
ReadyIfSeen(t, b, r) ==
  \A p \in PointersFromHeader(r) \cup PrevCertificates(r) : SeenRecord(t, b, p)

\* checkRecordAncestor: may the record be taken from the sync stack?
Ready(t, b, r) ==
  /\ \A p \in PointersFromHeader(r) : HasRecord(t, b, p)
  /\ \A c \in PrevCertificates(r) : SeenRecord(t, b, c)

\* Step 7 of checkEndorseValidityOfRecord: every pointer is to a tailing
\* record that may still be contributed to.
ContributionPolicy(t, r) ==
  \A p \in PointersFromHeader(r) :
     /\ p \in DOMAIN t
     /\ Weight(t, p) <= contributionWeight

\* The names sendSyncInterest advertises.
SyncTips(t) == {r \in DOMAIN t : t[r].parentEndorseVerified /\ t[r].refSet = {}}

(***************************************************************************)
(* addToTailingRecord, part 1: insert the record.                          *)
(***************************************************************************)
\* Mutant of Inserted: a record counts its own producer.
InsertedSelfApproved(t, r, endorseVerified, now) ==
  [x \in DOMAIN t \cup {r} |->
     IF x # r THEN t[x]
     ELSE [parentEndorseVerified |-> endorseVerified,
           refSet                |-> {ProducerPrefix(r)},
           recordEndorseVerified |-> endorseVerified,
           addedTime             |-> now]]

Inserted(t, r, endorseVerified, now) ==
  [x \in DOMAIN t \cup {r} |->
     IF x # r THEN t[x]
     ELSE [parentEndorseVerified |->
             /\ endorseVerified
             /\ \A p \in PointersFromHeader(r) \cap DOMAIN t : t[p].parentEndorseVerified,
           refSet                |-> {},
           recordEndorseVerified |-> endorseVerified,
           addedTime             |-> now]]

(***************************************************************************)
(* Part 2: the weight.  From an endorsed record r the traversal reaches,   *)
(* along pointers, every tailing record of another producer that r's       *)
(* producer had not reached before; it goes no further where one is missed.*)
(***************************************************************************)
Open(t, r) ==
  {p \in DOMAIN t : /\ ProducerPrefix(p) # ProducerPrefix(r)
                    /\ ProducerPrefix(r) \notin t[p].refSet}

\* Mutant of TraversalClosed: only the pointers of r itself are followed.
TraversalOneLevel(open, r, S) == PointersFromHeader(r) \cap open \subseteq S

TraversalClosed(open, r, S) ==
  \A x \in S \cup {r} : PointersFromHeader(x) \cap open \subseteq S

\* Mutant of UpdatedRecords: a record approves its ancestors though rejected.
UpdatedByAnyRecord(t, r) ==
  LET open       == Open(t, r)
      closedSets == {S \in SUBSET open : TraversalClosed(open, r, S)}
  IN  {x \in open : \A S \in closedSets : x \in S}

UpdatedRecords(t, r) ==
  LET open       == Open(t, r)
      closedSets == {S \in SUBSET open : TraversalClosed(open, r, S)}
  IN  IF t[r].recordEndorseVerified
        THEN {x \in open : \A S \in closedSets : x \in S}
        ELSE {}

Weighed(t, r, U) ==
  [x \in DOMAIN t |->
     IF x \in U THEN [t[x] EXCEPT !.refSet = @ \cup {ProducerPrefix(r)}] ELSE t[x]]

(***************************************************************************)
(* Part 3: of the updated records U, confirm those whose weight has just   *)
(* become confirmWeight and remove those that are deep enough.             *)
(***************************************************************************)
\* Mutant of removeWeight: removes records before they can be confirmed.
removeWeightTooLow == contributionWeight + 1

removeWeight ==
  IF contributionWeight + 1 > confirmWeight THEN contributionWeight + 1 ELSE confirmWeight

\* Mutants of Confirmed: one approval too many, one too few.
ConfirmedAboveK(t, U) == {x \in U : Weight(t, x) > confirmWeight}
ConfirmedBelowK(t, U) == {x \in U : Weight(t, x) >= confirmWeight - 1}

Confirmed(t, U) == {x \in U : Weight(t, x) = confirmWeight}

Settled(t, U) ==
  [x \in DOMAIN t \ {y \in U : Weight(t, y) >= removeWeight} |->
     IF x \in U /\ Weight(t, x) = confirmWeight
       THEN [t[x] EXCEPT !.parentEndorseVerified = TRUE]
       ELSE t[x]]

(***************************************************************************)
(* Where the code dereferences *getRecord(...), getRecord must not return  *)
(* nullopt, as it does for a record that is tailing but not verified.  The *)
(* traversal does so for r and the records it updates (line 589).  Part 4, *)
(* which would verify the descendants of a confirmed record, does so for   *)
(* just the records it is about (line 626): the loop has no effect but     *)
(* that dereference.  t is the table after part 2.                         *)
(***************************************************************************)
NullDereference(t, r, U) ==
  \/ /\ t[r].recordEndorseVerified
     /\ \E x \in U \cup {r} : /\ Type(x) # "GENESIS_RECORD"
                              /\ ~ t[x].parentEndorseVerified
  \/ /\ \E x \in Confirmed(t, U) : ~ t[x].parentEndorseVerified
     /\ \E x \in DOMAIN Settled(t, U) :
           /\ ~ Settled(t, U)[x].parentEndorseVerified
           /\ t[x].recordEndorseVerified

(***************************************************************************)
(* Part 5, removeTimeoutRecords: the records unconfirmed for too long go,  *)
(* and with them their descendants among the tailing records.              *)
(***************************************************************************)
\* Mutant of TimedOut: confirmed records time out too.
TimedOutAnyWeight(t, now) ==
  {x \in DOMAIN t : t[x].addedTime < now - blockConfirmationTimeout}

TimedOut(t, now) ==
  {x \in DOMAIN t : /\ Weight(t, x) < confirmWeight
                    /\ t[x].addedTime < now - blockConfirmationTimeout}

\* Mutant of RemovalClosed: children of a removed record stay.
RemovalOfOne(t, S) == TRUE

RemovalClosed(t, S) ==
  \A x \in DOMAIN t : PointersFromHeader(x) \cap S # {} => x \in S

Removed(t, now) ==
  LET late       == TimedOut(t, now)
      closedSets == {S \in SUBSET DOMAIN t : late \subseteq S /\ RemovalClosed(t, S)}
  IN  {x \in DOMAIN t : \A S \in closedSets : x \in S}

RemoveTimeoutRecords(t, now) ==
  IF TimedOut(t, now) = {} THEN t
  ELSE [x \in DOMAIN t \ Removed(t, now) |-> t[x]]

\* Mutant of LastCertsAfter: the newest certificate records replace all heads.
LastCertsReplaced(last, R) ==
  LET new == {r \in R : Type(r) = "CERTIFICATE_RECORD"}
  IN  IF new = {} THEN last ELSE new

(***************************************************************************)
(* onRecordConfirmed keeps the heads of the certificate chains: a          *)
(* certificate record is added and the ones it names are removed, for the  *)
(* records of R one by one in the order of their names.  A record          *)
(* confirmed before the one it names does not remove it.                   *)
(***************************************************************************)
LastCertsAfter(last, R) ==
  {c \in last \cup {r \in R : Type(r) = "CERTIFICATE_RECORD"} :
     ~ \E d \in R : /\ c \in PrevCertificates(d)
                    /\ c \in R => NameOrder[c] <= NameOrder[d]}

-----------------------------------------------------------------------------
(***************************************************************************)
(* What addToTailingRecord relies on and keeps of the tailing records t    *)
(* and the stored records b.  LinkInv: a rejected record is a leaf without *)
(* weight; a record has its parents in t or b; a heavy record is stored.   *)
(* TailInv: also, an endorsed record approves its parents, and so do its   *)
(* approvers; the stored records are closed under pointers.                *)
(***************************************************************************)
Interlocked(r) == \A p \in PointersFromHeader(r) : ProducerPrefix(p) # ProducerPrefix(r)

Approves(t, c) ==
  \A p \in PointersFromHeader(c) \cap DOMAIN t :
     t[c].recordEndorseVerified =>
       (t[c].refSet \ {ProducerPrefix(p)}) \cup {ProducerPrefix(c)} \subseteq t[p].refSet

LinkInv(t, b) ==
  /\ \A r \in DOMAIN t :
       /\ t[r].parentEndorseVerified = t[r].recordEndorseVerified
       /\ ~ t[r].recordEndorseVerified => t[r].refSet = {} /\ r \notin b
       /\ ProducerPrefix(r) \notin t[r].refSet
       /\ Interlocked(r)
       /\ PointersFromHeader(r) \subseteq DOMAIN t \cup b
       /\ Weight(t, r) >= confirmWeight => r \in b
  /\ \A c \in DOMAIN t : \A p \in PointersFromHeader(c) \cap DOMAIN t :
       t[p].recordEndorseVerified

TailInv(t, b) ==
  /\ LinkInv(t, b)
  /\ \A c \in DOMAIN t : Approves(t, c)
  /\ \A r \in b : PointersFromHeader(r) \subseteq b
=============================================================================
