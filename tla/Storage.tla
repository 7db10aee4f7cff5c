------------------------------ MODULE Storage ------------------------------
(***************************************************************************)
(* The database of a peer when it fails.  addToTailingRecord hands the     *)
(* records it confirms to Backend::putRecord one by one, in the order of   *)
(* their names; each write may fail, which onRecordConfirmed does not      *)
(* notice (ledger-impl.cpp:653), and the process may end between two of    *)
(* them, whether those before succeeded or not.                            *)
(***************************************************************************)
EXTENDS LedgerProperties

CONSTANT MaxUnwritten    \* bound: records whose write fails while the process runs

ASSUME StorageAssumption == MaxUnwritten \in Nat

VARIABLES
  unwritten,   \* records confirmed, but not written, since the process started
  lost         \* history: all records that were confirmed but not written

storageVars == <<vars, unwritten, lost>>

StorageInit == Init /\ unwritten = {} /\ lost = {}

\* The records an addition confirms, to be written in the order of their names.
ConfirmedNow(r, endorseVerified) ==
  LET inserted == Inserted(tailRecords, r, endorseVerified, now)
      updated  == UpdatedRecords(inserted, r)
  IN  Confirmed(Weighed(inserted, r, updated), updated)

(***************************************************************************)
(* putRecord returns false for the records W of an addition, be it one or  *)
(* several; the peer goes on as if it had them.                            *)
(***************************************************************************)
MayFail(W) == Cardinality(unwritten \cup W) <= MaxUnwritten

Unwritten(W) ==
  /\ W # {} /\ MayFail(W)
  /\ unwritten' = unwritten \cup W
  /\ lost' = lost \cup W

CreateUnwritten(r) ==
  /\ CanCreate(r)
  /\ \E W \in SUBSET ConfirmedNow(r, TRUE) : AddWriting(r, TRUE, W) /\ Unwritten(W)
  /\ created' = created \cup {r}
  /\ UNCHANGED <<Self, fetchVars, countVars>>

CanScanAdd ==
  /\ ~ fault /\ AtRecord
  /\ Ready(tailRecords, backend, Current)
  /\ Current \notin DOMAIN tailRecords

ScanAddUnwritten ==
  /\ CanScanAdd
  /\ LET endorsed == CheckEndorseValidityOfRecord(Current)
     IN  \E W \in SUBSET ConfirmedNow(Current, endorsed) :
           AddWriting(Current, endorsed, W) /\ Unwritten(W)
  /\ syncStack' = RemoveAt(syncStack, scan.at)
  /\ UNCHANGED <<Self, scan, pending, replySync, countVars, created>>

(***************************************************************************)
(* The process ends while the records R that the addition of r confirms    *)
(* are written, and is started again.  Those up to some name were handed   *)
(* to putRecord, which had failed for any of them.  A record being created *)
(* was not given to anybody.                                               *)
(***************************************************************************)
Handed(R, H) ==
  /\ H \subseteq R
  /\ \A x \in H, y \in R \ H : NameOrder[x] < NameOrder[y]

Crash(r, endorseVerified) ==
  LET R == ConfirmedNow(r, endorseVerified)
  IN  /\ R # {}
      /\ Reopen
      /\ \E H \in SUBSET R : Handed(R, H) /\
           \E F \in SUBSET H :
             /\ MayFail(F)
             /\ backend' = backend \cup (H \ F)
             /\ lost' = lost \cup (R \ (H \ F))
      /\ unwritten' = {}
      /\ admitted' = admitted \cup {r}
      /\ UNCHANGED <<Self, now, losses, created, timedOut, fault>>

\* A restart otherwise, and every other step of the peer.
WritesSucceed ==
  /\ Next
  /\ lost' = lost
  /\ unwritten' = IF restarts' = restarts THEN unwritten ELSE {}

StorageNext ==
  \/ WritesSucceed
  \/ \E r \in Record : CreateUnwritten(r)
  \/ ScanAddUnwritten
  \/ \E r \in Record : CanCreate(r) /\ Crash(r, TRUE)
  \/ CanScanAdd /\ Crash(Current, CheckEndorseValidityOfRecord(Current))

StorageSpec == StorageInit /\ [][StorageNext]_storageVars

-----------------------------------------------------------------------------
\* A record lacks a parent only if that parent was confirmed and not written:
\* whatever fails, neither the database nor the tailing records have other
\* holes.
HolesAreLost ==
  /\ \A r \in backend : PointersFromHeader(r) \subseteq backend \cup lost
  /\ \A r \in DOMAIN tailRecords :
       PointersFromHeader(r) \subseteq DOMAIN tailRecords \cup backend \cup lost

\* A crash between two writes does no more harm than the holes it leaves: only
\* a peer that goes on after a failed write dereferences nullopt in the
\* traversal of addToTailingRecord (ledger-impl.cpp:589).
FaultOnlyAfterFailedWrite == fault => unwritten # {}

\* Until then what is stored or was not written is what k peers approved.
ConfirmedAtKOrUnwritten ==
  Undisturbed =>
    backend \cup unwritten = {r \in admitted : Cardinality(Approvals(r)) >= confirmWeight}
=============================================================================
