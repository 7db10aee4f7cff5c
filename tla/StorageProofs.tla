---------------------------- MODULE StorageProofs ----------------------------
(***************************************************************************)
(* What the database of a peer holds after writes that failed and crashes  *)
(* between two of them.                                                    *)
(*                                                                         *)
(* The tables alone have no simple invariant then.  A record that was not  *)
(* written and has left the tailing records is fetched again, judged       *)
(* again, and may now be rejected while its children are still tailing.    *)
(* But if one counts it among the stored records, and takes what is known  *)
(* to be confirmed out of the tailing records, all is as if no write had   *)
(* ever failed.                                                            *)
(***************************************************************************)
EXTENDS Storage, LedgerProofs

\* Everything that was ever confirmed.
Known == backend \cup lost

Without(t, Q) == [x \in DOMAIN t \ Q |-> t[x]]

LEMMA WithoutTable ==
  ASSUME NEW t, NEW Q
  PROVE  /\ DOMAIN Without(t, Q) = DOMAIN t \ Q
         /\ \A x \in DOMAIN t \ Q : Without(t, Q)[x] = t[x]
         /\ TableOK(t) => TableOK(Without(t, Q))
  BY DEF Without, TableOK

-----------------------------------------------------------------------------
(***************************************************************************)
(* Adding a record.                                                        *)
(***************************************************************************)

\* From a record known to be confirmed the traversal reaches such records
\* only: with a record its ancestors are known.
LEMMA KnownReachesKnown ==
  ASSUME NEW t, NEW K, Closed(K), NEW r \in K
  PROVE  UpdatedRecords(t, r) \subseteq K
<1> DEFINE S == Open(t, r) \cap K
<1>1. TraversalClosed(Open(t, r), r, S)
  BY DEF TraversalClosed, Closed
<1>2. S \in SUBSET Open(t, r)
  OBVIOUS
<1> HIDE DEF S
<1>3. UpdatedRecords(t, r) \subseteq S
  BY <1>1, <1>2, UpdatedFacts
<1> QED BY <1>3 DEF S

LEMMA KnownAdded ==
  ASSUME NEW t, TableOK(t), NEW K \in SUBSET Record, TailInv(Without(t, K), K),
         NEW r \in K, r \notin DOMAIN t, NEW e \in BOOLEAN, NEW time \in Nat
  PROVE  LET i == Inserted(t, r, e, time)
             U == UpdatedRecords(i, r)
             w == Weighed(i, r, U)
         IN  TailInv(Without(w, K), K \cup Confirmed(w, U))
<1> DEFINE i == Inserted(t, r, e, time)
           U == UpdatedRecords(i, r)
           w == Weighed(i, r, U)
           C == Confirmed(w, U)
<1>1. Closed(K)
  BY LinkInvParts
<1>2. U \subseteq K
  BY <1>1, KnownReachesKnown
<1>3. DOMAIN i = DOMAIN t \cup {r} /\ \A x \in DOMAIN t : i[x] = t[x]
  BY DEF Inserted
<1>4. /\ DOMAIN w = DOMAIN i
      /\ \A x \in DOMAIN i : x \notin U => w[x] = i[x]
  BY DEF Weighed
<1>5. C \subseteq U
  BY DEF Confirmed
<1> HIDE DEF i, U, w, C
<1>6. Without(w, K) = Without(t, K)
  <2>1. DOMAIN w \ K = DOMAIN t \ K
    BY <1>3, <1>4
  <2>2. \A x \in DOMAIN t \ K : w[x] = t[x]
    BY <1>2, <1>3, <1>4
  <2> QED BY <2>1, <2>2 DEF Without
<1>7. K \cup C = K
  BY <1>2, <1>5
<1>8. TailInv(Without(w, K), K \cup C)
  BY <1>6, <1>7
<1> QED BY <1>8 DEF i, U, w, C

\* What the traversal updates of the records not known to be confirmed is what
\* it would update if the known ones were no longer tailing.
LEMMA UpdatedWithout ==
  ASSUME NEW i, NEW K, Closed(K), NEW r \in DOMAIN i, r \notin K
  PROVE  UpdatedRecords(Without(i, K), r) = UpdatedRecords(i, r) \ K
<1> DEFINE v == Without(i, K)
           U == UpdatedRecords(i, r)
           V == UpdatedRecords(v, r)
           open == Open(i, r)
<1>1. DOMAIN v = DOMAIN i \ K /\ \A x \in DOMAIN v : v[x] = i[x]
  BY DEF Without
<1> HIDE DEF v
<1>2. Open(v, r) = open \ K
  BY <1>1 DEF Open
<1>3. v[r].recordEndorseVerified <=> i[r].recordEndorseVerified
  BY <1>1
<1>4. CASE ~ i[r].recordEndorseVerified
  <2>1. U = {}
    BY <1>4, UpdatedFacts
  <2>2. V = {}
    BY <1>3, <1>4, UpdatedFacts
  <2> HIDE DEF U, V
  <2> QED BY <2>1, <2>2 DEF U, V, v
<1>5. CASE i[r].recordEndorseVerified
  <2> HIDE DEF U, V, open
  <2>1. /\ U \subseteq open /\ TraversalClosed(open, r, U)
        /\ \A S \in SUBSET open : TraversalClosed(open, r, S) => U \subseteq S
    BY <1>5, UpdatedFacts DEF U, open
  <2>2. /\ V \subseteq open \ K /\ TraversalClosed(open \ K, r, V)
        /\ \A S \in SUBSET (open \ K) : TraversalClosed(open \ K, r, S) => V \subseteq S
    BY <1>2, <1>3, <1>5, UpdatedFacts DEF V
  <2>3. TraversalClosed(open \ K, r, U \ K)
    BY <2>1 DEF TraversalClosed
  <2>4. V \subseteq U \ K
    BY <2>1, <2>2, <2>3
  <2>5. TraversalClosed(open, r, V \cup (open \cap K))
    BY <2>2 DEF TraversalClosed, Closed
  <2>6. U \subseteq V \cup (open \cap K)
    <3>1. V \cup (open \cap K) \in SUBSET open
      BY <2>2
    <3> QED BY <2>1, <2>5, <3>1
  <2> QED BY <2>4, <2>6 DEF U, V, v
<1> QED BY <1>4, <1>5 DEF v

LEMMA WeighedWithout ==
  ASSUME NEW i, NEW K, NEW r, NEW U, U \subseteq DOMAIN i
  PROVE  Without(Weighed(i, r, U), K) = Weighed(Without(i, K), r, U \ K)
<1> DEFINE v == Without(i, K)
           w == Weighed(i, r, U)
<1>1. DOMAIN v = DOMAIN i \ K /\ \A x \in DOMAIN v : v[x] = i[x]
  BY DEF Without
<1>2. w = [x \in DOMAIN i |->
             IF x \in U THEN [i[x] EXCEPT !.refSet = @ \cup {ProducerPrefix(r)}] ELSE i[x]]
  BY DEF Weighed
<1>3. Weighed(v, r, U \ K) = [x \in DOMAIN v |->
         IF x \in U \ K THEN [v[x] EXCEPT !.refSet = @ \cup {ProducerPrefix(r)}] ELSE v[x]]
  BY DEF Weighed
<1>4. Without(w, K) = [x \in DOMAIN w \ K |-> w[x]]
  BY DEF Without
<1> HIDE DEF v, w
<1>5. DOMAIN w = DOMAIN i
  BY <1>2
<1>6. \A x \in DOMAIN i \ K : w[x] =
         IF x \in U \ K THEN [v[x] EXCEPT !.refSet = @ \cup {ProducerPrefix(r)}] ELSE v[x]
  BY <1>1, <1>2
<1>7. Without(w, K) = Weighed(v, r, U \ K)
  BY <1>1, <1>3, <1>4, <1>5, <1>6
<1> QED BY <1>7 DEF v, w

LEMMA InsertedWithout ==
  ASSUME NEW t, NEW K, NEW r, r \notin K, NEW e \in BOOLEAN, NEW time,
         \A p \in PointersFromHeader(r) \cap DOMAIN t : t[p].parentEndorseVerified
  PROVE  Without(Inserted(t, r, e, time), K) = Inserted(Without(t, K), r, e, time)
<1> DEFINE v == Without(t, K)
           i == Inserted(t, r, e, time)
           new == [parentEndorseVerified |-> e, refSet |-> {},
                   recordEndorseVerified |-> e, addedTime |-> time]
<1>1. DOMAIN v = DOMAIN t \ K /\ \A x \in DOMAIN v : v[x] = t[x]
  BY DEF Without
<1> HIDE DEF v
<1>2. i = [x \in DOMAIN t \cup {r} |-> IF x # r THEN t[x] ELSE new]
  <2>1. (/\ e
         /\ \A p \in PointersFromHeader(r) \cap DOMAIN t : t[p].parentEndorseVerified) = e
    OBVIOUS
  <2> QED BY <2>1 DEF Inserted
<1>3. Inserted(v, r, e, time) = [x \in DOMAIN v \cup {r} |-> IF x # r THEN v[x] ELSE new]
  <2>1. (/\ e
         /\ \A p \in PointersFromHeader(r) \cap DOMAIN v : v[p].parentEndorseVerified) = e
    BY <1>1
  <2> QED BY <2>1 DEF Inserted
<1> HIDE DEF i, new
<1>4. Without(i, K) = [x \in DOMAIN i \ K |-> i[x]]
  BY DEF Without
<1>5. DOMAIN i \ K = DOMAIN v \cup {r}
  BY <1>1, <1>2
<1>6. \A x \in DOMAIN i \ K : i[x] = IF x # r THEN v[x] ELSE new
  BY <1>1, <1>2
<1>7. Without(i, K) = Inserted(v, r, e, time)
  BY <1>3, <1>4, <1>5, <1>6
<1> QED BY <1>7 DEF i, v

\* A record new to this peer.
LEMMA NewAdded ==
  ASSUME NEW t, TableOK(t), NEW K \in SUBSET Record, TailInv(Without(t, K), K),
         NEW r \in Record, r \notin K, r \notin DOMAIN t, Interlocked(r),
         NEW e \in BOOLEAN, NEW time \in Nat,
         \A p \in PointersFromHeader(r) :
            IF p \in DOMAIN t THEN t[p].parentEndorseVerified ELSE p \in K
  PROVE  LET i == Inserted(t, r, e, time)
             U == UpdatedRecords(i, r)
             w == Weighed(i, r, U)
         IN  TailInv(Without(w, K), K \cup Confirmed(w, U))
<1> DEFINE i == Inserted(t, r, e, time)
           U == UpdatedRecords(i, r)
           w == Weighed(i, r, U)
           C == Confirmed(w, U)
           v == Without(t, K)
           j == Inserted(v, r, e, time)
           V == UpdatedRecords(j, r)
           x == Weighed(j, r, V)
           D == Confirmed(x, V)
<1>1. /\ DOMAIN v = DOMAIN t \ K /\ \A y \in DOMAIN v : v[y] = t[y]
      /\ TableOK(v)
  BY WithoutTable
<1>2. Closed(K) /\ LinkInv(v, K) /\ \A c \in DOMAIN v : Approves(v, c)
  BY LinkInvParts
<1>3. j = Without(i, K)
  BY InsertedWithout
<1>4. DOMAIN i = DOMAIN t \cup {r}
  BY DEF Inserted
<1>5. DOMAIN j = DOMAIN v \cup {r} /\ j[r].refSet = {}
  BY DEF Inserted
<1> HIDE DEF i, v
<1>6. TableOK(j)
  BY <1>1, InsertedTable
<1>7. LinkInv(j, K) /\ \A c \in DOMAIN v : Approves(j, c)
  <2>1. \A p \in PointersFromHeader(r) : HasRecord(v, K, p)
    BY <1>1 DEF HasRecord
  <2> QED BY <1>1, <1>2, <2>1, InsertedInv
<1> HIDE DEF j
<1>8. TailInv(x, K \cup D)
  BY <1>2, <1>5, <1>6, <1>7, WeighedInv
<1>9. V = U \ K
  BY <1>2, <1>3, <1>4, UpdatedWithout
<1>10. U \subseteq DOMAIN i
  BY UpdatedFacts DEF Open
<1> HIDE DEF U, V
<1>11. x = Without(w, K)
  BY <1>3, <1>9, <1>10, WeighedWithout
<1>12. DOMAIN w = DOMAIN i
  BY DEF Weighed
<1>13. D = C \ K
  <2>1. \A y \in U \ K : Weight(x, y) = Weight(w, y)
    <3>1. \A y \in DOMAIN w \ K : Without(w, K)[y] = w[y]
      BY DEF Without
    <3> HIDE DEF w, x
    <3> QED BY <1>10, <1>11, <1>12, <3>1 DEF Weight
  <2> HIDE DEF w, x
  <2> QED BY <1>9, <2>1 DEF Confirmed
<1>14. K \cup D = K \cup C
  BY <1>13
<1>15. TailInv(Without(w, K), K \cup C)
  BY <1>8, <1>11, <1>14
<1> QED BY <1>15 DEF i, U

\* Part 1 and part 2 in a step, for any set K of records known to be confirmed
\* that accounts for all holes.
LEMMA WeighedVirtual ==
  ASSUME TypeOK, NEW K \in SUBSET Record, backend \subseteq K,
         TailInv(Without(tailRecords, K), K),
         NEW r, Addable(r), NEW e \in BOOLEAN
  PROVE  TailInv(Without(WeighedNow(r, e), K),
                 K \cup Confirmed(WeighedNow(r, e), UpdatedNow(r, e)))
<1>1. /\ TableOK(tailRecords) /\ now \in Nat
      /\ r \in Record /\ r \notin DOMAIN tailRecords /\ Interlocked(r)
  BY DEF TypeOK, TailRecordsOK, TableOK, Addable, Seen, SeenRecord
<1>2. \A p \in PointersFromHeader(r) :
        IF p \in DOMAIN tailRecords THEN tailRecords[p].parentEndorseVerified ELSE p \in K
  BY DEF Addable, HasRecord
<1>3. CASE r \in K
  BY <1>1, <1>3, KnownAdded DEF InsertedNow, UpdatedNow, WeighedNow
<1>4. CASE r \notin K
  BY <1>1, <1>2, <1>4, NewAdded DEF InsertedNow, UpdatedNow, WeighedNow
<1> QED BY <1>3, <1>4

\* Parts 3 to 5: what leaves the tailing records is confirmed or leaves with
\* its descendants.
LEMMA WriteVirtual ==
  ASSUME TypeOK, NEW K \in SUBSET Record, backend \subseteq K,
         TailInv(Without(tailRecords, K), K),
         NEW r, Addable(r), NEW e \in BOOLEAN, NEW W, AddWriting(r, e, W)
  PROVE  LET C == Confirmed(WeighedNow(r, e), UpdatedNow(r, e))
         IN  TailInv(Without(tailRecords', K \cup C), K \cup C)
<1> DEFINE U == UpdatedNow(r, e)
           w == WeighedNow(r, e)
           s == SettledNow(r, e)
           C == Confirmed(w, U)
           Q == K \cup C
           v == Without(w, K)
           S == DOMAIN tailRecords' \ Q
<1>1. TailInv(v, Q)
  BY WeighedVirtual
<1>2. TableOK(w)
  BY WeighedNowTable
<1>3. /\ DOMAIN s = DOMAIN w \ {y \in U : Weight(w, y) >= removeWeight}
      /\ DOMAIN tailRecords' \subseteq DOMAIN s
      /\ \A x \in DOMAIN tailRecords' :
           /\ x \notin C => tailRecords'[x] = w[x]
           /\ PointersFromHeader(x) \cap DOMAIN s \subseteq DOMAIN tailRecords'
  BY WritePart
<1> HIDE DEF U, w, s, C
<1>4. DOMAIN v = DOMAIN w \ K /\ \A x \in DOMAIN v : v[x] = w[x]
  BY DEF Without
<1>5. TableOK(v)
  BY <1>2, WithoutTable
<1> HIDE DEF v
<1>6. LinkInv(v, Q) /\ \A x \in DOMAIN v : RecordInv(v, Q, x)
  BY <1>1, LinkInvParts
<1>7. S \subseteq DOMAIN v /\ \A x \in S : tailRecords'[x] = v[x]
  BY <1>3, <1>4
<1>8. ASSUME NEW x \in S, NEW p \in PointersFromHeader(x) PROVE p \in S \cup Q
  <2>1. p \in DOMAIN v \cup Q
    BY <1>6, <1>7 DEF RecordInv
  <2>2. CASE p \in DOMAIN v /\ p \notin Q
    <3>1. Weight(v, p) = Weight(w, p) /\ p \in DOMAIN w
      BY <1>4, <2>2 DEF Weight
    <3>2. ~ (Weight(v, p) >= confirmWeight) /\ Weight(v, p) \in Nat
      BY <1>5, <1>6, <2>2, StateFields DEF RecordInv
    <3>3. ~ (Weight(w, p) >= removeWeight)
      BY <3>1, <3>2, RemoveWeightBound, WeightAssumption
    <3>4. p \in DOMAIN s
      BY <1>3, <3>1, <3>3
    <3> QED BY <1>3, <2>2, <3>4
  <2> QED BY <2>1, <2>2
<1> DEFINE q == [x \in S |-> v[x]]
<1>9. TailInv(q, Q)
  <2> HIDE DEF S, Q
  <2> QED BY <1>1, <1>5, <1>6, <1>7, <1>8, RestrictInv
<1>10. Without(tailRecords', Q) = q
  BY <1>7 DEF Without
<1>11. TailInv(Without(tailRecords', Q), Q)
  BY <1>9, <1>10
<1> QED BY <1>11 DEF C, U, w

-----------------------------------------------------------------------------
(***************************************************************************)
(* The invariant.                                                          *)
(***************************************************************************)

\* The tables with the known records taken out of the one and added to the
\* other are those of a peer whose writes never fail; until a write fails
\* nothing is missing here and the traversal dereferences only verified
\* records; what counts as an approval is one, and what is known to be
\* confirmed has confirmWeight of them.
StorageInv ==
  /\ QueueInv
  /\ unwritten \in SUBSET Record /\ lost \in SUBSET Record
  /\ TailInv(Without(tailRecords, Known), Known)
  /\ unwritten = {} => LinkInv(tailRecords, backend) /\ ~ fault
  /\ \A x \in DOMAIN tailRecords : tailRecords[x].refSet \subseteq Approvals(x)
  /\ \A x \in Known : Cardinality(Approvals(x)) >= confirmWeight
  /\ restarts = 0 => unwritten = lost

LEMMA ConfirmedNowIs ==
  ASSUME NEW r, NEW e
  PROVE  ConfirmedNow(r, e) = Confirmed(WeighedNow(r, e), UpdatedNow(r, e))
  BY DEF ConfirmedNow, InsertedNow, UpdatedNow, WeighedNow

LEMMA ConfirmedNowTails ==
  ASSUME TypeOK, NEW r, Addable(r), NEW e \in BOOLEAN
  PROVE  /\ ConfirmedNow(r, e) \subseteq DOMAIN tailRecords
         /\ ConfirmedNow(r, e) \subseteq Record
<1>1. ConfirmedNow(r, e) \subseteq DOMAIN tailRecords
  BY ConfirmedNowIs, WeighedNowTable DEF Confirmed
<1> QED BY <1>1 DEF TypeOK, TailRecordsOK

\* A record is added, and some of those it confirms are not written.
Adds(r, e) ==
  /\ QueueInv'
  /\ Addable(r) /\ e \in BOOLEAN
  /\ restarts' = restarts
  /\ \E W \in SUBSET ConfirmedNow(r, e) :
       /\ AddWriting(r, e, W)
       /\ lost' = lost \cup W
       /\ unwritten' = unwritten \cup W

\* The process starts anew, perhaps after the addition of a record was cut off.
Reopens ==
  /\ QueueInv'
  /\ tailRecords' = GenesisTail(now)
  /\ restarts' = restarts + 1
  /\ unwritten' = {} /\ ~ fault'
  /\ \/ backend' = backend /\ lost' = lost /\ admitted' = admitted
     \/ \E r \in Record, e \in BOOLEAN :
          /\ Addable(r)
          /\ Known' = Known \cup ConfirmedNow(r, e)
          /\ lost' \in SUBSET Record
          /\ admitted' = IF e THEN admitted \cup {r} ELSE admitted

QuietStorage == Quiet /\ UNCHANGED <<unwritten, lost>>

LEMMA CrashReopens ==
  ASSUME StorageInv, NEW r, Addable(r), NEW e \in BOOLEAN, Crash(r, e), ~ fault
  PROVE  Reopens
<1> DEFINE R == ConfirmedNow(r, e)
<1>1. QueueInv /\ TypeOK /\ r \in Record
  BY DEF StorageInv, QueueInv, Addable
<1>2. R \subseteq DOMAIN tailRecords /\ R \subseteq Record
  BY <1>1, ConfirmedNowTails
<1>3. /\ R # {} /\ Reopen
      /\ unwritten' = {} /\ admitted' = admitted \cup {r}
      /\ UNCHANGED <<Self, now, losses, created, timedOut, fault>>
  BY DEF Crash
<1>4. e
  <2>1. CASE ~ e
    <3>1. UpdatedNow(r, e) = {}
      BY <1>1, <2>1, WeighedNowTable
    <3>2. R = {}
      BY <3>1, ConfirmedNowIs DEF Confirmed
    <3> QED BY <1>3, <3>2
  <2> QED BY <2>1
<1>5. PICK W \in SUBSET R : backend' = backend \cup W /\ lost' = lost \cup (R \ W)
  <2>1. PICK H \in SUBSET R : \E F \in SUBSET H :
          backend' = backend \cup (H \ F) /\ lost' = lost \cup (R \ (H \ F))
    BY DEF Crash
  <2> QED BY <2>1
<1> HIDE DEF R
<1>6. Known' = Known \cup R
  BY <1>5 DEF Known
<1>7. lost' \in SUBSET Record /\ admitted' \in SUBSET Record
  BY <1>1, <1>2, <1>3, <1>5 DEF StorageInv, TypeOK
<1>8. backend' \subseteq backend \cup DOMAIN tailRecords
  BY <1>2, <1>5
<1>9. QueueInv'
  BY <1>1, <1>3, <1>7, <1>8, ReopenQueue
<1>10. tailRecords' = GenesisTail(now) /\ restarts' = restarts + 1
  BY <1>3 DEF Reopen
<1>11. /\ Addable(r) /\ Known' = Known \cup ConfirmedNow(r, e) /\ lost' \in SUBSET Record
       /\ admitted' = IF e THEN admitted \cup {r} ELSE admitted
  BY <1>3, <1>4, <1>6, <1>7 DEF R
<1> QED BY <1>1, <1>3, <1>9, <1>10, <1>11 DEF Reopens

LEMMA WritesSucceedKinds ==
  ASSUME StorageInv, WritesSucceed
  PROVE  (\E r \in Record, e \in BOOLEAN : Adds(r, e)) \/ Reopens \/ QuietStorage
<1>1. QueueInv /\ restarts \in Nat
  BY DEF StorageInv, QueueInv, TypeOK
<1>2. (\E r \in Record : CreateRecord(r)) \/ ScanAdd \/ Restart \/ Quiet
  BY <1>1, StepKinds, NextIsAny DEF WritesSucceed
<1>3. lost' = lost /\ (restarts' = restarts => unwritten' = unwritten)
      /\ (restarts' # restarts => unwritten' = {})
  BY DEF WritesSucceed
<1>4. ASSUME NEW r \in Record, CreateRecord(r) PROVE Adds(r, TRUE)
  <2>1. /\ CanCreate(r) /\ AddWriting(r, TRUE, {})
        /\ created' = created \cup {r}
        /\ UNCHANGED <<Self, fetchVars, countVars>>
    BY <1>4 DEF CreateRecord, AddToTailingRecord
  <2>2. QueueInv' /\ Addable(r) /\ restarts' = restarts
    BY <1>1, <2>1, CreateQueue, CanCreateAddable DEF countVars
  <2>3. lost' = lost \cup {} /\ unwritten' = unwritten \cup {}
    BY <1>3, <2>2
  <2> QED BY <2>1, <2>2, <2>3 DEF Adds
<1>5. CASE ScanAdd
  <2> DEFINE e == CheckEndorseValidityOfRecord(Current)
  <2>1. /\ AtRecord /\ Ready(tailRecords, backend, Current)
        /\ syncStack' = RemoveAt(syncStack, scan.at)
        /\ UNCHANGED <<Self, scan, pending, replySync, countVars, created>>
        /\ Current \notin DOMAIN tailRecords => AddToTailingRecord(Current, e)
    BY <1>5 DEF ScanAdd
  <2>2. Addable(Current) /\ e \in BOOLEAN
    BY <1>1, <2>1, StackedAddable
  <2>3. AddWriting(Current, e, {})
    BY <2>1, <2>2 DEF Addable, Seen, SeenRecord, AddToTailingRecord
  <2>4. QueueInv' /\ restarts' = restarts
    BY <1>1, <2>1, <2>3, ScanAddQueue DEF countVars
  <2>5. lost' = lost \cup {} /\ unwritten' = unwritten \cup {}
    BY <1>3, <2>4
  <2>6. Adds(Current, e)
    BY <2>2, <2>3, <2>4, <2>5 DEF Adds
  <2> QED BY <2>2, <2>6 DEF Addable
<1>6. CASE Restart
  <2>1. /\ ~ fault /\ Reopen
        /\ UNCHANGED <<Self, backend, now, losses, created, admitted, timedOut, fault>>
    BY <1>6 DEF Restart
  <2>2. tailRecords' = GenesisTail(now) /\ restarts' = restarts + 1
    BY <2>1 DEF Reopen
  <2>3. QueueInv'
    BY <1>1, <2>1, ReopenQueue DEF QueueInv, TypeOK
  <2>4. unwritten' = {}
    BY <1>1, <1>3, <2>2
  <2> QED BY <1>3, <2>1, <2>2, <2>3, <2>4 DEF Reopens
<1>7. CASE Quiet
  BY <1>3, <1>7 DEF QuietStorage, Quiet
<1> QED BY <1>2, <1>4, <1>5, <1>6, <1>7

LEMMA StorageKinds ==
  ASSUME StorageInv, [StorageNext]_storageVars
  PROVE  (\E r \in Record, e \in BOOLEAN : Adds(r, e)) \/ Reopens \/ QuietStorage
<1>1. QueueInv
  BY DEF StorageInv
<1>2. ASSUME NEW r \in Record, CreateUnwritten(r) PROVE Adds(r, TRUE)
  <2>1. PICK W \in SUBSET ConfirmedNow(r, TRUE) : AddWriting(r, TRUE, W) /\ Unwritten(W)
    BY <1>2 DEF CreateUnwritten
  <2>2. /\ CanCreate(r) /\ created' = created \cup {r}
        /\ UNCHANGED <<Self, fetchVars, countVars>>
    BY <1>2 DEF CreateUnwritten
  <2>3. QueueInv' /\ Addable(r) /\ restarts' = restarts
    BY <1>1, <2>1, <2>2, CreateQueue, CanCreateAddable DEF countVars
  <2>4. lost' = lost \cup W /\ unwritten' = unwritten \cup W
    BY <2>1 DEF Unwritten
  <2> QED BY <2>1, <2>3, <2>4 DEF Adds
<1>3. CASE ScanAddUnwritten
  <2> DEFINE e == CheckEndorseValidityOfRecord(Current)
  <2>1. /\ CanScanAdd
        /\ syncStack' = RemoveAt(syncStack, scan.at)
        /\ UNCHANGED <<Self, scan, pending, replySync, countVars, created>>
        /\ \E W \in SUBSET ConfirmedNow(Current, e) : AddWriting(Current, e, W) /\ Unwritten(W)
    BY <1>3 DEF ScanAddUnwritten
  <2>2. PICK W \in SUBSET ConfirmedNow(Current, e) : AddWriting(Current, e, W) /\ Unwritten(W)
    BY <2>1
  <2>3. Addable(Current) /\ e \in BOOLEAN
    BY <1>1, <2>1, StackedAddable DEF CanScanAdd
  <2>4. QueueInv' /\ restarts' = restarts
    BY <1>1, <2>1, <2>2, ScanAddQueue DEF countVars, CanScanAdd
  <2>5. lost' = lost \cup W /\ unwritten' = unwritten \cup W
    BY <2>2 DEF Unwritten
  <2>6. Adds(Current, e)
    BY <2>2, <2>3, <2>4, <2>5 DEF Adds
  <2> QED BY <2>3, <2>6 DEF Addable
<1>4. ASSUME NEW r \in Record, CanCreate(r), Crash(r, TRUE) PROVE Reopens
  BY <1>1, <1>4, CanCreateAddable, CrashReopens DEF CanCreate
<1>5. CASE CanScanAdd /\ Crash(Current, CheckEndorseValidityOfRecord(Current))
  <2>1. /\ Addable(Current) /\ CheckEndorseValidityOfRecord(Current) \in BOOLEAN
        /\ ~ fault
    BY <1>1, <1>5, StackedAddable DEF CanScanAdd
  <2> QED BY <1>5, <2>1, CrashReopens
<1>6. CASE UNCHANGED storageVars
  BY <1>1, <1>6, StutterQuiet DEF storageVars, QuietStorage
<1> QED BY <1>2, <1>3, <1>4, <1>5, <1>6, WritesSucceedKinds DEF StorageNext

LEMMA InitStorage == StorageInit => StorageInv
<1> SUFFICES ASSUME StorageInit PROVE StorageInv
  OBVIOUS
<1>1. Init /\ unwritten = {} /\ lost = {} /\ backend = {} /\ Known = {}
  BY DEF StorageInit, Init, Known
<1>2. /\ QueueInv /\ TypeOK /\ TailInv(tailRecords, backend) /\ ~ fault
      /\ \A x \in DOMAIN tailRecords : tailRecords[x].refSet \subseteq Approvals(x)
  BY <1>1, InitInv DEF LedgerInv, QueueInv, NoNullDereference, ApprovalInv
<1>3. Without(tailRecords, {}) = tailRecords
  <2>1. Without(tailRecords, {}) = [x \in DOMAIN tailRecords |-> tailRecords[x]]
    BY DEF Without
  <2> QED BY <1>2, <2>1 DEF TypeOK, TailRecordsOK
<1>4. TailInv(Without(tailRecords, Known), Known) /\ LinkInv(tailRecords, backend)
  BY <1>1, <1>2, <1>3, LinkInvParts
<1> QED BY <1>1, <1>2, <1>4 DEF StorageInv

LEMMA KnownAfter ==
  ASSUME NEW r, NEW e, NEW W \in SUBSET ConfirmedNow(r, e), AddWriting(r, e, W),
         lost' = lost \cup W
  PROVE  Known' = Known \cup ConfirmedNow(r, e)
<1>1. backend' = backend \cup (ConfirmedNow(r, e) \ W)
  BY WriteDefinition, ConfirmedNowIs DEF OnRecordsConfirmed
<1> QED BY <1>1 DEF Known

LEMMA AddsInv ==
  ASSUME StorageInv, NEW r, NEW e, Adds(r, e)
  PROVE  StorageInv'
<1> DEFINE C == ConfirmedNow(r, e)
           Q == Known \cup C
<1>1. /\ QueueInv' /\ Addable(r) /\ e \in BOOLEAN /\ restarts' = restarts
  BY DEF Adds
<1>2. PICK W \in SUBSET ConfirmedNow(r, e) :
        AddWriting(r, e, W) /\ lost' = lost \cup W /\ unwritten' = unwritten \cup W
  BY DEF Adds
<1>3. /\ TypeOK /\ Known \in SUBSET Record /\ backend \subseteq Known
      /\ unwritten \in SUBSET Record /\ lost \in SUBSET Record
  BY DEF StorageInv, QueueInv, TypeOK, Known
<1>4. C = Confirmed(WeighedNow(r, e), UpdatedNow(r, e)) /\ C \subseteq Record
  BY <1>1, <1>3, ConfirmedNowIs, ConfirmedNowTails
<1>5. Known' = Q
  BY <1>2, KnownAfter
<1>6. unwritten' \in SUBSET Record /\ lost' \in SUBSET Record
  BY <1>2, <1>3, <1>4
<1>7. TailInv(Without(tailRecords, Known), Known)
  BY DEF StorageInv
<1>8. TailInv(Without(tailRecords', Q), Q)
  BY <1>1, <1>2, <1>3, <1>4, <1>7, WriteVirtual
<1>9. TailInv(Without(tailRecords, Known), Known)'
  BY <1>5, <1>8
<1>10. ASSUME unwritten' = {} PROVE LinkInv(tailRecords', backend') /\ ~ fault'
  <2>1. W = {} /\ unwritten = {}
    BY <1>2, <1>10
  <2>2. AddToTailingRecord(r, e)
    BY <1>2, <2>1 DEF AddToTailingRecord
  <2>3. LinkInv(tailRecords, backend)
    BY <2>1 DEF StorageInv
  <2> QED BY <1>1, <1>3, <2>2, <2>3, LinkOutcome
<1>11. /\ admitted \subseteq admitted' /\ admitted' \in SUBSET Record
       /\ \A x \in DOMAIN tailRecords' : tailRecords'[x].refSet \subseteq Approvals(x)'
       /\ \A x \in C : Cardinality(Approvals(x)') >= confirmWeight
  BY <1>1, <1>2, <1>3, <1>4, WriteApprovals DEF StorageInv
<1>12. \A x \in Known : Cardinality(Approvals(x)') >= confirmWeight
  BY <1>3, <1>11, ApprovalsStay DEF StorageInv
<1>13. \A x \in Known' : Cardinality(Approvals(x)') >= confirmWeight
  BY <1>5, <1>11, <1>12
<1>14. restarts' = 0 => unwritten' = lost'
  BY <1>1, <1>2 DEF StorageInv
<1> QED BY <1>1, <1>6, <1>9, <1>10, <1>11, <1>13, <1>14 DEF StorageInv

\* After a restart all that is known to be confirmed is closed under pointers,
\* even if the addition that confirmed a part of it was cut off.
LEMMA ReopensKnown ==
  ASSUME StorageInv, Reopens
  PROVE  /\ Closed(Known') /\ Known' \in SUBSET Record /\ lost' \in SUBSET Record
         /\ admitted \subseteq admitted' /\ admitted' \in SUBSET Record
         /\ \A x \in Known' : Cardinality(Approvals(x)') >= confirmWeight
<1>1. /\ TypeOK /\ Known \in SUBSET Record /\ backend \subseteq Known /\ lost \in SUBSET Record
      /\ TailInv(Without(tailRecords, Known), Known)
      /\ \A x \in DOMAIN tailRecords : tailRecords[x].refSet \subseteq Approvals(x)
      /\ \A x \in Known : Cardinality(Approvals(x)) >= confirmWeight
  BY DEF StorageInv, QueueInv, TypeOK, Known
<1>2. CASE backend' = backend /\ lost' = lost /\ admitted' = admitted
  <2>1. Known' = Known
    BY <1>2 DEF Known
  <2>2. \A x \in Known : Cardinality(Approvals(x)') >= confirmWeight
    BY <1>1, <1>2 DEF Approvals
  <2>3. Closed(Known)
    BY <1>1, LinkInvParts
  <2>4. admitted \subseteq admitted' /\ admitted' \in SUBSET Record
    BY <1>1, <1>2 DEF TypeOK
  <2> QED BY <1>1, <1>2, <2>1, <2>2, <2>3, <2>4
<1>3. ASSUME NEW r \in Record, NEW e \in BOOLEAN, Addable(r),
             Known' = Known \cup ConfirmedNow(r, e), lost' \in SUBSET Record,
             admitted' = IF e THEN admitted \cup {r} ELSE admitted
      PROVE  /\ Closed(Known') /\ Known' \in SUBSET Record /\ lost' \in SUBSET Record
             /\ admitted \subseteq admitted' /\ admitted' \in SUBSET Record
             /\ \A x \in Known' : Cardinality(Approvals(x)') >= confirmWeight
  <2> DEFINE C == Confirmed(WeighedNow(r, e), UpdatedNow(r, e))
  <2>1. ConfirmedNow(r, e) = C /\ C \subseteq Record
    BY <1>1, <1>3, ConfirmedNowIs, ConfirmedNowTails
  <2>2. TailInv(Without(WeighedNow(r, e), Known), Known \cup C)
    BY <1>1, <1>3, WeighedVirtual
  <2>3. Closed(Known \cup C)
    BY <2>2, LinkInvParts
  <2>4. /\ admitted \subseteq admitted' /\ admitted' \in SUBSET Record
    BY <1>1, <1>3, WeighedApproved
  <2>5. \A x \in C : Cardinality(Approvals(x)') >= confirmWeight
    BY <1>1, <1>3, ConfirmedApproved
  <2>6. \A x \in Known : Cardinality(Approvals(x)') >= confirmWeight
    BY <1>1, <2>4, ApprovalsStay
  <2> HIDE DEF C
  <2> QED BY <1>1, <1>3, <2>1, <2>3, <2>4, <2>5, <2>6
<1> QED BY <1>2, <1>3 DEF Reopens

LEMMA ReopensInv ==
  ASSUME StorageInv, Reopens
  PROVE  StorageInv'
<1>1. /\ Closed(Known') /\ Known' \in SUBSET Record /\ lost' \in SUBSET Record
      /\ \A x \in Known' : Cardinality(Approvals(x)') >= confirmWeight
  BY ReopensKnown
<1>2. /\ QueueInv' /\ tailRecords' = GenesisTail(now) /\ restarts' = restarts + 1
      /\ unwritten' = {} /\ ~ fault'
  BY DEF Reopens
<1>3. now \in Nat /\ restarts \in Nat
  BY DEF StorageInv, QueueInv, TypeOK
<1>4. /\ TableOK(tailRecords') /\ LinkInv(tailRecords', backend')
      /\ TailInv(tailRecords', Known')
  BY <1>1, <1>2, <1>3, GenesisTailInv
<1>5. /\ \A g \in GenesisRecords : PointersFromHeader(g) = {}
      /\ DOMAIN tailRecords' = GenesisRecords
      /\ \A g \in GenesisRecords : tailRecords'[g].refSet = {}
  BY <1>2, GenesisAssumption DEF Named, GenesisTail
<1> DEFINE K == DOMAIN tailRecords' \ Known'
           s == [x \in K |-> tailRecords'[x]]
<1>6. TailInv(s, Known')
  <2>1. K \in SUBSET DOMAIN tailRecords' /\ \A x \in K : PointersFromHeader(x) \subseteq K \cup Known'
    BY <1>5
  <2>2. LinkInv(tailRecords', Known')
    BY <1>4, LinkInvParts
  <2> HIDE DEF K
  <2> QED BY <1>4, <2>1, <2>2, RestrictInv
<1>7. Without(tailRecords', Known') = s
  BY DEF Without
<1>8. TailInv(Without(tailRecords', Known'), Known')
  BY <1>6, <1>7
<1>9. \A x \in DOMAIN tailRecords' : tailRecords'[x].refSet \subseteq Approvals(x)'
  BY <1>5
<1>10. ~ (restarts' = 0)
  BY <1>2, <1>3
<1> QED BY <1>1, <1>2, <1>4, <1>8, <1>9, <1>10 DEF StorageInv

LEMMA QuietStorageInv ==
  ASSUME StorageInv, QuietStorage
  PROVE  StorageInv'
<1>1. QueueInv' /\ UNCHANGED <<tailRecords, backend, admitted, fault, restarts, unwritten, lost>>
  BY DEF QuietStorage, Quiet, ledgerVars
<1>2. Known' = Known /\ \A x : Approvals(x)' = Approvals(x)
  BY <1>1 DEF Known, Approvals
<1>3. TailInv(Without(tailRecords, Known), Known)'
  BY <1>1, <1>2 DEF StorageInv
<1> QED BY <1>1, <1>2, <1>3 DEF StorageInv

LEMMA StepStorage == StorageInv /\ [StorageNext]_storageVars => StorageInv'
  BY StorageKinds, AddsInv, ReopensInv, QuietStorageInv

-----------------------------------------------------------------------------
(***************************************************************************)
(* The theorems that hold whatever is disturbed.                           *)
(***************************************************************************)

\* The invariant holds in every run, with any number of failed writes, losses
\* and restarts.
THEOREM StorageInvariant == StorageSpec => []StorageInv
  BY InitStorage, StepStorage, PTL DEF StorageSpec

LEMMA StorageHoles == StorageInv => HolesAreLost
<1> SUFFICES ASSUME StorageInv PROVE HolesAreLost
  OBVIOUS
<1> DEFINE v == Without(tailRecords, Known)
<1>1. DOMAIN v = DOMAIN tailRecords \ Known
  BY DEF Without
<1>2. Closed(Known) /\ \A x \in DOMAIN v : RecordInv(v, Known, x)
  BY LinkInvParts DEF StorageInv
<1>3. \A r \in Known : PointersFromHeader(r) \subseteq backend \cup lost
  BY <1>2 DEF Closed, Known
<1> HIDE DEF v
<1>4. \A r \in DOMAIN tailRecords :
        PointersFromHeader(r) \subseteq DOMAIN tailRecords \cup backend \cup lost
  BY <1>1, <1>2, <1>3 DEF RecordInv, Known
<1> QED BY <1>3, <1>4 DEF HolesAreLost, Known

\* Whatever fails, a stored or tailing record lacks only parents that were
\* confirmed and not written, and not the parents of these: taken together,
\* what was confirmed has no holes.
THEOREM HolesAreLostAlways == StorageSpec => []HolesAreLost
  BY StorageHoles, StorageInvariant, PTL

\* The traversal dereferences nullopt only in a process one of whose own writes
\* has failed; what crashes have left undone does no such harm.
THEOREM FaultOnlyAfterFailedWriteAlways == StorageSpec => []FaultOnlyAfterFailedWrite
<1>1. StorageInv => FaultOnlyAfterFailedWrite
  BY DEF StorageInv, FaultOnlyAfterFailedWrite
<1> QED BY <1>1, StorageInvariant, PTL

\* A stored record was approved by confirmWeight producers other than its own,
\* across crashes and failed writes too.
THEOREM StoredByKAlways == StorageSpec => []ConfirmedByK
<1>1. StorageInv => ConfirmedByK
  BY DEF StorageInv, ConfirmedByK, Known
<1> QED BY <1>1, StorageInvariant, PTL

-----------------------------------------------------------------------------
(***************************************************************************)
(* Until a restart or a timeout the weights are exact: what is not known   *)
(* to be confirmed is still tailing, and has missed no approval.           *)
(***************************************************************************)
StorageAdmitted ==
  /\ AdmittedClosed
  /\ GenesisRecords \subseteq admitted
  /\ Known \subseteq admitted
  /\ \A x \in DOMAIN tailRecords : tailRecords[x].recordEndorseVerified => x \in admitted

StorageExact ==
  Undisturbed =>
    /\ admitted \subseteq DOMAIN tailRecords \cup Known
    /\ \A x \in DOMAIN tailRecords \ Known : Approvals(x) \subseteq tailRecords[x].refSet

LEMMA InitStorageExact == StorageInit => StorageAdmitted /\ StorageExact
<1> SUFFICES ASSUME StorageInit PROVE StorageAdmitted /\ StorageExact
  OBVIOUS
<1>1. Init /\ Known = {}
  BY DEF StorageInit, Init, Known
<1>2. CountingInv /\ admitted = GenesisRecords /\ DOMAIN tailRecords = GenesisRecords
  BY <1>1, InitCounting DEF Init, GenesisTail
<1>3. StorageAdmitted
  BY <1>1, <1>2 DEF CountingInv, AdmittedInv, StorageAdmitted
<1>4. StorageExact
  BY <1>1, <1>2 DEF CountingInv, ExactInv, StorageExact
<1> QED BY <1>3, <1>4

\* A record's parents, and what its addition confirms, were admitted.
LEMMA ConfirmedAdmitted ==
  ASSUME StorageInv, StorageAdmitted, NEW r, Addable(r), NEW e \in BOOLEAN
  PROVE  PointersFromHeader(r) \subseteq admitted /\ ConfirmedNow(r, e) \subseteq admitted
<1> DEFINE t == Without(tailRecords, Known)
           U == UpdatedNow(r, e)
           w == WeighedNow(r, e)
           C == Confirmed(w, U)
           v == Without(w, Known)
<1>1. /\ TypeOK /\ Known \in SUBSET Record /\ backend \subseteq Known
      /\ TailInv(Without(tailRecords, Known), Known)
  BY DEF StorageInv, QueueInv, TypeOK, Known
<1>2. \A x \in DOMAIN t : RecordInv(t, Known, x)
  BY <1>1, LinkInvParts
<1>3. /\ DOMAIN t = DOMAIN tailRecords \ Known /\ \A x \in DOMAIN t : t[x] = tailRecords[x]
      /\ DOMAIN v = DOMAIN w \ Known /\ \A x \in DOMAIN v : v[x] = w[x]
  BY DEF Without
<1>4. \A x \in DOMAIN v : RecordInv(v, Known \cup C, x)
  BY <1>1, WeighedVirtual, LinkInvParts
<1>5. DOMAIN w = DOMAIN tailRecords \cup {r} /\ U \subseteq DOMAIN tailRecords
  BY <1>1, WeighedNowTable
<1>6. \A x \in DOMAIN tailRecords : w[x].recordEndorseVerified = tailRecords[x].recordEndorseVerified
  BY <1>1, WeighedNowEndorsed
<1>7. C \subseteq U /\ \A x \in C : Weight(w, x) = confirmWeight
  BY DEF Confirmed
<1>8. ConfirmedNow(r, e) = C
  BY ConfirmedNowIs
<1> HIDE DEF t, U, w, C, v
<1>9. ASSUME NEW p \in PointersFromHeader(r) PROVE p \in admitted
  <2>1. HasRecord(tailRecords, backend, p)
    BY DEF Addable
  <2>2. CASE p \in Known
    BY <2>2 DEF StorageAdmitted
  <2>3. CASE p \notin Known
    <3>1. p \in DOMAIN tailRecords /\ tailRecords[p].parentEndorseVerified
      BY <1>1, <2>1, <2>3 DEF HasRecord
    <3>2. tailRecords[p].recordEndorseVerified
      BY <1>2, <1>3, <2>3, <3>1 DEF RecordInv
    <3> QED BY <3>1, <3>2 DEF StorageAdmitted
  <2> QED BY <2>2, <2>3
<1>10. ASSUME NEW x \in C PROVE x \in admitted
  <2>1. CASE x \in Known
    BY <2>1 DEF StorageAdmitted
  <2>2. CASE x \notin Known
    <3>1. x \in DOMAIN tailRecords /\ x \in DOMAIN v /\ v[x] = w[x]
      BY <1>3, <1>5, <1>7, <2>2
    <3>2. w[x].refSet # {}
      BY <1>7, FS_EmptySet, WeightAssumption DEF Weight
    <3>3. w[x].recordEndorseVerified
      BY <1>4, <3>1, <3>2 DEF RecordInv
    <3> QED BY <1>6, <3>1, <3>3 DEF StorageAdmitted
  <2> QED BY <2>1, <2>2
<1> QED BY <1>8, <1>9, <1>10

LEMMA AddsAdmitted ==
  ASSUME StorageInv, StorageAdmitted, NEW r, NEW e, Adds(r, e)
  PROVE  StorageAdmitted'
<1> DEFINE w == WeighedNow(r, e)
<1>1. PICK W \in SUBSET ConfirmedNow(r, e) : AddWriting(r, e, W) /\ lost' = lost \cup W
  BY DEF Adds
<1>2. TypeOK /\ Addable(r) /\ e \in BOOLEAN
  BY DEF StorageInv, QueueInv, Adds
<1>3. Known' = Known \cup ConfirmedNow(r, e)
  BY <1>1, KnownAfter
<1>4. PointersFromHeader(r) \subseteq admitted /\ ConfirmedNow(r, e) \subseteq admitted
  BY <1>2, ConfirmedAdmitted
<1>5. admitted' = IF e THEN admitted \cup {r} ELSE admitted
  BY <1>1, WriteDefinition
<1>6. DOMAIN w = DOMAIN tailRecords \cup {r} /\ w[r].recordEndorseVerified = e
  BY <1>2, WeighedNowTable
<1>7. /\ DOMAIN tailRecords' \subseteq DOMAIN tailRecords \cup {r}
      /\ \A x \in DOMAIN tailRecords' :
            tailRecords'[x].recordEndorseVerified = w[x].recordEndorseVerified
  BY <1>1, <1>2, WriteDomains, WritePart
<1>8. \A x \in DOMAIN tailRecords : w[x].recordEndorseVerified = tailRecords[x].recordEndorseVerified
  BY <1>2, WeighedNowEndorsed
<1> HIDE DEF w
<1>9. AdmittedClosed'
  BY <1>4, <1>5 DEF StorageAdmitted, AdmittedClosed
<1>10. GenesisRecords \subseteq admitted' /\ Known' \subseteq admitted'
  BY <1>3, <1>4, <1>5 DEF StorageAdmitted
<1>11. \A x \in DOMAIN tailRecords' : tailRecords'[x].recordEndorseVerified => x \in admitted'
  BY <1>5, <1>6, <1>7, <1>8 DEF StorageAdmitted
<1> QED BY <1>9, <1>10, <1>11 DEF StorageAdmitted

LEMMA ReopensAdmitted ==
  ASSUME StorageInv, StorageAdmitted, Reopens
  PROVE  StorageAdmitted'
<1>1. DOMAIN tailRecords' = GenesisRecords
  BY DEF Reopens, GenesisTail
<1>2. AdmittedClosed' /\ admitted \subseteq admitted' /\ Known' \subseteq admitted'
  <2>1. CASE backend' = backend /\ lost' = lost /\ admitted' = admitted
    BY <2>1 DEF StorageAdmitted, AdmittedClosed, Known
  <2>2. ASSUME NEW r \in Record, NEW e \in BOOLEAN, Addable(r),
               Known' = Known \cup ConfirmedNow(r, e),
               admitted' = IF e THEN admitted \cup {r} ELSE admitted
        PROVE  AdmittedClosed' /\ admitted \subseteq admitted' /\ Known' \subseteq admitted'
    <3>1. PointersFromHeader(r) \subseteq admitted /\ ConfirmedNow(r, e) \subseteq admitted
      BY <2>2, ConfirmedAdmitted
    <3> QED BY <2>2, <3>1 DEF StorageAdmitted, AdmittedClosed
  <2> QED BY <2>1, <2>2 DEF Reopens
<1> QED BY <1>1, <1>2 DEF StorageAdmitted

\* After the traversal from an endorsed record every tailing ancestor by
\* another producer counts r's, but for those known to be confirmed.
LEMMA TraversalReaches ==
  ASSUME StorageInv, NEW r, Addable(r),
         NEW y \in AncestorsOf[r], y \notin Known, y \notin ConfirmedNow(r, TRUE)
  PROVE  /\ y \in DOMAIN WeighedNow(r, TRUE)
         /\ ProducerPrefix(r) \in WeighedNow(r, TRUE)[y].refSet \cup {ProducerPrefix(y)}
<1> DEFINE me == ProducerPrefix(r)
           w == WeighedNow(r, TRUE)
           v == Without(w, Known)
           Q == Known \cup ConfirmedNow(r, TRUE)
           counted == {x \in Record :
                         x \in Q \/ (/\ x \in DOMAIN v
                                     /\ v[x].recordEndorseVerified
                                     /\ me \in v[x].refSet \cup {ProducerPrefix(x)})}
<1>1. /\ TypeOK /\ Known \in SUBSET Record /\ backend \subseteq Known /\ r \in Record
      /\ TailInv(Without(tailRecords, Known), Known)
  BY DEF StorageInv, QueueInv, TypeOK, Known, Addable
<1>2. Q = Known \cup Confirmed(w, UpdatedNow(r, TRUE)) /\ Q \subseteq Record
  BY <1>1, ConfirmedNowIs, ConfirmedNowTails
<1>3. TailInv(v, Q)
  BY <1>1, <1>2, WeighedVirtual
<1>4. /\ TableOK(w) /\ DOMAIN w = DOMAIN tailRecords \cup {r}
      /\ w[r].recordEndorseVerified = TRUE
  BY <1>1, WeighedNowTable
<1>5. DOMAIN v = DOMAIN w \ Known /\ \A x \in DOMAIN v : v[x] = w[x]
  BY DEF Without
<1> HIDE DEF w, v, me
<1>6. DOMAIN v \subseteq Record
  BY <1>4, <1>5 DEF TableOK
<1> HIDE DEF Q
<1>7. /\ Closed(Q)
      /\ \A x \in DOMAIN v : /\ RecordInv(v, Q, x)
                             /\ PointsToEndorsed(v, x)
                             /\ Approves(v, x)
  BY <1>3, LinkInvParts
<1>8. r \in counted
  <2>1. r \in Known => r \in Q
    BY DEF Q
  <2> QED BY <1>1, <1>4, <1>5, <2>1 DEF me
<1>9. ASSUME NEW x \in counted, NEW p \in PointersFromHeader(x) PROVE p \in counted
  <2>1. CASE x \in Q
    BY <1>2, <1>7, <2>1 DEF Closed
  <2>2. CASE x \in DOMAIN v /\ x \notin Q
    <3>1. p \in DOMAIN v \cup Q
      BY <1>7, <2>2 DEF RecordInv
    <3>2. CASE p \in DOMAIN v
      <4>1. v[p].recordEndorseVerified
        BY <1>7, <2>2, <3>2 DEF PointsToEndorsed
      <4>2. (v[x].refSet \ {ProducerPrefix(p)}) \cup {ProducerPrefix(x)} \subseteq v[p].refSet
        BY <1>7, <2>2, <3>2 DEF Approves
      <4>3. me \in v[x].refSet \cup {ProducerPrefix(x)}
        BY <2>2
      <4> QED BY <1>6, <3>2, <4>1, <4>2, <4>3
    <3> QED BY <1>2, <3>1, <3>2
  <2> QED BY <2>1, <2>2
<1>10. counted \subseteq Record
  OBVIOUS
<1> HIDE DEF counted
<1>11. AncestorsOf[r] \subseteq counted
  BY <1>8, <1>9, <1>10, AncestorsWithin
<1>12. y \notin Q
  BY DEF Q
<1>13. y \in DOMAIN v /\ me \in v[y].refSet \cup {ProducerPrefix(y)}
  BY <1>11, <1>12 DEF counted
<1> QED BY <1>5, <1>13 DEF w, me

LEMMA AddsExact ==
  ASSUME StorageInv, StorageAdmitted, StorageExact, NEW r, NEW e, Adds(r, e)
  PROVE  StorageExact'
<1> SUFFICES ASSUME Undisturbed'
             PROVE  /\ admitted' \subseteq DOMAIN tailRecords' \cup Known'
                    /\ \A x \in DOMAIN tailRecords' \ Known' :
                          Approvals(x)' \subseteq tailRecords'[x].refSet
  BY DEF StorageExact
<1> DEFINE U == UpdatedNow(r, e)
           w == WeighedNow(r, e)
           v == Without(w, Known)
           s == SettledNow(r, e)
<1>1. PICK W \in SUBSET ConfirmedNow(r, e) : AddWriting(r, e, W) /\ lost' = lost \cup W
  BY DEF Adds
<1>2. /\ TypeOK /\ Addable(r) /\ e \in BOOLEAN /\ restarts' = restarts
      /\ r \in Record /\ r \notin DOMAIN tailRecords
      /\ Known \in SUBSET Record /\ backend \subseteq Known
      /\ TailInv(Without(tailRecords, Known), Known)
  BY DEF StorageInv, QueueInv, Adds, Addable, Seen, SeenRecord, TypeOK, Known
<1>3. Known' = Known \cup ConfirmedNow(r, e)
  BY <1>1, KnownAfter
<1>4. ConfirmedNow(r, e) = Confirmed(w, U)
  BY ConfirmedNowIs
<1>5. \A x \in DOMAIN v : RecordInv(v, Known', x)
  BY <1>2, <1>3, <1>4, WeighedVirtual, LinkInvParts
<1>6. /\ admitted' = IF e THEN admitted \cup {r} ELSE admitted
      /\ timedOut' = timedOut \cup (DOMAIN s \ DOMAIN tailRecords')
  BY <1>1, WriteDefinition
<1>7. /\ DOMAIN s = DOMAIN w \ {y \in U : Weight(w, y) >= removeWeight}
      /\ DOMAIN tailRecords' \subseteq DOMAIN s
      /\ \A x \in DOMAIN tailRecords' : tailRecords'[x].refSet = w[x].refSet
  BY <1>1, <1>2, WritePart
<1>8. Undisturbed /\ DOMAIN tailRecords' = DOMAIN s
  BY <1>2, <1>6, <1>7 DEF Undisturbed
<1>9. TableOK(w) /\ DOMAIN w = DOMAIN tailRecords \cup {r}
  BY <1>2, WeighedNowTable
<1>10. DOMAIN v = DOMAIN w \ Known /\ \A x \in DOMAIN v : v[x] = w[x]
  BY DEF Without
<1>11. \A x \in DOMAIN tailRecords : tailRecords[x].refSet \subseteq w[x].refSet
  BY <1>2, WeighedNowRefSets
<1>12. \A y \in AncestorsOf[r] :
         e /\ y \notin Known' => ProducerPrefix(r) \in w[y].refSet \cup {ProducerPrefix(y)}
  <2>1. CASE e
    <3>1. e = TRUE
      BY <1>2, <2>1
    <3> QED BY <1>2, <1>3, <3>1, TraversalReaches
  <2> QED BY <2>1
<1> HIDE DEF U, w, v, s
<1>13. ASSUME NEW x \in admitted' PROVE x \in DOMAIN tailRecords' \cup Known'
  <2>1. x \in DOMAIN w \cup Known
    BY <1>6, <1>8, <1>9 DEF StorageExact
  <2>2. CASE x \in DOMAIN w /\ x \notin Known /\ x \notin DOMAIN tailRecords'
    <3>1. Weight(w, x) >= removeWeight /\ Weight(w, x) \in Nat
      BY <1>7, <1>8, <1>9, <2>2, StateFields
    <3>2. Weight(v, x) >= confirmWeight
      BY <1>10, <2>2, <3>1, RemoveWeightBound, WeightAssumption DEF Weight
    <3> QED BY <1>5, <1>10, <2>2, <3>2 DEF RecordInv
  <2> QED BY <1>3, <2>1, <2>2
<1>14. ASSUME NEW x \in DOMAIN tailRecords' \ Known', NEW a \in admitted', x \in AncestorsOf[a],
              ProducerPrefix(a) # ProducerPrefix(x)
       PROVE  ProducerPrefix(a) \in w[x].refSet
  <2>1. CASE a \in admitted
    <3>1. x \in admitted
      BY <1>2, <1>14, <2>1, AdmittedAncestors DEF StorageAdmitted
    <3>2. x \in DOMAIN tailRecords \ Known
      BY <1>3, <1>8, <3>1 DEF StorageExact
    <3>3. ProducerPrefix(a) \in Approvals(x)
      BY <1>14, <2>1 DEF Approvals
    <3> QED BY <1>8, <1>11, <3>2, <3>3 DEF StorageExact
  <2>2. CASE a = r /\ e
    BY <1>12, <1>14, <2>2
  <2> QED BY <1>6, <2>1, <2>2
<1>15. ASSUME NEW x \in DOMAIN tailRecords' \ Known'
       PROVE  Approvals(x)' \subseteq tailRecords'[x].refSet
  BY <1>7, <1>14 DEF Approvals
<1> QED BY <1>13, <1>15

LEMMA StepStorageExact ==
  ASSUME StorageInv, StorageAdmitted, StorageExact, [StorageNext]_storageVars
  PROVE  StorageAdmitted' /\ StorageExact'
<1>1. ASSUME NEW r \in Record, NEW e \in BOOLEAN, Adds(r, e)
      PROVE  StorageAdmitted' /\ StorageExact'
  BY <1>1, AddsAdmitted, AddsExact
<1>2. CASE Reopens
  <2>1. ~ Undisturbed'
    BY <1>2 DEF Reopens, Undisturbed, StorageInv, QueueInv, TypeOK
  <2> QED BY <1>2, <2>1, ReopensAdmitted DEF StorageExact
<1>3. CASE QuietStorage
  <2>1. UNCHANGED <<tailRecords, backend, admitted, timedOut, restarts, lost>>
    BY <1>3 DEF QuietStorage, Quiet, ledgerVars
  <2>2. Known' = Known /\ \A x : Approvals(x)' = Approvals(x)
    BY <2>1 DEF Known, Approvals
  <2>3. StorageAdmitted'
    BY <2>1, <2>2 DEF StorageAdmitted, AdmittedClosed
  <2>4. StorageExact'
    BY <2>1, <2>2 DEF StorageExact, Undisturbed
  <2> QED BY <2>3, <2>4
<1> QED BY <1>1, <1>2, <1>3, StorageKinds

LEMMA StorageConfirms ==
  ASSUME StorageInv, StorageAdmitted, StorageExact
  PROVE  ConfirmedAtKOrUnwritten
<1> SUFFICES ASSUME Undisturbed
             PROVE  backend \cup unwritten
                      = {r \in admitted : Cardinality(Approvals(r)) >= confirmWeight}
  BY DEF ConfirmedAtKOrUnwritten
<1> DEFINE v == Without(tailRecords, Known)
<1>1. backend \cup unwritten = Known
  BY DEF Undisturbed, StorageInv, Known
<1>2. \A x \in Known : x \in admitted /\ Cardinality(Approvals(x)) >= confirmWeight
  BY DEF StorageInv, StorageAdmitted
<1>3. ASSUME NEW x \in admitted, Cardinality(Approvals(x)) >= confirmWeight, x \notin Known
      PROVE  FALSE
  <2>1. x \in DOMAIN tailRecords \ Known
    BY <1>3 DEF StorageExact
  <2>2. tailRecords[x].refSet = Approvals(x)
    BY <2>1 DEF StorageExact, StorageInv
  <2>3. x \in DOMAIN v /\ v[x] = tailRecords[x]
    BY <2>1 DEF Without
  <2>4. RecordInv(v, Known, x)
    BY <2>3, LinkInvParts DEF StorageInv
  <2>5. Weight(v, x) >= confirmWeight
    BY <1>3, <2>2, <2>3 DEF Weight
  <2> QED BY <1>3, <2>4, <2>5 DEF RecordInv
<1> QED BY <1>1, <1>2, <1>3

\* Until a restart or a timeout, what confirmWeight producers have approved is
\* stored or is what a failed write has left out, and nothing else is: the peer
\* counts on as if it had written all.
THEOREM ConfirmedAtKOrUnwrittenAlways == StorageSpec => []ConfirmedAtKOrUnwritten
<1>1. /\ StorageInit => StorageAdmitted /\ StorageExact
      /\ StorageInv /\ StorageAdmitted /\ StorageExact /\ [StorageNext]_storageVars
           => StorageAdmitted' /\ StorageExact'
  BY InitStorageExact, StepStorageExact
<1>2. StorageInv /\ StorageAdmitted /\ StorageExact => ConfirmedAtKOrUnwritten
  BY StorageConfirms
<1> QED BY <1>1, <1>2, StorageInvariant, PTL DEF StorageSpec

-----------------------------------------------------------------------------
(***************************************************************************)
(* What was confirmed, in the place of what is stored, is what one member  *)
(* of a replicated ledger has confirmed: a failure of the database takes   *)
(* records from it, and changes nothing else that a ledger promises.       *)
(***************************************************************************)
Intended == INSTANCE ReplicatedLedger
  WITH verified  <- [p \in Member |-> admitted],
       confirmed <- [p \in Member |-> Known]

LEMMA IntendedSame ==
  /\ \A r : Intended!PointersFromHeader(r) = PointersFromHeader(r)
  /\ Intended!GenesisRecords = GenesisRecords
  /\ \A S : Intended!Cardinality(S) = Cardinality(S)
  BY DEF Intended!PointersFromHeader, PointersFromHeader, Intended!GenesisRecords,
         GenesisRecords, Intended!Type, Type, Intended!Cardinality, Cardinality

LEMMA IntendedApprovals == \A r : Intended!Approvers(admitted', r) = Approvals(r)'
<1>1. Intended!AncestorsOf = AncestorsOf
  BY DEF Intended!AncestorsOf, AncestorsOf, Intended!PointersFromHeader, PointersFromHeader
<1>2. \A V, r : Intended!Approvers(V, r) =
        {ProducerPrefix(a) : a \in {x \in V : r \in AncestorsOf[x]}} \ {ProducerPrefix(r)}
  BY <1>1 DEF Intended!Approvers, Intended!ProducerPrefix, ProducerPrefix
<1> QED BY <1>2 DEF Approvals

\* To add an endorsed record is to verify it and to confirm what it confirms,
\* even if the process ends before that is written.
LEMMA AdditionVerifies ==
  ASSUME StorageInv, StorageAdmitted, StorageInv', NEW self, Member = {self},
         NEW r \in Record, Addable(r), NEW e \in BOOLEAN,
         Known' = Known \cup ConfirmedNow(r, e),
         admitted' = IF e THEN admitted \cup {r} ELSE admitted
  PROVE  Intended!Verify(self, r) \/ UNCHANGED <<admitted, Known>>
<1> DEFINE C == ConfirmedNow(r, e)
<1>1. TypeOK /\ \A x \in DOMAIN tailRecords : tailRecords[x].refSet \subseteq Approvals(x)
  BY DEF StorageInv, QueueInv
<1>2. C = Confirmed(WeighedNow(r, e), UpdatedNow(r, e))
  BY ConfirmedNowIs
<1>3. CASE ~ e
  <2>1. UpdatedNow(r, e) = {}
    BY <1>1, <1>3, WeighedNowTable
  <2>2. C = {}
    BY <1>2, <2>1 DEF Confirmed
  <2> QED BY <1>3, <2>2
<1>4. CASE e
  <2>1. PointersFromHeader(r) \subseteq admitted /\ C \subseteq admitted'
    BY <1>4, ConfirmedAdmitted
  <2>2. \A x \in C : Cardinality(Approvals(x)') >= confirmWeight
    BY <1>1, <1>2, ConfirmedApproved
  <2>3. Closed(Known')
    BY LinkInvParts DEF StorageInv
  <2>4. \A x \in C : PointersFromHeader(x) \subseteq Known'
    <3> HIDE DEF C
    <3> QED BY <2>3 DEF Closed, C
  <2>5. PICK D \in SUBSET admitted' :
          /\ Known' = Known \cup D
          /\ \A x \in D : /\ Cardinality(Approvals(x)') >= confirmWeight
                          /\ PointersFromHeader(x) \subseteq Known'
    <3> HIDE DEF C
    <3> QED BY <2>1, <2>2, <2>4 DEF C
  <2> HIDE DEF C
  <2>6. /\ [p \in Member |-> admitted'] =
             [[p \in Member |-> admitted] EXCEPT ![self] = admitted \cup {r}]
        /\ [p \in Member |-> Known'] =
             [[p \in Member |-> Known] EXCEPT ![self] = Known \cup D]
    BY <1>4, <2>5
  <2>7. D \in SUBSET {x \in admitted' :
                Intended!Cardinality(Intended!Approvers(admitted', x)) >= confirmWeight}
    BY <2>5, IntendedApprovals, IntendedSame
  <2>8. Intended!PointersFromHeader(r) \subseteq admitted
        /\ \A x \in D : Intended!PointersFromHeader(x) \subseteq Known'
    BY <2>1, <2>5, IntendedSame
  <2>9. Intended!Verify(self, r)
    BY <2>6, <2>7, <2>8 DEF Intended!Verify
  <2> QED BY <2>9
<1> QED BY <1>3, <1>4

LEMMA StorageVerifies ==
  ASSUME StorageInv, StorageAdmitted, StorageInv', [StorageNext]_storageVars,
         NEW self, Member = {self}
  PROVE  (\E r \in Record : Intended!Verify(self, r)) \/ UNCHANGED <<admitted, Known>>
<1>1. ASSUME NEW r \in Record, NEW e \in BOOLEAN, Adds(r, e)
      PROVE  Intended!Verify(self, r) \/ UNCHANGED <<admitted, Known>>
  <2>1. PICK W \in SUBSET ConfirmedNow(r, e) : AddWriting(r, e, W) /\ lost' = lost \cup W
    BY <1>1 DEF Adds
  <2>2. Known' = Known \cup ConfirmedNow(r, e) /\ Addable(r)
    BY <1>1, <2>1, KnownAfter DEF Adds
  <2>3. admitted' = IF e THEN admitted \cup {r} ELSE admitted
    BY <2>1, WriteDefinition
  <2> QED BY <2>2, <2>3, AdditionVerifies
<1>2. CASE Reopens
  <2>1. CASE backend' = backend /\ lost' = lost /\ admitted' = admitted
    BY <2>1 DEF Known
  <2>2. ASSUME NEW r \in Record, NEW e \in BOOLEAN, Addable(r),
               Known' = Known \cup ConfirmedNow(r, e),
               admitted' = IF e THEN admitted \cup {r} ELSE admitted
        PROVE  Intended!Verify(self, r) \/ UNCHANGED <<admitted, Known>>
    BY <2>2, AdditionVerifies
  <2> QED BY <1>2, <2>1, <2>2 DEF Reopens
<1>3. CASE QuietStorage
  BY <1>3 DEF QuietStorage, Quiet, ledgerVars, Known
<1> QED BY <1>1, <1>2, <1>3, StorageKinds

\* A peer whose writes fail, and which crashes between two of them, implements
\* the replicated ledger if what it should have stored counts as confirmed.
THEOREM ConfirmedImplementReplicatedLedger ==
  ASSUME NEW self, Member = {self}
  PROVE  StorageSpec => Intended!Spec
<1>1. StorageInit => Intended!Init
  <2> SUFFICES ASSUME StorageInit PROVE Intended!Init
    OBVIOUS
  <2>1. Known = {} /\ admitted = GenesisRecords
    BY DEF StorageInit, Init, Known
  <2> QED BY <2>1, IntendedSame DEF Intended!Init
<1>2. StorageInv /\ StorageAdmitted /\ StorageInv' /\ [StorageNext]_storageVars
        => [Intended!Next]_(Intended!vars)
  <2> SUFFICES ASSUME StorageInv, StorageAdmitted, StorageInv', [StorageNext]_storageVars
               PROVE  [Intended!Next]_(Intended!vars)
    OBVIOUS
  <2>1. (\E r \in Record : Intended!Verify(self, r)) \/ UNCHANGED <<admitted, Known>>
    BY StorageVerifies
  <2> QED BY <2>1 DEF Intended!Next, Intended!vars
<1>3. /\ StorageInit => StorageAdmitted /\ StorageExact
      /\ StorageInv /\ StorageAdmitted /\ StorageExact /\ [StorageNext]_storageVars
           => StorageAdmitted' /\ StorageExact'
  BY InitStorageExact, StepStorageExact
<1> QED BY <1>1, <1>2, <1>3, StorageInvariant, PTL DEF StorageSpec, Intended!Spec
=============================================================================
