-------------------------- MODULE ReplicatedLedger --------------------------
(***************************************************************************)
(* What a DLedger promises, without tailing records, sync Interests or     *)
(* fetching: each member has a growing set of records it has verified,     *)
(* each after the records it points to and after its producer, and a       *)
(* growing set of confirmed ones, each approved by confirmWeight members   *)
(* as far as this member knows.                                            *)
(*                                                                         *)
(* Ledger implements it for a single member, whatever the other peers do,  *)
(* and Network for the peers of the network together.                      *)
(***************************************************************************)
EXTENDS RecordDag

CONSTANTS
  Member,        \* peers
  confirmWeight

VARIABLES
  verified,   \* member -> records it has verified so far
  confirmed   \* member -> records in its database

vars == <<verified, confirmed>>

\* The producers that have built on r, directly or not, among the records V.
Approvers(V, r) ==
  {ProducerPrefix(a) : a \in {x \in V : r \in AncestorsOf[x]}} \ {ProducerPrefix(r)}

Init ==
  /\ verified = [p \in Member |-> GenesisRecords]
  /\ confirmed = [p \in Member |-> {}]

\* A member verifies a record, for the first time or, having restarted, again;
\* some records are confirmed with all they rest on.
Verify(p, r) ==
  /\ PointersFromHeader(r) \subseteq verified[p]
  /\ ProducerPrefix(r) \in Member \ {p} => r \in verified[ProducerPrefix(r)]
  /\ verified' = [verified EXCEPT ![p] = @ \cup {r}]
  /\ \E C \in SUBSET {x \in verified'[p] :
                         Cardinality(Approvers(verified'[p], x)) >= confirmWeight} :
       /\ confirmed' = [confirmed EXCEPT ![p] = @ \cup C]
       /\ \A x \in C : PointersFromHeader(x) \subseteq confirmed'[p]

Next == \E p \in Member, r \in Record : Verify(p, r)

Spec == Init /\ [][Next]_vars

-----------------------------------------------------------------------------
RLTypeOK ==
  /\ verified \in [Member -> SUBSET Record]
  /\ confirmed \in [Member -> SUBSET Record]

(***************************************************************************)
(* A record that one member has confirmed was verified by confirmWeight    *)
(* members besides its producer.  The member that confirms it has seen     *)
(* only records of the others; that their producers had verified what they *)
(* approve is what the signed DAG stands for.  Whether they still hold it  *)
(* is another matter: see Persistence in Network.                          *)
(***************************************************************************)
Verifiers(r) == {q \in Member : r \in verified[q]} \ {ProducerPrefix(r)}

Persistent ==
  (\A r \in Record \ GenesisRecords : ProducerPrefix(r) \in Member) =>
    \A p \in Member : \A r \in confirmed[p] :
      Cardinality(Verifiers(r)) >= confirmWeight
=============================================================================
