-------------------------- MODULE MCRecordBuilding --------------------------
(***************************************************************************)
(* Three records to link to, two certificate records, three attempts.      *)
(***************************************************************************)
EXTENDS RecordBuilding

CONSTANTS t1, t2, t3, k1, k2, content

MCTailRecord     == {t1, t2, t3}
MCCertRecord == {k1, k2}
MCContent    == {content}
=============================================================================
