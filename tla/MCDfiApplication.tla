-------------------------- MODULE MCDfiApplication --------------------------
(***************************************************************************)
(* A data record with too few items, one with too many and one whose item  *)
(* is no number, one code record that compiles and one that does not, and  *)
(* one output record of this peer.  The guest of the good one returns at   *)
(* once, calls a function of the host first, calls one the host does not   *)
(* have, sends an empty block, never ends, or ends without a result.       *)
(***************************************************************************)
EXTENDS DfiApplication

CONSTANTS d1, d2, word, filter, broken, output, none

MCRecord == {d1, d2, word, filter, broken, output}
MCScripts == {<<"DONE">>, <<"GETB", "DONE">>, <<"NOPE", "DONE">>, <<"NULL">>, <<"spin">>, <<>>}
MCFirstByte == [r \in MCRecord |-> IF r = d1 THEN {0, 1} ELSE {2}]
MCBehaviour == [c \in {filter, broken} |-> MCScripts]
=============================================================================
