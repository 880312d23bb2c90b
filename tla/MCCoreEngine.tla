---------------------------- MODULE MCCoreEngine ----------------------------
(***************************************************************************)
(* CoreEngine on two transactions, of which one does not execute           *)
(* deterministically, and one verification at a time besides the one       *)
(* AddBlock makes itself.                                                  *)
(***************************************************************************)
EXTENDS CoreEngine

ConfigsAll == { [type |-> "on", capacity |-> 1, maxHeight |-> 2],
                [type |-> "on", capacity |-> 2, maxHeight |-> 1],
                [type |-> "after", capacity |-> 2, maxHeight |-> 1] }

ConfigsAfter == { [type |-> "after", capacity |-> 2, maxHeight |-> 1] }
=============================================================================
