------------------------------ MODULE MCRecord ------------------------------
(* Small instances, for TLC, of the record: the ledger that keeps it, and the desk at
   which what it holds is asked for, decided and shown.  The two are models of their
   own and share no state, so each is explored by itself: `part` says which, and the
   other stays as it began. *)
EXTENDS Ledger, Desk, TLC

VARIABLE part

recordVars == <<vars, deskVars, part>>

Operators == Permutations(Forms)

RecordInit == part \in {"ledger", "desk"} /\ Init /\ DeskInit

(* At the desk everything may be decided and over. *)
AtRest == part = "desk" /\ UNCHANGED recordVars

RecordNext ==
    \/ part = "ledger" /\ Next /\ UNCHANGED <<deskVars, part>>
    \/ part = "desk" /\ DeskNext /\ UNCHANGED <<vars, part>>
    \/ AtRest

RecordSpec == RecordInit /\ [][RecordNext]_recordVars
=============================================================================
