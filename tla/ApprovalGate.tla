---------------------------- MODULE ApprovalGate ----------------------------
(***************************************************************************)
(* What the approval boundary promises the audit record, with no session,  *)
(* no lock and no clock: a request is answered at most once; a receipt to  *)
(* run is minted only from a request answered with yes; and each yes is    *)
(* worth one receipt.                                                      *)
(***************************************************************************)
EXTENDS Naturals

CONSTANT Requests

VARIABLES
    yes,    \* requests whose recorded answer is yes
    no,     \* requests whose recorded answer is no
    minted  \* how many receipts each request has given

vars == <<yes, no, minted>>

Init ==
    /\ yes = {}
    /\ no = {}
    /\ minted = [r \in Requests |-> 0]

Agree(r) ==
    /\ r \notin yes \cup no
    /\ yes' = yes \cup {r}
    /\ UNCHANGED <<no, minted>>

Refuse(r) ==
    /\ r \notin yes \cup no
    /\ no' = no \cup {r}
    /\ UNCHANGED <<yes, minted>>

Mint(r) ==
    /\ r \in yes
    /\ minted[r] = 0
    /\ minted' = [minted EXCEPT ![r] = 1]
    /\ UNCHANGED <<yes, no>>

Next == \E r \in Requests : Agree(r) \/ Refuse(r) \/ Mint(r)

Spec == Init /\ [][Next]_vars
=============================================================================
