------------------------------- MODULE Output -------------------------------
(***************************************************************************)
(* What a run keeps of a stream of output (ssh-core/run.rs: Collected):    *)
(* the beginning of it, how long it was, and whether anything in it looked *)
(* like a secret (ssh-core/audit.rs: secret_shape).  The stream arrives in *)
(* pieces, cut anywhere.                                                   *)
(***************************************************************************)
EXTENDS Naturals, Sequences, SequencesExt

CONSTANTS
    Bytes,
    Shapes,   \* SECRET_SHAPES
    Longest,  \* LONGEST_SECRET_SHAPE
    Limit,    \* Limits::output_bytes
    MaxStream \* bound: how long a stream may get

ASSUME OutputAssumption ==
    /\ Shapes \subseteq Seq(Bytes)
    /\ \A shape \in Shapes : Len(shape) \in 1 .. Longest
    /\ Longest \in Nat
    /\ Limit \in Nat
    /\ MaxStream \in Nat

VARIABLES
    printed,  \* what has arrived of the stream; it is nowhere held as a whole
    collected \* Collected

collectedVars == <<printed, collected>>

(* secret_shape: some shape is a part of the text, from its byte i on. *)
ShapeAt(shape, text, i) ==
    /\ i + Len(shape) - 1 <= Len(text)
    /\ \A k \in 1 .. Len(shape) : text[i + k - 1] = shape[k]

SecretShape(text) == \E shape \in Shapes : \E i \in 1 .. Len(text) : ShapeAt(shape, text, i)

(* The last n bytes, the first n bytes. *)
LastOf(text, n) == IF Len(text) <= n THEN text ELSE SubSeq(text, Len(text) - n + 1, Len(text))
FirstOf(text, n) == IF Len(text) <= n THEN text ELSE SubSeq(text, 1, n)

Keeping == [kept : Seq(Bytes), seen : Nat, matched : BOOLEAN, carried : Seq(Bytes)]

New == [kept |-> <<>>, seen |-> 0, matched |-> FALSE, carried |-> <<>>]

(* Mutant: what is carried over is the end of the piece, not of the window. *)
Push_CarriesPiece(c, data) ==
    LET window == c.carried \o data
    IN [kept |-> c.kept \o FirstOf(data, Limit - Len(c.kept)),
        seen |-> c.seen + Len(data),
        matched |-> c.matched \/ SecretShape(window),
        carried |-> IF c.matched THEN c.carried ELSE LastOf(data, Longest)]

Push(c, data) ==
    LET window == c.carried \o data
    IN [kept |-> c.kept \o FirstOf(data, Limit - Len(c.kept)),
        seen |-> c.seen + Len(data),
        matched |-> c.matched \/ SecretShape(window),
        carried |-> IF c.matched THEN c.carried ELSE LastOf(window, Longest)]

(* Collected::snapshot: Stream::truncated *)
Truncated(c) == c.seen > Len(c.kept)

-----------------------------------------------------------------------------
CollectedInit == printed = <<>> /\ collected = New

(* Collected::push, of the next piece: the target may cut the stream anywhere. *)
Arrive(piece) == printed' = printed \o piece /\ collected' = Push(collected, piece)

CollectedNext == \E piece \in BoundedSeq(Bytes, MaxStream - Len(printed)) : Arrive(piece)

CollectedSpec == CollectedInit /\ [][CollectedNext]_collectedVars

-----------------------------------------------------------------------------
(* Properties *)

(* Whatever a stream holds and however it arrives, a secret is found exactly when the
   stream has one, what is kept is its beginning, and how much of it is missing is told:
   run.rs, "so a shape falling across the join between two of them is still seen". *)
OutputTells ==
    /\ collected.matched = SecretShape(printed)
    /\ collected.kept = FirstOf(printed, Limit)
    /\ collected.seen = Len(printed)
    /\ Truncated(collected) = (Len(printed) > Limit)
=============================================================================
