------------------------------ MODULE Commands ------------------------------
(***************************************************************************)
(* How a command crosses the wire (ssh-core/command.rs): an argument       *)
(* vector is accepted within limits, and rendered as one string that the   *)
(* login shell of the target splits again.  The shell is not part of the   *)
(* program; ReadsChar is what POSIX says of the three characters that      *)
(* to_wire adds, and takes every other character outside quotes for        *)
(* syntax.                                                                 *)
(***************************************************************************)
EXTENDS Naturals, Sequences, SequencesExt

CONSTANTS
    Plain,           \* characters that mean nothing to a shell inside quotes: all but the quote and NUL
    MaxArgs,         \* MAX_ARGS
    MaxWire,         \* MAX_WIRE_BYTES
    Longer           \* bound: the arguments that are checked

ASSUME CommandsAssumption == MaxArgs \in Nat /\ MaxWire \in Nat /\ Longer \in Nat

VARIABLES
    argv,     \* the vector that is asked for
    rendered, \* what to_wire has made of it
    shell,    \* a shell that has read that
    place     \* where to_wire is: the argument, and how many of its characters are rendered

commandVars == <<argv, rendered, shell, place>>

Chars == Plain \cup {"quote", "NUL"}

(* MAX_BYTES: quoting takes up to four bytes for one, and an argument three more. *)
MaxBytesOfArgs == IF MaxWire \div 4 > MaxArgs * 3 THEN MaxWire \div 4 - MaxArgs * 3 ELSE 0

AddsUp(sum, arg) == sum + Len(arg)
Total(args) == FoldLeft(AddsUp, 0, args)

(* Command::new *)
Accepted(args) ==
    /\ args # <<>>
    /\ args[1] # <<>>
    /\ Len(args) <= MaxArgs
    /\ Total(args) <= MaxBytesOfArgs
    /\ \A i \in DOMAIN args : "NUL" \notin Range(args[i])

-----------------------------------------------------------------------------
(* The shell of the target *)

(* It is between two words, or in one, part of which may be in quotes. *)
Between == [mode |-> "between", word |-> <<>>, words |-> <<>>]

Gains(s, char) == [s EXCEPT !.word = Append(@, char)]
Turns(s, mode) == [s EXCEPT !.mode = mode]

(* It is given a string that ends at the first NUL. *)
ReadsChar(s, char) ==
    IF s.mode = "over" \/ char = "NUL" THEN Turns(s, "over")
    ELSE IF s.mode = "escaped" THEN Turns(Gains(s, char), "in a word")
    ELSE IF s.mode = "quoted" THEN IF char = "quote" THEN Turns(s, "in a word") ELSE Gains(s, char)
    ELSE IF char = "quote" THEN Turns(s, "quoted")
    ELSE IF char = "backslash" THEN Turns(s, "escaped")
    ELSE IF char # "blank" THEN Turns(s, "over")
    ELSE IF s.mode = "between" THEN s
    ELSE [mode |-> "between", word |-> <<>>, words |-> Append(s.words, s.word)]

(* A quote that is never closed, and anything it would have to interpret, is not a
   plain list of words: no vector that is accepted. *)
WordsOf(s) ==
    CASE s.mode = "between" -> s.words
      [] s.mode = "in a word" -> Append(s.words, s.word)
      [] OTHER -> <<>>

-----------------------------------------------------------------------------
(* Command::new and to_wire *)

Argvs == UNION {[1 .. n -> BoundedSeq(Chars, Longer)] : n \in 0 .. MaxArgs + 1}

CommandsInit ==
    /\ argv \in Argvs
    /\ rendered = <<>> /\ shell = Between
    /\ place = [at |-> "new", arg |-> 1, char |-> 0]

NewCommand ==
    /\ place.at = "new"
    /\ place' = [place EXCEPT !.at = IF Accepted(argv) THEN "between" ELSE "refused"]
    /\ UNCHANGED <<argv, rendered, shell>>

Emits(chars) ==
    /\ rendered' = rendered \o chars
    /\ shell' = FoldLeft(ReadsChar, shell, chars)
    /\ UNCHANGED argv

OpenQuotes ==
    /\ place.at = "between"
    /\ Emits(IF place.arg = 1 THEN <<"quote">> ELSE <<"blank", "quote">>)
    /\ place' = [place EXCEPT !.at = "inside"]

(* A quote is written by closing the quotes, escaping one, and opening them again.
   Mutant: it is escaped inside the quotes. *)
Quoted_EscapesInside(char) == IF char = "quote" THEN <<"backslash", "quote">> ELSE <<char>>

Quoted(char) == IF char = "quote" THEN <<"quote", "backslash", "quote", "quote">> ELSE <<char>>

RenderChar ==
    /\ place.at = "inside"
    /\ place.char < Len(argv[place.arg])
    /\ Emits(Quoted(argv[place.arg][place.char + 1]))
    /\ place' = [place EXCEPT !.char = @ + 1]

CloseQuotes ==
    /\ place.at = "inside"
    /\ place.char = Len(argv[place.arg])
    /\ Emits(<<"quote">>)
    /\ place' = IF place.arg = Len(argv) THEN [place EXCEPT !.at = "sent"]
                ELSE [at |-> "between", arg |-> place.arg + 1, char |-> 0]

CommandsNext == NewCommand \/ OpenQuotes \/ RenderChar \/ CloseQuotes

CommandsSpec == CommandsInit /\ [][CommandsNext]_commandVars

-----------------------------------------------------------------------------
(* Properties *)

(* Whatever command is accepted, it arrives as the vector that was authorized, and
   fits: command.rs, "anything accepted here renders to something the target can
   actually exec", and "getting it wrong means an argument becomes syntax". *)
AuthorizedCommandArrives ==
    place.at = "sent" => WordsOf(shell) = argv /\ Len(rendered) <= MaxWire
=============================================================================
