-------------------------------- MODULE Texts --------------------------------
(***************************************************************************)
(* What the parsers of relay_rpc use of Rust's strings.  A text is a       *)
(* sequence of atoms: delimiters, digits, signs and words, where a word    *)
(* stands for any run of characters that no parser takes apart.  A value   *)
(* that may be missing is a sequence of at most one.                       *)
(***************************************************************************)
EXTENDS Naturals, Sequences, FiniteSetsExt

Text == Seq(STRING)

(* The delimiters and atoms that the code writes into texts.               *)
ASSUME AtomsAssumption == {"-", "/", ":", "0", "ios", "\n"} \subseteq STRING

LineBreak == "\n"

None        == <<>>
Some(v)     == <<v>>
OptionOf(S) == {f \in Seq(S) : Len(f) <= 1}

Ok(v)        == [ok |-> TRUE, value |-> v]
Fails(error) == [ok |-> FALSE, error |-> error]

Positions(t, atom) == {n \in DOMAIN t : t[n] = atom}

Before(t, n) == SubSeq(t, 1, n - 1)
After(t, n)  == SubSeq(t, n + 1, Len(t))

(* str::splitn(2, atom): the pieces, of which there may be but one.        *)
SplitOnce(t, atom) ==
    IF Positions(t, atom) = {} THEN <<t>>
    ELSE LET n == Min(Positions(t, atom)) IN <<Before(t, n), After(t, n)>>

HasPrefix(t, atom) == t # <<>> /\ t[1] = atom

(* str::to_lowercase(), of the one word that is met in upper case.         *)
Lowercase(t) == [n \in DOMAIN t |-> IF t[n] = "IOS" THEN "ios" ELSE t[n]]
=============================================================================
