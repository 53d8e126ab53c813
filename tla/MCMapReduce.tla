---------------------------- MODULE MCMapReduce ----------------------------
(* A small instance of MapReduce for TLC. *)
EXTENDS MapReduce, TLC

CONSTANTS a, b, dot, first, second

(* One run gets any text of at most four bytes, or of five or six without  *)
(* punctuation: chunks of zero, one and two bytes, and longer last ones.   *)
AllTexts == UNION {[1..n -> {a, dot, Blank}] : n \in 0..4}
              \cup UNION {[1..n -> {a, Blank}] : n \in 5..6}

(* The other, before or after it, one of three of unlike words and length. *)
FewTexts == {<<a, Blank, b, Blank, a>>, <<b, b, Blank, a>>, <<a>>}

RunTexts == (first :> FewTexts) @@ (second :> AllTexts)
=============================================================================
