----------------------------- MODULE WordCount -----------------------------
(***************************************************************************)
(* Texts and word counts of the MapReduce word count (Assignment 4).  A    *)
(* text is a sequence of bytes.  A word is a maximal run of bytes that are *)
(* not blank, without the punctuation at its two ends; a run of nothing    *)
(* but punctuation is no word.  A byte stands for its lower-case form.     *)
(***************************************************************************)
EXTENDS Integers, Sequences, FiniteSets

CONSTANTS Letters, Punctuation, Blank

Bytes == Letters \cup Punctuation \cup {Blank}

(* strings.Fields: the places of the maximal runs of non-blank bytes. *)
Fields(t) ==
    {f \in (1..Len(t)) \X (1..Len(t)) :
        /\ f[1] <= f[2]
        /\ \A n \in f[1]..f[2] : t[n] # Blank
        /\ f[1] = 1 \/ t[f[1] - 1] = Blank
        /\ f[2] = Len(t) \/ t[f[2] + 1] = Blank}

(* strings.Trim: the word of the field at <<i, j>>, <<>> when it is empty. *)
Trim(t, i, j) ==
    LET kept == {n \in i..j : t[n] \notin Punctuation}
    IN  IF kept = {} THEN <<>>
        ELSE SubSeq(t, CHOOSE n \in kept : \A m \in kept : n <= m,
                       CHOOSE n \in kept : \A m \in kept : m <= n)

WordAt(t, f) == Trim(t, f[1], f[2])

(* The loop of mapHandler: the words of the text and how often each is.    *)
Counts(t) ==
    LET words == {WordAt(t, f) : f \in Fields(t)} \ {<<>>}
    IN  [w \in words |-> Cardinality({f \in Fields(t) : WordAt(t, f) = w})]

NoCounts == [w \in {} |-> 0]

(* How many words there are in all: one for each word and number up to its *)
(* count.                                                                  *)
Occurrences(c) == UNION {{w} \X (1..c[w]) : w \in DOMAIN c}

Total(c) == Cardinality(Occurrences(c))

Count(c, w) == IF w \in DOMAIN c THEN c[w] ELSE 0

(* The loop of reduceHandler that adds one mapper's counts. *)
Merge(c, d) ==
    [w \in DOMAIN c \cup DOMAIN d |-> Count(c, w) + Count(d, w)]

(* Mutant: the last chunk has the length of the others. *)
ChunkEqual(t, i) ==
    LET size == Len(t) \div 3
    IN  SubSeq(t, i * size + 1, (i + 1) * size)

(* splitHandler: the i-th of three chunks, i from 0. *)
Chunk(t, i) ==
    LET size == Len(t) \div 3
    IN  SubSeq(t, i * size + 1, IF i = 2 THEN Len(t) ELSE (i + 1) * size)

(* A cut between two chunks lies inside a field. *)
CutsWord(t) ==
    LET size == Len(t) \div 3
    IN  \E n \in {size, 2 * size} : /\ n > 0
                                    /\ t[n] # Blank
                                    /\ t[n + 1] # Blank
=============================================================================
