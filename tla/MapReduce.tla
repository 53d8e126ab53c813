------------------------------ MODULE MapReduce ------------------------------
(***************************************************************************)
(* The MapReduce pipeline (Assignment 4): the driver                       *)
(* measure_mapreduce.py calls the splitter, three mappers and the reducer, *)
(* which pass their results through fixed keys of one bucket.  Each run of *)
(* the driver leaves its objects behind for the next.  The driver looks at *)
(* no status code, only for the fields of the splitter's and the reducer's *)
(* answers.                                                                *)
(***************************************************************************)
EXTENDS WordCount

CONSTANTS Runs,       \* driver runs
          Texts,      \* run -> inputs it may be given
          Faults      \* "calls": S3 may return an error; "bodies": what it
                      \* sends may be cut short

ASSUME RunAssumption == /\ \A r \in Runs : Texts[r] \subseteq Seq(Bytes)
                        /\ Faults \subseteq {"calls", "bodies"}

Parts == 0..2

VARIABLES chunk,    \* objects chunk-<i>.txt, for the i that exist
          mapped,   \* objects mapper-<i>-result-timed.json, likewise
          final,    \* object final-result-timed.json, empty at first
          runs,     \* run -> driver's progress and the handlers' local state
          fault     \* the kind of fault that may occur: one kind at a time

vars == <<chunk, mapped, final, runs, fault>>

(* step counts the chunks uploaded, the mappers called and the results     *)
(* reduced; content is what the splitter read of the run's text.  failed   *)
(* and short are history: a mapper answered 500, a body was cut short.     *)
Init ==
    /\ fault \in Faults
    /\ chunk = [i \in {} |-> <<>>]
    /\ mapped = [i \in {} |-> NoCounts]
    /\ final = NoCounts
    /\ runs = [r \in Runs |-> [phase |-> "new", step |-> 0, text |-> <<>>,
                               content |-> <<>>, sum |-> NoCounts,
                               failed |-> FALSE, short |-> FALSE]]

(* S3's PutObject: what is under the key is replaced. *)
PutObject(objects, i, body) ==
    [j \in DOMAIN objects \cup {i} |-> IF j = i THEN body ELSE objects[j]]

Active(r) == runs[r].phase \notin {"new", "done", "aborted"}

TypeOK ==
    /\ DOMAIN chunk \subseteq Parts /\ DOMAIN mapped \subseteq Parts
    /\ \A r \in Runs :
          /\ runs[r].phase \in {"new", "split", "map", "reduce", "done",
                                "aborted"}
          /\ runs[r].step \in 0..3
          /\ runs[r].failed \in BOOLEAN
          /\ runs[r].short \in BOOLEAN

(* What buf.ReadFrom may leave of an object's body.  Its error is ignored. *)
(* At most one body of a run is cut short.                                 *)
Arrives(r, body) ==
    {body} \cup IF fault = "bodies" /\ ~runs[r].short
               THEN {SubSeq(body, 1, n) : n \in 0..(Len(body) - 1)} ELSE {}

(* The driver is started again when its last run has ended, and splitHandler *)
(* downloads the text.                                                       *)
Begin(r, t) ==
    /\ runs[r].phase = "new"
    /\ \A q \in Runs : ~Active(q)
    /\ \E content \in Arrives(r, t) :
          runs' = [runs EXCEPT ![r].phase = "split", ![r].text = t,
                               ![r].content = content,
                               ![r].short = content # t]
    /\ UNCHANGED <<chunk, mapped, final, fault>>

(* The run moves to its next step, or to phase p when it has done three. *)
Advance(r, p, short) ==
    runs' = [runs EXCEPT ![r].step = IF @ = 2 THEN 0 ELSE @ + 1,
                         ![r].phase = IF runs[r].step = 2 THEN p ELSE @,
                         ![r].short = short]

(* Mutant: an empty chunk is not uploaded. *)
SplitSkipsEmpty(r) ==
    /\ runs[r].phase = "split"
    /\ LET i == runs[r].step
           c == Chunk(runs[r].content, i)
       IN  chunk' = IF c = <<>> THEN chunk ELSE PutObject(chunk, i, c)
    /\ Advance(r, "map", runs[r].short)
    /\ UNCHANGED <<mapped, final, fault>>

(* splitHandler: the upload of one chunk. *)
Split(r) ==
    /\ runs[r].phase = "split"
    /\ LET i == runs[r].step
       IN  chunk' = PutObject(chunk, i, Chunk(runs[r].content, i))
    /\ Advance(r, "map", runs[r].short)
    /\ UNCHANGED <<mapped, final, fault>>

(* mapHandler for one chunk, between its two calls to S3 nothing is kept. *)
Map(r) ==
    /\ runs[r].phase = "map"
    /\ LET i == runs[r].step
       IN  /\ i \in DOMAIN chunk
           /\ \E content \in Arrives(r, chunk[i]) :
                 /\ mapped' = PutObject(mapped, i, Counts(content))
                 /\ Advance(r, "reduce", runs[r].short \/ content # chunk[i])
    /\ UNCHANGED <<chunk, final, fault>>

(* mapHandler answers 500, perhaps after S3 took its result; the driver    *)
(* goes on as if it had not.                                               *)
MapFails(r) ==
    /\ runs[r].phase = "map"
    /\ LET i == runs[r].step
       IN  /\ fault = "calls" \/ i \notin DOMAIN chunk
           /\ mapped' \in {mapped} \cup
                 {PutObject(mapped, j, Counts(chunk[j])) : j \in {i} \cap DOMAIN chunk}
    /\ runs' = [runs EXCEPT ![r].step = IF @ = 2 THEN 0 ELSE @ + 1,
                            ![r].phase = IF runs[r].step = 2 THEN "reduce" ELSE @,
                            ![r].failed = TRUE]
    /\ UNCHANGED <<chunk, final, fault>>

(* reduceHandler: one mapper's result, and the upload after the third. *)
Reduce(r) ==
    /\ runs[r].phase = "reduce"
    /\ LET i == runs[r].step
           sum == Merge(runs[r].sum, mapped[i])
       IN  /\ i \in DOMAIN mapped
           /\ runs' = [runs EXCEPT ![r].sum = sum,
                                   ![r].step = IF i = 2 THEN 0 ELSE i + 1,
                                   ![r].phase = IF i = 2 THEN "done" ELSE @]
           /\ final' = IF i = 2 THEN sum ELSE final
    /\ UNCHANGED <<chunk, mapped, fault>>

(* A 500 of the splitter or the reducer: the driver dies on the missing    *)
(* field.  The upload whose error is answered may have taken effect.       *)
SplitFails(r) ==
    /\ runs[r].phase = "split"
    /\ fault = "calls"
    /\ LET i == runs[r].step
       IN  chunk' \in {chunk, PutObject(chunk, i, Chunk(runs[r].content, i))}
    /\ runs' = [runs EXCEPT ![r].phase = "aborted"]
    /\ UNCHANGED <<mapped, final, fault>>

(* The reducer answers 500 also for a result that is not in the bucket.    *)
ReduceFails(r) ==
    /\ runs[r].phase = "reduce"
    /\ LET i == runs[r].step
       IN  /\ fault = "calls" \/ i \notin DOMAIN mapped
           /\ final' \in {final} \cup
                 {Merge(runs[r].sum, mapped[j]) : j \in {2} \cap {i} \cap DOMAIN mapped}
    /\ runs' = [runs EXCEPT ![r].phase = "aborted"]
    /\ UNCHANGED <<chunk, mapped, fault>>

Next == \E r \in Runs : \/ \E t \in Texts[r] : Begin(r, t)
                        \/ Split(r) \/ Map(r) \/ MapFails(r)
                        \/ SplitFails(r) \/ Reduce(r) \/ ReduceFails(r)

Spec == Init /\ [][Next]_vars

-----------------------------------------------------------------------------
(* Properties *)

(* A run in which no mapper failed and no body was cut short returns the   *)
(* counts of its three chunks, whatever earlier runs left in the bucket.   *)
ReducedOwnChunks ==
    \A r \in Runs :
        runs[r].phase = "done" /\ ~runs[r].failed /\ ~runs[r].short =>
            LET t == runs[r].text
            IN  runs[r].sum = Merge(Merge(Counts(Chunk(t, 0)),
                                          Counts(Chunk(t, 1))),
                                    Counts(Chunk(t, 2)))

(* It agrees with sequential_wordcount.py on every text in which no chunk  *)
(* boundary falls inside a word.  Each boundary makes at most one word     *)
(* more, and a body that is cut short, which nobody notices, none.         *)
AgreesUnlessCut ==
    \A r \in Runs :
        runs[r].phase = "done" /\ ~runs[r].failed =>
            LET all == Counts(runs[r].text)
            IN  /\ ~CutsWord(runs[r].text) /\ ~runs[r].short =>
                      runs[r].sum = all
                /\ Total(runs[r].sum) <= Total(all) + 2
=============================================================================
