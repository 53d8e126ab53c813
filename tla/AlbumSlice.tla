----------------------------- MODULE AlbumSlice -----------------------------
(***************************************************************************)
(* The album list of the Gin services (server/main.go of the mid-term      *)
(* project; Assignment 1 and Assignment 4 have the same handlers): a       *)
(* global slice that concurrent handlers read and append to without a      *)
(* lock.                                                                   *)
(*                                                                         *)
(* A slice is three words, ptr, len and cap.  A handler loads them one by  *)
(* one, in any order; albums = append(albums, x) stores those it changes   *)
(* one by one, in the order the compiler gives: cap and ptr if the array   *)
(* had to grow, then len, then the element.  Words of several appends may  *)
(* mix, and an access past the end of an array may do anything: it sets    *)
(* corrupted, and nothing is claimed from then on.                         *)
(***************************************************************************)
EXTENDS Integers

CONSTANTS Posts,     \* POST requests, each with an album of its own
          Gets,      \* GET requests
          Seeds,     \* albums in the list at the start
          Earlier    \* numbers of POSTs that may be over when the model starts

ASSUME SliceAssumption == /\ Seeds \in Nat \ {0} /\ Earlier \subseteq 0..(3 * Seeds)
                          /\ "first" \notin Posts

VARIABLES header,      \* the words of albums
          arrays,      \* array -> its cells; "first", and one for each growth
          posts, gets, \* request -> its handler's progress and loaded words
          corrupted,   \* an array was accessed past its end
          overlapped   \* history: posts that ran while another one did

slice == <<header, arrays, posts, gets, corrupted, overlapped>>

Word == {"ptr", "len", "cap"}

(* f with one more argument. *)
With(f, x, value) == [y \in DOMAIN f \cup {x} |-> IF y = x THEN value ELSE f[y]]

Cells(array) == DOMAIN arrays[array]

(* The list after so many POSTs, one by one: full arrays were doubled. *)
CapacityFor(n) == IF n <= Seeds THEN Seeds
                  ELSE IF n <= 2 * Seeds THEN 2 * Seeds ELSE 4 * Seeds

SliceInit ==
    /\ \E n \in {Seeds + e : e \in Earlier} :
          /\ header = [ptr |-> "first", len |-> n, cap |-> CapacityFor(n)]
          /\ arrays = [a \in {"first"} |->
                         [i \in 1..CapacityFor(n) |->
                            IF i <= n THEN "seed" ELSE "blank"]]
    /\ posts = [p \in Posts |-> [phase |-> "new", words |-> <<>>]]
    /\ gets = [g \in Gets |-> [phase |-> "new", words |-> <<>>,
                               before |-> {}, seen |-> {}]]
    /\ corrupted = FALSE
    /\ overlapped = {}

-----------------------------------------------------------------------------
(* postAlbums *)

Running == {p \in Posts : posts[p].phase \notin {"new", "done"}}

PostBegin(p) ==
    /\ posts[p].phase = "new"
    /\ posts' = [posts EXCEPT ![p].phase = "loading"]
    /\ overlapped' = IF Running = {} THEN overlapped
                     ELSE overlapped \cup Running \cup {p}
    /\ UNCHANGED <<header, arrays, gets, corrupted>>

PostLoad(p, w) ==
    /\ posts[p].phase = "loading"
    /\ w \in Word \ DOMAIN posts[p].words
    /\ posts' = [posts EXCEPT ![p].words = With(@, w, header[w])]
    /\ UNCHANGED <<header, arrays, gets, corrupted, overlapped>>

(* Mutant: the last element is left behind when the array grows. *)
GrownShort(words, cap) ==
    [i \in 1..cap |-> IF i < words.len /\ i \in Cells(words.ptr)
                      THEN arrays[words.ptr][i] ELSE "blank"]

(* growslice: a new array with the elements the handler knows. *)
Grown(words, cap) ==
    [i \in 1..cap |-> IF i <= words.len /\ i \in Cells(words.ptr)
                      THEN arrays[words.ptr][i] ELSE "blank"]

(* The three words are loaded and there is room for one more, or not. *)
PostAppend(p) ==
    LET words == posts[p].words
        len == words.len + 1
        cap == IF len > 2 * words.cap THEN len ELSE 2 * words.cap
    IN  /\ posts[p].phase = "loading"
        /\ DOMAIN words = Word
        /\ IF len <= words.cap
           THEN /\ posts' = [posts EXCEPT ![p] =
                               [phase |-> "len", words |-> [words EXCEPT !.len = len]]]
                /\ UNCHANGED <<arrays, corrupted>>
           ELSE /\ posts' = [posts EXCEPT ![p] =
                               [phase |-> "cap",
                                words |-> [ptr |-> p, len |-> len, cap |-> cap]]]
                /\ arrays' = With(arrays, p, Grown(words, cap))
                /\ corrupted' = (corrupted \/ words.len \notin Cells(words.ptr))
        /\ UNCHANGED <<header, gets, overlapped>>

PostStore(p, w, next) ==
    /\ posts[p].phase = w
    /\ header' = [header EXCEPT ![w] = posts[p].words[w]]
    /\ posts' = [posts EXCEPT ![p].phase = next]
    /\ UNCHANGED <<arrays, gets, corrupted, overlapped>>

PostElement(p) ==
    LET words == posts[p].words
    IN  /\ posts[p].phase = "element"
        /\ IF words.len \in Cells(words.ptr)
           THEN arrays' = [arrays EXCEPT ![words.ptr][words.len] = p]
                /\ UNCHANGED corrupted
           ELSE corrupted' = TRUE /\ UNCHANGED arrays
        /\ posts' = [posts EXCEPT ![p].phase = "done"]
        /\ UNCHANGED <<header, gets, overlapped>>

-----------------------------------------------------------------------------
(* getAlbums and getAlbumByID *)

GetBegin(g) ==
    /\ gets[g].phase = "new"
    /\ gets' = [gets EXCEPT ![g].phase = "loading",
                            ![g].before = {p \in Posts : posts[p].phase = "done"}]
    /\ UNCHANGED <<header, arrays, posts, corrupted, overlapped>>

GetLoad(g, w) ==
    /\ gets[g].phase = "loading"
    /\ w \in {"ptr", "len"} \ DOMAIN gets[g].words
    /\ gets' = [gets EXCEPT ![g].words = With(@, w, header[w])]
    /\ UNCHANGED <<header, arrays, posts, corrupted, overlapped>>

(* The elements.  Those of posts still running are the only ones that may  *)
(* change while the handler goes through them.                             *)
GetElements(g) ==
    LET words == gets[g].words
    IN  /\ gets[g].phase = "loading"
        /\ DOMAIN words = {"ptr", "len"}
        /\ gets' = [gets EXCEPT
                      ![g].phase = "done",
                      ![g].seen = {arrays[words.ptr][i] :
                                     i \in 1..words.len \cap Cells(words.ptr)}]
        /\ corrupted' = (corrupted \/ words.len \notin Cells(words.ptr))
        /\ UNCHANGED <<header, arrays, posts, overlapped>>

SliceNext ==
    \/ \E p \in Posts :
          \/ PostBegin(p)
          \/ \E w \in Word : PostLoad(p, w)
          \/ PostAppend(p)
          \/ PostStore(p, "cap", "ptr")
          \/ PostStore(p, "ptr", "len")
          \/ PostStore(p, "len", "element")
          \/ PostElement(p)
    \/ \E g \in Gets :
          \/ GetBegin(g)
          \/ \E w \in Word : GetLoad(g, w)
          \/ GetElements(g)

SliceSpec == SliceInit /\ [][SliceNext]_slice

-----------------------------------------------------------------------------
(* Properties *)

(* An album whose POST overlapped no other POST is in every list read      *)
(* after it, whatever POSTs overlap later, whatever words they mix and     *)
(* whatever words the reader mixes, as long as no access was out of        *)
(* bounds.  Albums whose POSTs overlapped may be lost or repeated.         *)
LoneAlbumStays ==
    ~corrupted => \A g \in Gets :
        gets[g].phase = "done" =>
            gets[g].before \ overlapped \subseteq gets[g].seen
=============================================================================
