----------------------------- MODULE MCPrograms -----------------------------
(***************************************************************************)
(* Small instances of the programs that are one process and share nothing: *)
(* a behaviour is that of one of them, chosen at the start.                *)
(***************************************************************************)
EXTENDS AlbumSlice, Counters, SharedMap, ProductAPI, TLC

VARIABLE program

Init ==
    /\ SliceInit /\ CountersInit /\ MapInit /\ APIInit
    /\ program \in {"album list", "counters", "map", "products"}
    /\ program = "album list" \/ header.len = Seeds
    /\ program = "map" \/ kind = "plain"

Next ==
    /\ UNCHANGED program
    /\ \/ /\ program = "album list"
          /\ SliceNext
          /\ UNCHANGED <<counters, sharedMap, productAPI>>
       \/ /\ program = "counters"
          /\ CountersNext
          /\ UNCHANGED <<slice, sharedMap, productAPI>>
       \/ /\ program = "map"
          /\ MapNext
          /\ UNCHANGED <<slice, counters, productAPI>>
       \/ /\ program = "products"
          /\ APINext
          /\ UNCHANGED <<slice, counters, sharedMap>>

Spec == Init /\ [][Next]_<<program, slice, counters, sharedMap, productAPI>>

Symmetry == Permutations(Posts)
=============================================================================
