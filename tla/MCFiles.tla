------------------------------ MODULE MCFiles -------------------------------
(***************************************************************************)
(* The structures kept in files: the linear-hash directory with its tree   *)
(* nodes, the heap, and the journal with the counter of its pipeline.      *)
(* They share no state, and a behaviour is one of the chosen structure.    *)
(***************************************************************************)
EXTENDS BlockPages, Heap, Pipeline, TLC

VARIABLE structure   \* the structure that is used

FilesInit ==
    /\ structure \in {"directory", "heap", "journal", "pressure"}
    /\ BlockPagesInit /\ HeapInit /\ PipelineInit

UseDirectory == /\ structure = "directory" /\ BlockPagesNext
                /\ UNCHANGED <<heapVars, pipelineVars>>
UseHeap == /\ structure = "heap" /\ HeapNext
           /\ UNCHANGED <<blockPagesVars, pipelineVars>>
UseJournal == /\ structure = "journal" /\ DrainNext
              /\ UNCHANGED <<blockPagesVars, heapVars, pressureVars>>
UsePressure == /\ structure = "pressure" /\ PressureNext
               /\ UNCHANGED <<blockPagesVars, heapVars, drainVars>>

FilesNext ==
    /\ UseDirectory \/ UseHeap \/ UseJournal \/ UsePressure
    /\ UNCHANGED structure

FilesVars == <<blockPagesVars, heapVars, pipelineVars, structure>>
FilesSpec == FilesInit /\ [][FilesNext]_FilesVars

-----------------------------------------------------------------------------

\* Two records that part when the third bucket splits, and four runs.
CONSTANTS i1, i2, p1, p2, p3, p4, v1
MCIds == {i1, i2}
MCHash == (i1 :> 1) @@ (i2 :> 3)
MCPlaces == {p1, p2, p3, p4}

\* Two values and three owners in the heap.
CONSTANTS c1, c2, o1, o2, o3
MCContents == {c1, c2}
MCOwners == {o1, o2, o3}

\* Two anchors in the journal, and two threads on the counter.
CONSTANTS a1, a2, w1, t1, t2
MCAnchors == {a1, a2}
MCThreads == {t1, t2}

Symmetry == Permutations(MCPlaces) \cup Permutations(MCContents) \cup Permutations(MCOwners)
=============================================================================
