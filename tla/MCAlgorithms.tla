---------------------------- MODULE MCAlgorithms ----------------------------
(***************************************************************************)
(* The sequential libraries: the block allocator, the indexes, the wire    *)
(* format with its filters, the migration registry, the layouts of pages,  *)
(* and the page journal as a file.  They share no state.  A behaviour is   *)
(* one of the chosen library, so that their state spaces add up.           *)
(***************************************************************************)
EXTENDS BlockAllocator, Indexes, Codec, Migration, Layouts, PageLog

VARIABLE library   \* the library that is used

AlgorithmsInit ==
    /\ library \in {"allocator", "indexes", "codec", "migration", "layouts", "journal"}
    /\ Init /\ IndexInit /\ CodecInit /\ MigrationInit
    /\ LayoutsInit /\ PageLogInit

UseAllocator == /\ library = "allocator" /\ Next
                /\ UNCHANGED <<indexVars, codecVars, migrationVars, layoutVars, pageLogVars>>
UseIndexes == /\ library = "indexes" /\ IndexNext
              /\ UNCHANGED <<vars, codecVars, migrationVars, layoutVars, pageLogVars>>
UseCodec == /\ library = "codec" /\ CodecNext
            /\ UNCHANGED <<vars, indexVars, migrationVars, layoutVars, pageLogVars>>
UseRegistry == /\ library = "migration" /\ MigrationNext
               /\ UNCHANGED <<vars, indexVars, codecVars, layoutVars, pageLogVars>>
UseLayouts == /\ library = "layouts" /\ LayoutsNext
              /\ UNCHANGED <<vars, indexVars, codecVars, migrationVars, pageLogVars>>
UseJournal == /\ library = "journal" /\ PageLogNext
              /\ UNCHANGED <<vars, indexVars, codecVars, migrationVars, layoutVars>>

AlgorithmsNext ==
    /\ UseAllocator \/ UseIndexes \/ UseCodec \/ UseRegistry \/ UseLayouts \/ UseJournal
    /\ UNCHANGED library

AlgorithmsVars == <<vars, indexVars, codecVars, migrationVars, layoutVars, pageLogVars, library>>
AlgorithmsSpec == AlgorithmsInit /\ [][AlgorithmsNext]_AlgorithmsVars

-----------------------------------------------------------------------------

\* Widths of tenant, shard, struct and time: 6 bits instead of 128.
MCIdBits == <<2, 1, 1, 2>>

\* Typed values of every shape.  A list of six bytes in two strings overflows a
\* length slot of one digit; PermissionRef is the enum of permission.rs.
MCSamples == {
    <<UInt(1), 5>>, <<UInt(2), 9>>, <<SInt(1), 0 - 3>>, <<Bool, TRUE>>,
    <<IdType, <<3, 0, 1, 2>> >>,
    <<Str, <<>> >>, <<Str, <<4, 1>> >>, <<Vec(UInt(1)), <<4, 0, 2>> >>,
    <<Vec(Str), << <<1>>, <<>> >> >>, <<Vec(Str), << <<1, 2, 3>>, <<4, 5, 6>> >> >>,
    <<Opt(UInt(1)), <<>> >>, <<Opt(Str), << <<7>> >> >>, <<Opt(Str), <<>> >>,
    <<Enum(<< <<>>, <<>> >>), [tag |-> 1, vals |-> <<>>]>>,
    <<Opt(PermissionRef(1)), << [tag |-> 0, vals |-> << <<2, 3>> >>] >> >>,
    <<Struct(<<Bool, Str>>), <<FALSE, <<6>> >> >> }

\* Values of the records the engine itself stores.
MCDocuments == {
    <<PermissionRef(1), [tag |-> 1, vals |-> <<6>>]>>,
    <<Metadata(1), <<9, 0, 1, 4, 5, << [tag |-> 0, vals |-> << <<2>> >>] >> >> >>,
    <<Metadata(1), <<9, 8, 0, 4, 5, <<>> >> >>,
    <<VersionedRecord(1), <<9, <<5, 0>>, 0, 8>> >> }
  \cup {<<AnchorSlot(1), slot>> : slot \in
           {inline(<<7>>, 3), inline(<<>>, 0), pointer(9, 3), secondary(9, 1),
            primary_tombstone(4), secondary_tombstone, heap_ref(2)}}
  \cup {<<JournalEntry(1), e>> : e \in
           {[tag |-> 0, vals |-> <<9, primary_tombstone(0)>>], [tag |-> 2, vals |-> <<9>>],
            [tag |-> 3, vals |-> << [tag |-> 3, vals |-> <<>>], 6, 2>>],
            [tag |-> 4, vals |-> <<1, 2, <<3>> >>], [tag |-> 5, vals |-> <<7>>]}}

\* Values a filter compares with.
MCProbes == { [kind |-> "Number", val |-> 5], [kind |-> "Number", val |-> 0 - 3],
    [kind |-> "Bool", val |-> FALSE], [kind |-> "Str", val |-> <<4>>],
    [kind |-> "Str", val |-> <<>>], [kind |-> "Bytes", val |-> <<4, 0, 2>>] }

\* Images of record pages, tree nodes and a dictionary.
MCPage(recs) == <<"page", [stamp |-> 7, entries |-> recs]>>
MCLeaf(next, pairs) == <<"node", [leaf |-> TRUE, next |-> next, entries |-> pairs]>>
MCInner(keys, children) == <<"node", [leaf |-> FALSE, keys |-> keys, children |-> children]>>
MCImages == {
    MCPage(<<>>), MCPage(<< <<1, "inline", <<5>> >> >>), MCPage(<< <<2, "inline", <<>> >> >>),
    MCPage(<< <<1, "inline", <<5, 6>> >>, <<2, "heap", <<9>> >> >>),
    MCLeaf(0, <<>>), MCLeaf(4, << <<1, 8>>, <<2, 9>> >>),
    MCInner(<<2>>, <<3, 4>>), MCInner(<<2, 5>>, <<3, 4, 6>>),
    <<"dict", [bytes |-> <<1, 2, 3>>]>> }

\* Bytes that look like the tags of journal records.
MCPayloads == {<<>>, <<3>>, <<7, 0>>}
=============================================================================
