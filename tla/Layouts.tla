------------------------------ MODULE Layouts -------------------------------
(***************************************************************************)
(* What the paged store puts into 64 bits and into runs of blocks: the     *)
(* page descriptor and the packed references, and the images of record     *)
(* pages, B+ tree nodes and dictionaries.  write_run leaves the rest of a  *)
(* run as it was, so an image is read with the leftovers of an older one   *)
(* behind it, and a crash can leave the beginning of the new image in      *)
(* front of the old.                                                       *)
(*                                                                         *)
(* An image is a sequence of cells, one per field or per byte of payload.  *)
(* The checksum of cells is the cells themselves, that is, no two contents *)
(* collide.                                                                *)
(***************************************************************************)
EXTENDS Integers, Sequences, SequencesExt

CONSTANTS StartBits, CountBits, OccupationBits,  \* widths of the descriptor's fields
          RunLen,       \* cells of a run
          Images,       \* what is stored: <<kind, value>>
          Dictionaries, \* dictionary references that may be installed
          MaxSteps      \* bound on the descriptor's and the run's changes

VARIABLES
    desc,      \* a page descriptor, packed
    fields,    \* history: what was put into it
    run,       \* the cells of one run
    stored,    \* history: the image last written
    previous,  \* history: the image before it
    torn,      \* history: the last write was cut short
    dict,      \* the dictionary new pages are compressed against, 0 for none
    steps

layoutVars == <<desc, fields, run, stored, previous, torn, dict, steps>>

EmptyFields == [start |-> 0, count |-> 0, occupation |-> 0, journal |-> 0, memory |-> 0]
Nil == <<"none", <<>> >>

LayoutsInit ==
    /\ desc = 0 /\ fields = EmptyFields
    /\ run = [n \in 1..RunLen |-> 0]
    /\ stored = Nil /\ previous = Nil /\ torn = FALSE
    /\ dict = 0 /\ steps = 0

-----------------------------------------------------------------------------
(* PageDescriptor: in_memory at bit 0, in_journal at bit 1, then the       *)
(* occupation, the block count and the start block.                        *)

OccShift == 2
CountShift == OccShift + OccupationBits
StartShift == CountShift + CountBits
MaxOccupation == 2^OccupationBits - 1

Field(raw, shift, bits) == (raw \div 2^shift) % 2^bits
Replaced(raw, shift, bits, value) == raw + (value - Field(raw, shift, bits)) * 2^shift

start_block(raw) == Field(raw, StartShift, StartBits)
block_count(raw) == Field(raw, CountShift, CountBits)
occupation(raw) == Field(raw, OccShift, OccupationBits)
is_in_journal(raw) == Field(raw, 1, 1)
is_in_memory(raw) == Field(raw, 0, 1)

Pack(start, count, occ) == start * 2^StartShift + count * 2^CountShift + occ * 2^OccShift

with_run(raw, start, count) == Pack(start, count, 0) + (raw % 2^CountShift)
with_occupation(raw, occ) == Replaced(raw, OccShift, OccupationBits, occ)
with_in_journal(raw, on) == Replaced(raw, 1, 1, on)
with_in_memory(raw, on) == Replaced(raw, 0, 1, on)

\* occupation_for: full saturates at the largest value the field holds.
occupation_for(used, total) ==
    LET q == (used * 2^OccupationBits) \div total
    IN  IF total = 0 THEN 0 ELSE IF q > MaxOccupation THEN MaxOccupation ELSE q

Change(d, f) ==
    /\ steps < MaxSteps /\ steps' = steps + 1
    /\ desc' = d /\ fields' = f
    /\ UNCHANGED <<run, stored, previous, torn, dict>>

RunStarts == 0..(2^StartBits - 1)
Counts == 0..(2^CountBits - 1)

NewDescriptor(start, count, used, total) ==
    LET occ == occupation_for(used, total)
    IN  Change(Pack(start, count, occ),
             [EmptyFields EXCEPT !.start = start, !.count = count, !.occupation = occ])

Relocate(start, count) ==
    Change(with_run(desc, start, count), [fields EXCEPT !.start = start, !.count = count])

Regauge(used, total) ==
    LET occ == occupation_for(used, total)
    IN  Change(with_occupation(desc, occ), [fields EXCEPT !.occupation = occ])

Stage(on) == Change(with_in_journal(desc, on), [fields EXCEPT !.journal = on])
Reside(on) == Change(with_in_memory(desc, on), [fields EXCEPT !.memory = on])

-----------------------------------------------------------------------------
(* HeapRef, DictRef and NodeRef: the start block below the block count.    *)

NewRef(start, count) == start + count * 2^StartBits
RefStart(raw) == raw % 2^StartBits
RefCount(raw) == raw \div 2^StartBits

is_none(raw) == raw = 0

-----------------------------------------------------------------------------
(* Images.                                                                 *)

Crc(cells) == cells
Sealed(cells) == <<Crc(cells)>> \o cells
Unreadable == [error |-> TRUE]
Kinds == [inline |-> 0, heap |-> 1]

\* encode_with_dict and decode_with_dict (zstd): only the same dictionary undoes
\* the compression.
encode_with_dict(cells, d) == [n \in DOMAIN cells |-> cells[n] + 100 * d]
decode_with_dict(cells, d) == [n \in DOMAIN cells |-> cells[n] - 100 * d]

\* SlotPage: entries are <<id, kind, payload>>, sorted by id.
records_bytes(entries) ==
    FlattenSeq([n \in DOMAIN entries |->
        <<entries[n][1], Kinds[entries[n][2]], Len(entries[n][3])>> \o entries[n][3]])

PageHeader == 7
encode_page(page, d) ==
    LET records == records_bytes(page.entries)
        payload == IF d = 0 THEN records ELSE encode_with_dict(records, d)
    IN  Sealed(<<PageHeader + Len(payload), page.stamp, IF d = 0 THEN 0 ELSE 1, d, Len(records),
                 Len(page.entries)>> \o payload)

\* The entries read from an offset on; a length that does not fit is an error.
RECURSIVE Entries(_, _, _)
Entries(records, off, count) ==
    IF count = 0 THEN <<>>
    ELSE IF off + 3 > Len(records) \/ off + 3 + records[off + 3] > Len(records) THEN <<Unreadable>>
    ELSE <<[id |-> records[off + 1], kind |-> records[off + 2],
            body |-> SubSeq(records, off + 4, off + 3 + records[off + 3])]>>
         \o Entries(records, off + 3 + records[off + 3], count - 1)

\* dict_ref_of: a page names the dictionary it needs.
dict_ref_of(cells) == cells[5]

decode_page(cells) ==
    LET byte_len == cells[2]
        payload == SubSeq(cells, PageHeader + 1, byte_len)
        records == IF cells[4] = 0 THEN payload
                   ELSE decode_with_dict(payload, dict_ref_of(cells))
        found == Entries(records, 0, cells[7])
    IN  IF byte_len < PageHeader \/ byte_len > Len(cells) THEN Unreadable
        ELSE IF cells[1] # Crc(SubSeq(cells, 2, byte_len)) THEN Unreadable
        ELSE IF Unreadable \in ToSet(found) THEN Unreadable
        ELSE [stamp |-> cells[3],
              entries |-> [n \in DOMAIN found |->
                  <<found[n].id, IF found[n].kind = 0 THEN "inline" ELSE "heap", found[n].body>>]]

\* Node: a leaf has its right neighbour and pairs, an inner node one child more
\* than keys.
NodeHeader == 3
encode_node(node) ==
    Sealed(IF node.leaf
           THEN <<0, Len(node.entries), node.next>> \o FlattenSeq(node.entries)
           ELSE <<1, Len(node.keys)>> \o node.keys \o node.children)

MutBodyLen(leaf, count) == IF leaf THEN 1 + 2 * count ELSE count + count

body_len(leaf, count) == IF leaf THEN 1 + 2 * count ELSE count + (count + 1)

decode_node(cells) ==
    LET leaf == cells[2] = 0
        count == cells[3]
        end == NodeHeader + body_len(leaf, count)
        at == NodeHeader + count
    IN  IF cells[2] \notin {0, 1} \/ end > Len(cells) THEN Unreadable
        ELSE IF cells[1] # Crc(SubSeq(cells, 2, end)) THEN Unreadable
        ELSE IF leaf
        THEN [leaf |-> TRUE, next |-> cells[4],
              entries |-> [n \in 1..count |-> <<cells[3 + 2 * n], cells[4 + 2 * n]>>]]
        ELSE [leaf |-> FALSE, keys |-> SubSeq(cells, NodeHeader + 1, at),
              children |-> SubSeq(cells, at + 1, end)]

DictHeader == 2
encode_dict_page(bytes) == Sealed(<<Len(bytes)>> \o bytes)
decode_dict_page(cells) ==
    LET end == DictHeader + cells[2]
    IN  IF end > Len(cells) \/ cells[1] # Crc(SubSeq(cells, 2, end)) THEN Unreadable
        ELSE [bytes |-> SubSeq(cells, DictHeader + 1, end)]

EncodedImage(image) ==
    CASE image[1] = "page" -> encode_page(image[2], dict)
      [] image[1] = "node" -> encode_node(image[2])
      [] image[1] = "dict" -> encode_dict_page(image[2].bytes)

\* A run nothing was written to holds zeroes; no reference leads to it.
Decoded(kind) ==
    CASE kind = "page" -> decode_page(run)
      [] kind = "node" -> decode_node(run)
      [] kind = "dict" -> decode_dict_page(run)

\* write_run, or as much of it as a crash left.
write_run(image, cut) ==
    LET cells == EncodedImage(image)
    IN  /\ steps < MaxSteps /\ steps' = steps + 1 /\ ~torn
        /\ Len(cells) <= RunLen
        /\ cut \in 1..Len(cells)
        /\ run' = [n \in 1..RunLen |-> IF n <= cut THEN cells[n] ELSE run[n]]
        /\ stored' = image /\ previous' = stored
        /\ torn' = (cut < Len(cells))
        /\ UNCHANGED <<desc, fields, dict>>

install_dictionary(d) ==
    /\ d # dict /\ dict' = d
    /\ steps < MaxSteps /\ steps' = steps + 1
    /\ UNCHANGED <<desc, fields, run, stored, previous, torn>>

LayoutsNext ==
    \/ /\ stored = Nil /\ dict = 0   \* descriptors and images do not meet
       /\ \/ \E s \in RunStarts, c \in Counts, used \in 0..4 : NewDescriptor(s, c, used, 4)
          \/ \E s \in RunStarts, c \in Counts : Relocate(s, c)
          \/ \E used \in 0..4 : Regauge(used, 4)
          \/ \E on \in 0..1 : Stage(on) \/ Reside(on)
    \/ /\ fields = EmptyFields
       /\ \/ \E image \in Images, cut \in 1..RunLen : write_run(image, cut)
          \/ \E d \in Dictionaries : install_dictionary(d)

LayoutsSpec == LayoutsInit /\ [][LayoutsNext]_layoutVars

-----------------------------------------------------------------------------

\* After any chain of updates every field of a descriptor reads back as it was last
\* set: no setter spills into its neighbours, also at the largest values and for a
\* page that is exactly full (PageDescriptor::new, with_run, with_occupation,
\* with_in_journal, with_in_memory, occupation_for).
DescriptorExact ==
    fields = [start |-> start_block(desc), count |-> block_count(desc),
              occupation |-> occupation(desc), journal |-> is_in_journal(desc),
              memory |-> is_in_memory(desc)]

\* A packed reference gives back its run, and only the reference to no blocks at
\* block 0 reads as none: a run that starts at block 0 is a real one (HeapRef,
\* DictRef, NodeRef).
RefsExact ==
    LET raw == NewRef(fields.start, fields.count)
    IN  /\ RefStart(raw) = fields.start /\ RefCount(raw) = fields.count
        /\ is_none(raw) <=> fields.start = 0 /\ fields.count = 0

\* A whole image reads back as it was written, whatever an older image left behind
\* it and whichever dictionary is in use by now.  One that a crash cut short is
\* refused, unless what is there is the whole of the new or of the old image: two
\* images are never mixed (SlotPage, Node and dictionary encode and decode).
ImageExact ==
    stored # Nil =>
        LET found == Decoded(stored[1])
        IN  IF ~torn THEN found = stored[2]
            ELSE found \in {stored[2], Unreadable}
                 \/ (previous[1] = stored[1] /\ found = previous[2])

\* Packed words and images give back what was put in, after any chain of updates and
\* over whatever an older image left: descriptors, references, pages, nodes and
\* dictionaries (page_dir.rs, directory.rs, btree_store.rs, dict.rs).
LayoutsExact == DescriptorExact /\ RefsExact /\ ImageExact

=============================================================================
