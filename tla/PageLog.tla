------------------------------ MODULE PageLog -------------------------------
(***************************************************************************)
(* The page journal as a file: records of different lengths one after the  *)
(* other, read back by replay.  A cell is one field of a record or one     *)
(* byte of an image or payload, and image bytes can look like tags.        *)
(* PagedStore works with the states a replay gives; this module is about   *)
(* the framing that gives them, and about staged pages.                    *)
(***************************************************************************)
EXTENDS Integers, Sequences, FiniteSets, SequencesExt

CONSTANTS Types,     \* (struct_id, version)
          Slots, Descriptors, RecordIds,
          Starts,    \* first blocks of runs
          Payloads,  \* images and payloads: sequences of bytes
          MaxRecords  \* bound on the records

VARIABLES
    file,      \* the cells of the journal
    staged,    \* address -> <<offset of the image, its length>>
    nextAddr,  \* next_addr
    recorded   \* history: the operations, in order, with where their record ends

pageLogVars == <<file, staged, nextAddr, recorded>>

EmptyDescriptor == 0
PageLogInit == file = <<>> /\ staged = <<>> /\ nextAddr = 0 /\ recorded = <<>>

\* insert of a map.
With(f, k, v) == (k :> v) @@ f

\* append
Append1(op, record) ==
    /\ Len(recorded) < MaxRecords
    /\ file' = file \o record
    /\ recorded' = Append(recorded, op @@ [end |-> Len(file) + Len(record)])

StageHeader == 3
stage_page(image) ==
    /\ Append1([op |-> "stage", addr |-> nextAddr, image |-> image],
               <<0, nextAddr, Len(image)>> \o image)
    /\ staged' = With(staged, nextAddr, <<Len(file) + StageHeader, Len(image)>>)
    /\ nextAddr' = nextAddr + 1

read_page(addr) == SubSeq(file, staged[addr][1] + 1, staged[addr][1] + staged[addr][2])

Record(op, record) == Append1(op, record) /\ UNCHANGED <<staged, nextAddr>>

set_descriptor(t, slot, d) ==
    Record([op |-> "set", type |-> t, slot |-> slot, desc |-> d], <<1, t, slot, d>>)
resize_directory(t, n) == Record([op |-> "resize", type |-> t, count |-> n], <<2, t, n>>)
checkpoint == Record([op |-> "checkpoint"], <<3, Len(recorded)>>)
write_record(t, i, p) ==
    Record([op |-> "write", type |-> t, id |-> i, value |-> <<"some", p>>], <<4, t, i, Len(p)>> \o p)
delete_record(t, i) ==
    Record([op |-> "delete", type |-> t, id |-> i, value |-> <<"none", <<>> >>], <<5, t, i>>)
allocate_block(t, slot, start, len) ==
    Record([op |-> "alloc", start |-> start, run |-> <<len, t, slot>>], <<6, t, slot, start, len>>)
free_block(start, len) == Record([op |-> "free", start |-> start], <<7, start, len>>)

-----------------------------------------------------------------------------
(* replay                                                                  *)

Unread == [staged |-> <<>>, next |-> 0, dirs |-> <<>>, pending |-> <<>>, ledger |-> <<>>]
Refused == [Unread EXCEPT !.next = -1]

\* dir.resize: never shorter.
Grown(dir, n) == [k \in 1..(IF n > Len(dir) THEN n ELSE Len(dir)) |->
                     IF k <= Len(dir) THEN dir[k] ELSE EmptyDescriptor]
DirOf(s, t) == IF t \in DOMAIN s.dirs THEN s.dirs[t] ELSE <<>>

\* Cells of the record at offset c: tag, fixed fields and the bytes that follow.
Tags == 0..7
FixedCells(tag) == <<3, 4, 3, 2, 4, 3, 5, 3>>[tag + 1]
MutRecordLen(data, c) == FixedCells(data[c + 1])
RecordLen(data, c) ==
    LET n == FixedCells(data[c + 1])
    IN  IF data[c + 1] \in {0, 4} /\ c + n <= Len(data) THEN n + data[c + n] ELSE n

\* The record at offset c applied to what was read so far.
Applied(s, data, c) ==
    LET f(k) == data[c + k]
        max(a, b) == IF a > b THEN a ELSE b
    IN  CASE f(1) = 0 -> [s EXCEPT !.staged = With(@, f(2), <<c + StageHeader, f(3)>>),
                                   !.next = max(@, f(2) + 1)]
          [] f(1) = 1 -> [s EXCEPT !.dirs = With(@, f(2),
                              [Grown(DirOf(s, f(2)), f(3) + 1) EXCEPT ![f(3) + 1] = f(4)])]
          [] f(1) = 2 -> [s EXCEPT !.dirs = With(@, f(2), Grown(DirOf(s, f(2)), f(3)))]
          [] f(1) = 3 -> [s EXCEPT !.pending = <<>>]
          [] f(1) = 4 -> [s EXCEPT !.pending =
                              With(@, <<f(2), f(3)>>, <<"some", SubSeq(data, c + 5, c + 4 + f(4))>>)]
          [] f(1) = 5 -> [s EXCEPT !.pending = With(@, <<f(2), f(3)>>, <<"none", <<>> >>)]
          [] f(1) = 6 -> [s EXCEPT !.ledger = With(@, f(4), <<f(5), f(2), f(3)>>)]
          [] f(1) = 7 -> [s EXCEPT !.ledger = [x \in DOMAIN @ \ {f(2)} |-> @[x]]]

RECURSIVE ReplayFrom(_, _, _)
ReplayFrom(s, data, c) ==
    IF c >= Len(data) THEN s
    ELSE IF data[c + 1] \notin Tags \/ c + RecordLen(data, c) > Len(data) THEN Refused
    ELSE ReplayFrom(Applied(s, data, c), data, c + RecordLen(data, c))

replay(data) == ReplayFrom(Unread, data, 0)

\* open after the process stopped.
open ==
    /\ file # <<>>
    /\ LET s == replay(file)
       IN  staged' = s.staged /\ nextAddr' = s.next
    /\ UNCHANGED <<file, recorded>>

PageLogNext ==
    \/ \E p \in Payloads : stage_page(p) \/ \E t \in Types, i \in RecordIds : write_record(t, i, p)
    \/ \E t \in Types :
        \/ \E slot \in Slots, d \in Descriptors : set_descriptor(t, slot, d)
        \/ \E slot \in Slots : resize_directory(t, slot + 1)
        \/ \E i \in RecordIds : delete_record(t, i)
        \/ \E slot \in Slots, b \in Starts : allocate_block(t, slot, b, 1)
    \/ \E b \in Starts : free_block(b, 1)
    \/ checkpoint
    \/ open

PageLogSpec == PageLogInit /\ [][PageLogNext]_pageLogVars

-----------------------------------------------------------------------------

OpsOf(kinds) == {n \in DOMAIN recorded : recorded[n].op \in kinds}
LastOf(ns) == CHOOSE n \in ns : \A m \in ns : m <= n

\* Replay gives what was recorded, whatever the order and whatever bytes the images
\* hold: each slot its last descriptor and a directory as long as was ever asked
\* for, the writes and deletes since the last checkpoint, the runs allocated and
\* not freed (replay against the eight append operations).
ReplayExact ==
    LET s == replay(file)
        after == OpsOf({"checkpoint"}) \cup {0}
        recent == {n \in OpsOf({"write", "delete"}) : n > LastOf(after)}
        sets(t, k) == {n \in OpsOf({"set"}) : recorded[n].type = t /\ recorded[n].slot = k}
        used(t) == {recorded[n].slot + 1 : n \in {m \in OpsOf({"set"}) : recorded[m].type = t}}
                   \cup {recorded[n].count : n \in {m \in OpsOf({"resize"}) : recorded[m].type = t}} \cup {0}
        at(b) == {n \in OpsOf({"alloc", "free"}) : recorded[n].start = b}
    IN  /\ \A t \in Types :
            /\ Len(DirOf(s, t)) = LastOf(used(t))
            /\ \A k \in 1..Len(DirOf(s, t)) :
                DirOf(s, t)[k] = IF sets(t, k - 1) = {} THEN EmptyDescriptor
                                 ELSE recorded[LastOf(sets(t, k - 1))].desc
        /\ DOMAIN s.pending = {<<recorded[n].type, recorded[n].id>> : n \in recent}
        /\ \A k \in DOMAIN s.pending :
            s.pending[k] = recorded[LastOf({n \in recent : <<recorded[n].type, recorded[n].id>> = k})].value
        /\ DOMAIN s.ledger = {b \in Starts : at(b) # {} /\ recorded[LastOf(at(b))].op = "alloc"}
        /\ \A b \in DOMAIN s.ledger : s.ledger[b] = recorded[LastOf(at(b))].run

\* A staged page is read back under its address as it was staged, before and after
\* the journal is opened again, and addresses are never given twice (stage_page,
\* read_page, open).
StagedReadable ==
    /\ Cardinality(OpsOf({"stage"})) = Cardinality(DOMAIN staged)
    /\ \A n \in OpsOf({"stage"}) : read_page(recorded[n].addr) = recorded[n].image
    /\ nextAddr = Cardinality(DOMAIN staged)

\* A journal that ends inside a record is refused, and one that ends between two
\* records is not: a cut never turns into other records (take).
CutRefused ==
    \A k \in 0..Len(file) :
        (replay(SubSeq(file, 1, k)) # Refused) <=> k \in {recorded[n].end : n \in DOMAIN recorded} \cup {0}

\* The journal as a file: replay is exact, staged pages stay readable, and a torn
\* tail is noticed (replay, stage_page, read_page, take).
JournalExact == ReplayExact /\ StagedReadable /\ CutRefused

=============================================================================
