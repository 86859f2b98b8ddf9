------------------------------ MODULE Requests ------------------------------
(***************************************************************************)
(* What a Quick-Node answers: the request handlers over the schema         *)
(* registry, the stored records and the live lists, and what the typed     *)
(* client API makes of the answers.  A request is handled in one step      *)
(* here.  LiveTracker, NodeStorage and QuickNode take the same handlers    *)
(* apart, with their locks, crashes and replicas.                          *)
(*                                                                         *)
(* A body is one of five: junk does not decode, low is rejected by the     *)
(* validate hook, odd by the preprocess hook, and preprocess turns raw     *)
(* into clean.                                                             *)
(***************************************************************************)
EXTENDS Integers, Sequences, FiniteSets, SequencesExt

CONSTANTS Tenants, Structs, Versions,
          UniqueShape, HasValidate, HasPreprocess,  \* subsets of Structs
          Registries,  \* the sets of (struct, version) a node may be started with
          Rings,       \* the sets of tenants the node may own
          NoRegistry,  \* a schema-blind node
          OldRecords,  \* <<struct, tenant, version, body>> an earlier life may have left
          MaxSeq,      \* bound on the writes that get a sequence number
          MaxRejected, \* bound on the writes the registry rejects
          MaxFaults    \* storage errors

\* Without hooks there are only bodies that decode and bodies that do not.
Bodies(s) == IF s \in HasValidate \cup HasPreprocess
             THEN {"junk", "low", "odd", "raw", "clean"} ELSE {"junk", "clean"}

VARIABLES
    registry,   \* the node's registry, or NoRegistry
    owned,      \* tenants the ring gives to this node
    drains,     \* draining
    seqno,      \* the last write sequence
    records,    \* id -> stored record
    live,       \* live[s, t]: ids in the live list of struct s, tenant t
    pendings,   \* pendings[t]: ids queued for the Slow-Node
    counts,     \* write_count and rejected_count
    answer,     \* the last request, the node's answer and the client's result
    accepted,   \* history: ids committed, in order
    removed,    \* history: ids deleted
    unlisted,   \* history: ids whose live list could not be updated
    storageErrors

requestVars == <<registry, owned, drains, seqno, records, live, pendings, counts, answer,
                 accepted, removed, unlisted, storageErrors>>
dataVars == <<records, live, pendings>>

Done == <<"ok", <<>> >>
None == [op |-> "none", resp |-> Done, result |-> Done]

\* A record of an earlier life of the node has a higher number than this life
\* will reach.
OldId(o) == <<o[2], o[1], MaxSeq + 1>>

RequestsInit ==
    /\ registry \in Registries \cup {NoRegistry}
    /\ owned \in Rings /\ drains = FALSE
    /\ seqno = 0
    /\ LET old == OldRecords IN
        /\ records = [i \in {OldId(o) : o \in old} |->
                         LET o == CHOOSE x \in old : OldId(x) = i
                         IN  [version |-> o[3], body |-> o[4], id |-> i, sent |-> o[4]]]
        /\ live = [st \in Structs \X Tenants |-> SetToSeq({OldId(o) : o \in {x \in old : <<x[1], x[2]>> = st}})]
        /\ accepted = SetToSeq({OldId(o) : o \in old})
    /\ pendings = [t \in Tenants |-> <<>>]
    /\ counts = [written |-> 0, rejected |-> 0]
    /\ answer = None
    /\ removed = {} /\ unlisted = {} /\ storageErrors = 0

-----------------------------------------------------------------------------
(* The registry that declare_objects! generates.                           *)

find(h) == h \in registry

\* The result is "ok" or an error: its kind and the struct or header it names.
validate(h, body) ==
    IF ~find(h) THEN <<"UnknownHeader", h>>
    ELSE IF h[1] \notin HasValidate THEN <<"ok", h[1]>>
    ELSE IF body = "junk" THEN <<"Wire", h[1]>>
    ELSE IF body = "low" THEN <<"Validation", h[1]>> ELSE <<"ok", h[1]>>

preprocess(h, body) ==
    IF h[1] \notin HasPreprocess THEN [err |-> <<"ok", h[1]>>, body |-> body]
    ELSE IF body = "junk" THEN [err |-> <<"Wire", h[1]>>, body |-> body]
    ELSE IF body = "odd" THEN [err |-> <<"Validation", h[1]>>, body |-> body]
    ELSE [err |-> <<"ok", h[1]>>, body |-> IF body = "raw" THEN "clean" ELSE body]

\* eval: a filter asks for clean bodies; a body that does not decode has none.
Satisfies(filter, body) == filter = "All" \/ body = "clean"

-----------------------------------------------------------------------------
(* Errors on their way to the client.                                      *)

to_node_error(e, s, hook) ==
    CASE e[1] = "UnknownHeader" -> [code |-> "UnknownHeader", about |-> e[2]]
      [] e[1] = "Validation" -> [code |-> hook, about |-> e[2]]
      [] e[1] = "Wire" -> [code |-> "MalformedPayload", about |-> s]

node_error_to_core(n) ==
    CASE n.code = "UnknownHeader" -> <<"UnknownHeader", n.about>>
      [] n.code \in {"ValidationFailed", "PreprocessFailed"} -> <<"Validation", n.about>>
      [] OTHER -> <<"Other", n.code>>

Ok(rows) == <<"ok", rows>>
Err(n) == <<"err", n>>
Redirect == <<"redirect", IF drains THEN "draining" ELSE "not_owner">>
Serves(t) == ~drains /\ t \in owned

\* Db::send: a redirect is a payload like any other.  A write or a delete ignores
\* the payload.  A find or a query reads rows from it, and one row that cannot be
\* read as the type fails all.
send(resp) == IF resp[1] = "err" THEN <<"err", node_error_to_core(resp[2])>> ELSE Done
Unreadable == <<"err", <<"Other", "decode">> >>
Typed(resp) ==
    CASE resp[1] = "err" -> send(resp)
      [] resp[1] = "redirect" -> Unreadable
      [] OTHER -> IF \E n \in DOMAIN resp[2] : resp[2][n][2] = "junk" THEN Unreadable ELSE resp

Answer(op, t, about, resp, result) ==
    answer' = [op |-> op, tenant |-> t, about |-> about, resp |-> resp, result |-> result]

-----------------------------------------------------------------------------
(* Write.                                                                  *)

\* Id::new, and stamp_engine_id: a blind node, or a body too short, keeps the
\* client's zero.
NewId(t, s) == <<t, s, seqno + 1>>
MutStamp(s, v, body, i) ==
    IF registry # NoRegistry /\ find(<<s, v>>) /\ body = "raw" THEN i ELSE <<>>

stamp_engine_id(s, v, body, i) ==
    IF registry # NoRegistry /\ find(<<s, v>>) /\ body # "junk" THEN i ELSE <<>>

\* index_committed
Listed(s, v, list, i) ==
    IF registry # NoRegistry /\ find(<<s, v>>) /\ s \in UniqueShape THEN <<i>> ELSE Append(list, i)

RejectWrite(t, s, about, resp) ==
    /\ counts.rejected < MaxRejected
    /\ counts' = [counts EXCEPT !.rejected = @ + 1]
    /\ Answer("write", t, about, resp, send(resp))
    /\ UNCHANGED <<seqno, dataVars, accepted, removed, unlisted, storageErrors>>

\* The journal or the data file fails: the sequence number is gone.
CommitFails(t, s, about) ==
    /\ storageErrors < MaxFaults
    /\ storageErrors' = storageErrors + 1
    /\ seqno' = seqno + 1
    /\ LET resp == Err([code |-> "Storage", about |-> s])
       IN  Answer("write", t, about, resp, send(resp))
    /\ UNCHANGED <<dataVars, counts, accepted, removed, unlisted>>

Commit(t, s, v, sent, body, about) ==
    LET i == NewId(t, s)
        rec == [version |-> v, body |-> body, id |-> stamp_engine_id(s, v, body, i), sent |-> sent]
    IN  /\ seqno' = seqno + 1
        /\ records' = [j \in DOMAIN records \cup {i} |-> IF j = i THEN rec ELSE records[j]]
        /\ \/ /\ live' = [live EXCEPT ![s, t] = Listed(s, v, @, i)]
              /\ UNCHANGED <<unlisted, storageErrors>>
           \/ /\ storageErrors < MaxFaults
              /\ storageErrors' = storageErrors + 1 /\ unlisted' = unlisted \cup {i}
              /\ UNCHANGED live
        /\ pendings' = [pendings EXCEPT ![t] = Append(@, i)]
        /\ counts' = [counts EXCEPT !.written = @ + 1]
        /\ accepted' = Append(accepted, i) /\ UNCHANGED removed
        /\ Answer("write", t, about, Done, Done)

handle_write(t, s, v, body) ==
    LET h == <<s, v>>
        about == [struct |-> s, version |-> v, body |-> body]
        checked == validate(h, body)
        done == preprocess(h, body)
    IN  IF registry = NoRegistry
        THEN CommitFails(t, s, about) \/ Commit(t, s, v, body, body, about)
        ELSE IF checked[1] # "ok"
        THEN RejectWrite(t, s, about, Err(to_node_error(checked, s, "ValidationFailed")))
        ELSE IF done.err[1] # "ok"
        THEN RejectWrite(t, s, about, Err(to_node_error(done.err, s, "PreprocessFailed")))
        ELSE CommitFails(t, s, about) \/ Commit(t, s, v, body, done.body, about)

\* Every handler but Connect turns a request away first.
TurnAway(op, t, about, result) ==
    /\ ~Serves(t)
    /\ Answer(op, t, about, Redirect, result)
    /\ UNCHANGED <<seqno, dataVars, counts, accepted, removed, unlisted, storageErrors>>

\* do_write: the client runs validate first.  A client built with older hooks
\* sends what the node's hooks reject; an undecodable body comes from such a one.
do_write(t, s, v, body, stale) ==
    LET about == [struct |-> s, version |-> v, body |-> body]
    IN  /\ answer = None /\ seqno < MaxSeq /\ (body = "junk" => stale)
        /\ IF ~stale /\ s \in HasValidate /\ body = "low"
           THEN /\ Answer("local", t, about, None.resp, <<"err", <<"Validation", s>> >>)
                /\ UNCHANGED <<seqno, dataVars, counts, accepted, removed, unlisted, storageErrors>>
           ELSE TurnAway("write", t, about, send(Redirect)) \/ (Serves(t) /\ handle_write(t, s, v, body))
        /\ UNCHANGED <<registry, owned, drains>>

-----------------------------------------------------------------------------
(* Reads and deletes.                                                      *)

RowsOf(ids) == [n \in DOMAIN ids |-> <<records[ids[n]].version, records[ids[n]].body, records[ids[n]].id>>]

MutSearchUnique(s, t) ==
    LET ids == live[s, t]
    IN  IF ids = <<>> THEN Ok(<<>>) ELSE Ok(RowsOf(<<Head(ids)>>))

handle_search_unique(s, t) ==
    LET ids == live[s, t]
    IN  IF ids = <<>> THEN Ok(<<>>) ELSE Ok(RowsOf(<<Last(ids)>>))

\* A version the registry does not declare fits no filter but All.
handle_query(s, t, filter) ==
    IF filter = "malformed" THEN Err([code |-> "MalformedPayload", about |-> s])
    ELSE IF registry = NoRegistry /\ filter # "All" THEN Err([code |-> "Unsupported", about |-> s])
    ELSE LET keep(i) == filter = "All" \/ (find(<<s, records[i].version>>)
                                           /\ Satisfies(filter, records[i].body))
         IN  Ok(RowsOf(SelectSeq(live[s, t], keep)))

\* storage_err: the data file cannot be read or written.
StorageFails(op, t, about, s) ==
    /\ Serves(t) /\ storageErrors < MaxFaults
    /\ storageErrors' = storageErrors + 1
    /\ LET resp == Err([code |-> "Storage", about |-> s])
       IN  Answer(op, t, about, resp, send(resp))
    /\ UNCHANGED <<seqno, dataVars, counts, accepted, removed, unlisted>>

Read(op, t, about, resp) ==
    /\ answer = None
    /\ \/ TurnAway(op, t, about, Typed(Redirect))
       \/ StorageFails(op, t, about, about.struct)
       \/ /\ Serves(t)
          /\ Answer(op, t, about, resp, Typed(resp))
          /\ UNCHANGED <<seqno, dataVars, counts, accepted, removed, unlisted, storageErrors>>
    /\ UNCHANGED <<registry, owned, drains>>

do_search_unique(s, t) == Read("find", t, [struct |-> s], handle_search_unique(s, t))
do_query_non_unique(s, t, filter) ==
    Read("query", t, [struct |-> s, filter |-> filter], handle_query(s, t, filter))

live_remove(list, i) == SelectSeq(list, LAMBDA j : j # i)

\* A session deletes inside its tenant only; an unknown id is fine.
handle_delete(t, i) ==
    IF i[1] # t
    THEN /\ LET resp == Err([code |-> "MalformedPayload", about |-> i[2]])
            IN  Answer("delete", t, [id |-> i], resp, send(resp))
         /\ UNCHANGED <<dataVars, removed>>
    ELSE /\ live' = [live EXCEPT ![i[2], t] = live_remove(@, i)]
         /\ removed' = removed \cup {i}
         /\ Answer("delete", t, [id |-> i], Done, Done)
         /\ UNCHANGED <<records, pendings>>

do_delete(t, i) ==
    /\ answer = None
    /\ \/ TurnAway("delete", t, [id |-> i], send(Redirect))
       \/ i[1] = t /\ StorageFails("delete", t, [id |-> i], i[2])
       \/ /\ Serves(t) /\ handle_delete(t, i)
          /\ UNCHANGED <<seqno, counts, accepted, unlisted, storageErrors>>
    /\ UNCHANGED <<registry, owned, drains>>

BeginDrain ==
    /\ ~drains /\ answer = None /\ drains' = TRUE
    /\ UNCHANGED <<registry, owned, seqno, dataVars, counts, answer, accepted, removed, unlisted, storageErrors>>

\* The client takes the answer, and the next request may come.
Deliver ==
    /\ answer # None /\ answer' = None
    /\ UNCHANGED <<registry, owned, drains, seqno, dataVars, counts, accepted, removed, unlisted,
                   storageErrors>>

RequestsNext ==
    \/ Deliver
    \/ \E t \in Tenants, s \in Structs, v \in Versions, stale \in BOOLEAN :
           \E b \in Bodies(s) : do_write(t, s, v, b, stale)
    \/ \E t \in Tenants, s \in Structs :
           \/ do_search_unique(s, t)
           \/ \E filter \in {"All", "clean", "malformed"} : do_query_non_unique(s, t, filter)
    \/ \E t \in Tenants, i \in DOMAIN records : do_delete(t, i)
    \/ BeginDrain

RequestsSpec == RequestsInit /\ [][RequestsNext]_requestVars

-----------------------------------------------------------------------------

\* What a client should be served: the records of its tenant and struct that were
\* committed, not deleted since, and could be listed, in the order of the writes.
\* Of a Unique struct whose writes the registry knows, only the last counts.
Served(s, t) ==
    LET ids == SelectSeq(accepted, LAMBDA i : i[1] = t /\ i[2] = s /\ i \notin unlisted)
        last == IF ids = <<>> THEN <<>> ELSE <<Last(ids)>>
    IN  SelectSeq(IF registry # NoRegistry /\ s \in UniqueShape THEN last ELSE ids,
                  LAMBDA i : i \notin removed)

\* A query that succeeds returns exactly the rows it should, in order and of this
\* tenant only, and a find the newest one; under a filter a row is left out only
\* when it does not match or its version is not declared (handle_query,
\* handle_search_unique, handle_delete, index_committed).
AnswersExact ==
    answer.op \in {"find", "query"} /\ answer.result[1] = "ok" =>
        LET s == answer.about.struct
            ids == Served(s, answer.tenant)
            rows == answer.result[2]
        IN  IF answer.op = "find"
            THEN rows = IF ids = <<>> THEN <<>> ELSE RowsOf(<<Last(ids)>>)
            ELSE rows = RowsOf(SelectSeq(ids, LAMBDA i :
                    \/ answer.about.filter = "All"
                    \/ records[i].body = "clean" /\ <<s, records[i].version>> \in registry))

\* With a registry, every record of this life has a declared header, passed the
\* validate hook as the client sent it, is stored as the preprocess hook made it,
\* and carries its own id, so that the id a client reads is the one to delete
\* (handle_write, stamp_engine_id).
StoredIsChecked ==
    registry # NoRegistry =>
        \A i \in DOMAIN records : i[3] <= MaxSeq =>
            LET r == records[i]
            IN  /\ <<i[2], r.version>> \in registry
                /\ i[2] \in HasValidate => r.sent \notin {"low", "junk"}
                /\ i[2] \in HasPreprocess => r.sent # "odd" /\ r.body \notin {"raw", "junk"}
                /\ r.body # "junk" => r.id = i

\* A rejected write fails with the same typed error wherever it is found out: by
\* the client's own hook, or by the node for a client built with other hooks; and
\* an undeclared version comes back as the very header (Db::send,
\* node_error_to_core, to_node_error).
SameErrorEitherSide ==
    answer.op \in {"write", "local"} /\ registry # NoRegistry /\ answer.result[1] = "err" =>
        LET w == answer.about
            h == <<w.struct, w.version>>
        IN  answer.result[2] =
                IF answer.op = "local" THEN <<"Validation", w.struct>>
                ELSE IF h \notin registry THEN <<"UnknownHeader", h>>
                ELSE IF w.body = "low" /\ w.struct \in HasValidate THEN <<"Validation", w.struct>>
                ELSE IF w.body = "odd" /\ w.struct \in HasPreprocess THEN <<"Validation", w.struct>>
                ELSE IF w.body = "junk" /\ w.struct \in HasValidate \cup HasPreprocess
                THEN <<"Other", "MalformedPayload">>
                ELSE <<"Other", "Storage">>

\* What is queued for the Slow-Node is exactly what was committed, per tenant and in
\* order, listed or not and deleted since or not; it is what the write counter
\* counts, and a number is lost only to a storage error (handle_write).
CommittedIsQueued ==
    LET mine(t) == SelectSeq(accepted, LAMBDA i : i[1] = t /\ i[3] <= MaxSeq)
    IN  /\ \A t \in Tenants : pendings[t] = mine(t)
        /\ counts.written = Cardinality({i \in DOMAIN records : i[3] <= MaxSeq})
        /\ seqno - counts.written \in 0..storageErrors

\* The result of every call is the right one: the rows, or the typed error.
ResultsExact == AnswersExact /\ SameErrorEitherSide

\* What writes leave behind is right: the records themselves, and the history queued
\* for the Slow-Node with the counters.
WritesExact == StoredIsChecked /\ CommittedIsQueued

\* node.rs:144: with a registry, "the payload decodes as that type".
StoredDecodes ==
    registry # NoRegistry =>
        \A i \in DOMAIN records : i[3] <= MaxSeq => records[i].body # "junk"

=============================================================================
