------------------------------ MODULE Session -------------------------------
(***************************************************************************)
(* A client session: a Db handle that several tasks share, the handle of a *)
(* second tenant opened from it, and the transport below both, a WebSocket *)
(* or the single-queue HTTP client.  The node serves the requests of one   *)
(* connection in order and may start to redirect (it drains, or the ring   *)
(* moves the partition away).                                              *)
(*                                                                         *)
(* Every task owns a clone of the root handle and awaits one call at a     *)
(* time.  A request is its number in the order of the calls, its sequence  *)
(* number, the task that awaits it and its kind; payloads, users and       *)
(* notifications are left out.                                             *)
(***************************************************************************)
EXTENDS Integers, Sequences, Functions

CONSTANTS Tasks,
          MaxCalls,
          MaxFaults    \* lost connections and failed posts

\* A session exists because some task holds its handle.
ASSUME SessionLimits == Tasks # {} /\ {MaxCalls, MaxFaults} \subseteq Nat

VARIABLES transport,   \* "ws" or "http"
          seq,         \* DbInner::seq of the two handles; 0: not opened
          task,        \* what each task does
          pending,     \* WsClientInner::pending
          inbox,       \* requests on the connection
          outbox,      \* responses on the connection
          link,        \* whether the connection is up
          queue,       \* HttpClientInner::queue
          permit,      \* HttpClientInner::notify
          posting,     \* the request the worker posts
          redirecting, \* the node answers "draining" or "not_owner"
          fired,       \* how often the disconnect hook ran
          faults,
          made,        \* calls begun
          served,      \* history: requests in the order the node handled them
          stored,      \* history: saves the node committed
          turned,      \* history: saves the node redirected
          saved,       \* history: saves that returned Ok
          shared,      \* history: requests pending while another had their number
          leaked,      \* history: requests whose send failed
          overlap      \* history: two clones were dropped at the same time

netVars == <<pending, inbox, outbox, link>>
httpVars == <<queue, permit, posting>>
nodeVars == <<redirecting, served, stored, turned>>
logVars == <<saved, shared, leaked, overlap>>
vars == <<transport, seq, task, netVars, httpVars, nodeVars, fired, faults, made, logVars>>

Handles == {"root", "child"}
NoRequest == [id |-> 0]
NoAnswer == [of |-> 0, ok |-> FALSE]
Failed == [of |-> 0 - 1, ok |-> FALSE]
AtRest == [st |-> "idle", req |-> NoRequest, got |-> NoAnswer]

Fault == faults < MaxFaults /\ faults' = faults + 1
Waiting(t) == task[t].st \in {"queued", "sent"}
Gone == {t \in Tasks : task[t].st = "gone"}

-----------------------------------------------------------------------------
\* The reply channel of an entry; the task of a failed send has dropped its end.
Reply(tasks, e, answer) ==
    IF tasks[e.task].req = e THEN [tasks EXCEPT ![e.task].got = answer] ELSE tasks

\* QuickNode::handle: a redirect has the shape of a success.
Handle(e) ==
    /\ served' = Append(served, e.id)
    /\ stored' = stored \cup {x \in {e.id} : e.kind = "save" /\ ~redirecting}
    /\ turned' = turned \cup {x \in {e.id} : e.kind = "save" /\ redirecting}
    /\ UNCHANGED redirecting

\* Db::send and Db::another_tenant up to the registration in the transport:
\* a sequence number is taken and the request is put in the pending list or
\* in the queue.  One second tenant is opened at a time.
BeginCall(t, h, kind) ==
    /\ task[t].st = "idle" /\ made < MaxCalls /\ seq[h] > 0
    /\ kind = "connect" => /\ h = "root" /\ seq["child"] = 0
                           /\ \A u \in Tasks : Waiting(u) => task[u].req.kind # "connect"
    /\ LET e == [id |-> made + 1, seq |-> seq[h], task |-> t, kind |-> kind]
           same == {p \in Range(pending) : p.seq = e.seq}
       IN  /\ task' = [task EXCEPT ![t] = [st |-> "queued", req |-> e, got |-> NoAnswer]]
           /\ IF transport = "ws"
              THEN pending' = Append(pending, e) /\ UNCHANGED queue
              ELSE queue' = Append(queue, e) /\ UNCHANGED pending
           /\ shared' = shared \cup (IF same = {} THEN {}
                                     ELSE {e.id} \cup {p.id : p \in same})
    /\ seq' = [seq EXCEPT ![h] = @ + 1]
    /\ made' = made + 1
    /\ UNCHANGED <<transport, inbox, outbox, link, permit, posting, nodeVars, fired,
                   faults, saved, leaked, overlap>>

-----------------------------------------------------------------------------
\* <WsClient as Transport>::send: the frame is written.  On a connection that
\* is down the write may still be buffered.
WsSend(t) ==
    /\ transport = "ws" /\ task[t].st = "queued"
    /\ task' = [task EXCEPT ![t].st = "sent"]
    /\ inbox' = IF link THEN Append(inbox, task[t].req) ELSE inbox
    /\ UNCHANGED <<transport, seq, pending, outbox, link, httpVars, nodeVars, fired,
                   faults, made, logVars>>

\* The write fails.  The entry stays in the pending list.
WsSendFails(t) ==
    /\ transport = "ws" /\ task[t].st = "queued" /\ ~link
    /\ task' = [task EXCEPT ![t] = AtRest]
    /\ leaked' = leaked \cup {task[t].req.id}
    /\ UNCHANGED <<transport, seq, netVars, httpVars, nodeVars, fired, faults, made,
                   saved, shared, overlap>>

\* handle_ws_session: one request after another.
WsServe ==
    /\ link /\ inbox # <<>>
    /\ Handle(Head(inbox))
    /\ outbox' = Append(outbox, [of |-> Head(inbox).id, seq |-> Head(inbox).seq])
    /\ inbox' = Tail(inbox)
    /\ UNCHANGED <<transport, seq, task, pending, link, httpVars, fired, faults, made, logVars>>

\* The entry a response completes: the first one with its number.
MutMatch(ps, s) == {i \in DOMAIN ps : i = 1}
Match(ps, s) == {i \in DOMAIN ps : /\ ps[i].seq = s
                                   /\ \A j \in 1..(i - 1) : ps[j].seq # s}

\* The list without its entry i; the ones after it move up (Vec::remove).
Without(ps, i) == [j \in 1..(Len(ps) - 1) |-> ps[IF j < i THEN j ELSE j + 1]]

\* ws_read_loop, one response.
WsRead ==
    /\ outbox # <<>>
    /\ LET r == Head(outbox)
           at == Match(pending, r.seq)
       IN  IF at = {} THEN UNCHANGED <<task, pending>>
           ELSE LET i == CHOOSE i \in at : TRUE
                IN  /\ task' = Reply(task, pending[i], [of |-> r.of, ok |-> TRUE])
                    /\ pending' = Without(pending, i)
    /\ outbox' = Tail(outbox)
    /\ UNCHANGED <<transport, seq, inbox, link, httpVars, nodeVars, fired, faults, made, logVars>>

\* The connection ends.  Responses already received may still be read, then
\* the read loop returns; it leaves the pending list alone.
WsDown ==
    /\ transport = "ws" /\ link /\ Fault
    /\ link' = FALSE
    /\ inbox' = <<>>
    /\ outbox' \in {outbox, <<>>}
    /\ UNCHANGED <<transport, seq, task, pending, httpVars, nodeVars, fired, made, logVars>>

-----------------------------------------------------------------------------
\* <HttpClient as Transport>::send: the worker is notified after the push.
HttpNotify(t) ==
    /\ transport = "http" /\ task[t].st = "queued"
    /\ task' = [task EXCEPT ![t].st = "sent"]
    /\ permit' = TRUE
    /\ UNCHANGED <<transport, seq, netVars, queue, posting, nodeVars, fired, faults, made, logVars>>

\* flush_one takes the oldest request, if there is one.
MutFlushOne ==
    IF queue = <<>> THEN UNCHANGED <<queue, posting>>
    ELSE posting' = queue[Len(queue)] /\ queue' = SubSeq(queue, 1, Len(queue) - 1)
FlushOne ==
    IF queue = <<>> THEN UNCHANGED <<queue, posting>>
    ELSE posting' = Head(queue) /\ queue' = Tail(queue)

\* HttpClient::run: the worker wakes on a permit, which does not count how
\* many requests there are, or when the interval has passed.
WorkerWakes ==
    /\ transport = "http" /\ posting = NoRequest /\ permit
    /\ permit' = FALSE
    /\ FlushOne
    /\ UNCHANGED <<transport, seq, task, netVars, nodeVars, fired, faults, made, logVars>>
MutIdleTick == FALSE /\ UNCHANGED vars
IdleTick ==
    /\ transport = "http" /\ posting = NoRequest /\ queue # <<>>
    /\ FlushOne
    /\ UNCHANGED <<transport, seq, task, netVars, permit, nodeVars, fired, faults, made, logVars>>

\* post_request: the node handles the request and the response arrives, or the
\* call fails before or after the node handled it.
PostAnswered ==
    /\ posting # NoRequest
    /\ Handle(posting)
    /\ task' = Reply(task, posting, [of |-> posting.id, ok |-> TRUE])
    /\ posting' = NoRequest
    /\ UNCHANGED <<transport, seq, netVars, queue, permit, fired, faults, made, logVars>>
PostFails ==
    /\ posting # NoRequest /\ Fault
    /\ Handle(posting) \/ UNCHANGED nodeVars
    /\ task' = Reply(task, posting, Failed)
    /\ posting' = NoRequest
    /\ UNCHANGED <<transport, seq, netVars, queue, permit, fired, made, logVars>>

-----------------------------------------------------------------------------
\* The call returns.  Db::send passes every response without an error field to
\* the caller as a success; another_tenant starts the new handle's sequence
\* after the number of its own request.
ReturnCall(t) ==
    /\ task[t].st = "sent" /\ task[t].got # NoAnswer
    /\ LET e == task[t].req
           ok == task[t].got.ok
       IN  /\ saved' = saved \cup {x \in {e.id} : ok /\ e.kind = "save"}
           /\ seq' = IF ok /\ e.kind = "connect" THEN [seq EXCEPT !["child"] = e.seq + 1]
                     ELSE seq
    /\ task' = [task EXCEPT ![t] = AtRest]
    /\ UNCHANGED <<transport, netVars, httpVars, nodeVars, fired, faults, made, shared, leaked,
                   overlap>>

\* Drop for Db: the strong count is read and the hook runs if this clone looks
\* like the last; the count goes down when the fields are dropped.
BeginDrop(t) ==
    /\ task[t].st = "idle"
    /\ task' = [task EXCEPT ![t].st = "dropping"]
    /\ fired' = IF Tasks \ Gone = {t} /\ fired = 0 THEN 1 ELSE fired
    /\ overlap' = (overlap \/ \E u \in Tasks : task[u].st = "dropping")
    /\ UNCHANGED <<transport, seq, netVars, httpVars, nodeVars, faults, made, saved, shared, leaked>>
EndDrop(t) ==
    /\ task[t].st = "dropping"
    /\ task' = [task EXCEPT ![t].st = "gone"]
    /\ UNCHANGED <<transport, seq, netVars, httpVars, nodeVars, fired, faults, made, logVars>>

\* The node drains, or gossip moves the partition to another node.
Redirect ==
    /\ ~redirecting /\ redirecting' = TRUE
    /\ UNCHANGED <<transport, seq, task, netVars, httpVars, served, stored, turned, fired,
                   faults, made, logVars>>

-----------------------------------------------------------------------------
\* open_with_transport has returned: number 0 was the connect request's.
Init ==
    /\ transport \in {"ws", "http"}
    /\ seq = [h \in Handles |-> IF h = "root" THEN 1 ELSE 0]
    /\ task = [t \in Tasks |-> AtRest]
    /\ pending = <<>> /\ inbox = <<>> /\ outbox = <<>> /\ link = TRUE
    /\ queue = <<>> /\ permit = FALSE /\ posting = NoRequest
    /\ redirecting = FALSE
    /\ fired = 0 /\ faults = 0 /\ made = 0
    /\ served = <<>> /\ stored = {} /\ turned = {}
    /\ saved = {} /\ shared = {} /\ leaked = {} /\ overlap = FALSE

Call(t) == WsSend(t) \/ HttpNotify(t) \/ ReturnCall(t)
Worker == WorkerWakes \/ IdleTick
Post == PostAnswered \/ PostFails

Next ==
    \/ \E t \in Tasks : \/ \E h \in Handles, k \in {"save", "connect"} : BeginCall(t, h, k)
                        \/ Call(t) \/ WsSendFails(t) \/ BeginDrop(t) \/ EndDrop(t)
    \/ WsServe \/ WsRead \/ WsDown \/ Worker \/ Post \/ Redirect

Spec == Init /\ [][Next]_vars
\* Tasks of a live client are polled, the worker's interval passes, the node
\* answers what it received and a post ends one way or the other.
FairSpec ==
    /\ Spec
    /\ \A t \in Tasks : WF_vars(Call(t))
    /\ WF_vars(WsServe) /\ WF_vars(WsRead) /\ WF_vars(Worker) /\ WF_vars(Post)

-----------------------------------------------------------------------------
\* A call is completed by the response to its own request, unless another
\* request with the same number was pending with it (WsClient matches by
\* sequence number, HttpClient by reply channel).
OwnAnswer ==
    \A t \in Tasks : task[t].got.ok /\ task[t].req.id \notin shared =>
        task[t].got.of = task[t].req.id

\* A save that returned Ok was committed by the node, or the node redirected
\* it, or its answer may have been another request's.
SavedAccounted == saved \subseteq stored \cup turned \cup shared

\* The pending list holds exactly the calls that still wait on the WebSocket,
\* and the entries left behind by sends that failed.
PendingExact ==
    transport = "ws" =>
        {e.id : e \in Range(pending)} \ leaked =
        {task[t].req.id : t \in {u \in Tasks : Waiting(u) /\ task[u].got = NoAnswer}}

\* The node handles the requests of the HTTP client in the order of the calls
\* ("This guarantees ordering"), whoever made them.
HttpInOrder ==
    transport = "http" =>
        \A i, j \in DOMAIN served : i < j => served[i] < served[j]

\* The disconnect hook runs at most once, and it has run when every clone is
\* gone and no two were dropped at the same time.
DisconnectsOnce ==
    /\ fired <= 1
    /\ Gone = Tasks /\ ~overlap => fired = 1

\* Calls as a whole: each gets its own answer, what it reports is accounted for, the
\* transport holds what waits, and the session is closed once.
CallsSound == OwnAnswer /\ SavedAccounted /\ PendingExact /\ DisconnectsOnce

\* Every call ends, on a connection that stays up.
Answered ==
    \A t \in Tasks : Waiting(t) ~> (~Waiting(t) \/ ~link)

-----------------------------------------------------------------------------
\* What the documentation says and the code does not do.

\* Db::save: "Persist `record` as a new version."
SavedIsStored == saved \subseteq stored

\* WsClientInner: "Pending (in-flight) requests, keyed by sequence number."
NumbersAreUnique == shared = {}

\* Db: "when the last clone drops, the Quick-Node receives a disconnect message
\* so it can release the session slot promptly."
LastDropDisconnects == Gone = Tasks => fired = 1

\* ws.rs: "the next request is not sent until the previous response is
\* received."
OneInFlight == Len(inbox) + Len(outbox) <= 1

\* <WsClient as Transport>::send has an error for a read loop that ended
\* ("ws read loop dropped"), so a call on a lost connection ends.
AlwaysAnswered == \A t \in Tasks : Waiting(t) ~> ~Waiting(t)
=============================================================================
