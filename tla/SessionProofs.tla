--------------------------- MODULE SessionProofs ----------------------------
(***************************************************************************)
(* A session's calls: each gets the answer to its own request, the HTTP    *)
(* client's requests are handled in order, and the session is closed once. *)
(* The steps of the connection, of the HTTP worker and of the node keep    *)
(* the invariant of SessionSteps.                                          *)
(***************************************************************************)
EXTENDS SessionSteps

\* The node serves the oldest request on the connection and answers it.
LEMMA WsServeStep ==
    ASSUME IInv, WsServe
    PROVE  IInv'
<1>T. /\ inbox \in Seq(Requests) /\ outbox \in Seq(Responses) /\ served \in Seq(Nat)
      /\ transport \in {"ws", "http"} /\ inbox # <<>>
  BY DEF IInv, TypeOK, WsServe
<1>1. PICK e : e = Head(inbox)
  OBVIOUS
<1>2. PICK r : r = [of |-> e.id, seq |-> e.seq]
  BY Zenon
<1>0. /\ served' = Append(served, e.id)
      /\ stored' = stored \cup {x \in {e.id} : e.kind = "save" /\ ~redirecting}
      /\ turned' = turned \cup {x \in {e.id} : e.kind = "save" /\ redirecting}
      /\ outbox' = Append(outbox, r) /\ inbox' = Tail(inbox)
      /\ UNCHANGED <<transport, seq, task, pending, queue, posting, fired, made, saved, shared,
                     leaked, overlap>>
  BY <1>1, <1>2 DEF WsServe, Handle, httpVars, logVars
<1>3. /\ e \in Requests /\ e \in Range(inbox) /\ Tail(inbox) \in Seq(Requests)
      /\ Range(Tail(inbox)) \subseteq Range(inbox)
      /\ Ids(Tail(inbox)) /\ \A p \in Range(Tail(inbox)) : p.id # e.id
  BY <1>1, <1>T, TailFacts, TailIds DEF IInv, Once
<1>4. r \in Responses /\ r.of = e.id /\ r.seq = e.seq /\ e.id \in Nat
  BY <1>2, <1>3 DEF Requests, Responses
<1>5. /\ Append(outbox, r) \in Seq(Responses) /\ Append(served, e.id) \in Seq(Nat)
      /\ Range(Append(outbox, r)) = Range(outbox) \cup {r}
  BY <1>4, <1>T, AppendFacts
<1>6. transport = "ws"
  BY <1>T DEF IInv, OneTransport
<1>7. TypeOK' /\ OneTransport'
  BY <1>0, <1>3, <1>5, <1>6 DEF IInv, TypeOK, OneTransport
<1>8. TasksSettled'
  BY <1>0 DEF IInv, TasksSettled, Waiting
<1>9. HttpSorted'
  BY <1>0, <1>6 DEF IInv, HttpSorted, HttpInOrder
<1>10. DropsInTurn'
  BY <1>0, DropsKept DEF IInv
<1>11. Once'
  <2>1. \A i, j \in DOMAIN outbox' : outbox'[i].of = outbox'[j].of => i = j
    <3>1. \A i \in DOMAIN outbox : outbox[i].of # e.id
      BY <1>3 DEF IInv, Once, Range
    <3>2. /\ DOMAIN outbox' = DOMAIN outbox \cup {Len(outbox) + 1}
          /\ \A i \in DOMAIN outbox : outbox'[i] = outbox[i]
          /\ outbox'[Len(outbox) + 1] = r
      BY <1>0, <1>4, <1>T, AppendFacts
    <3> QED BY <1>4, <3>1, <3>2 DEF IInv, Once
  <2>2. /\ \A p \in Range(pending) \cup Range(inbox') : p.id <= made
        /\ \A q \in Range(outbox') : q.of <= made /\ \A p \in Range(inbox') : p.id # q.of
    BY <1>0, <1>3, <1>4, <1>5 DEF IInv, Once
  <2>3. \A t \in Tasks : task[t].st = "queued" =>
           /\ \A p \in Range(inbox') : p.id # task[t].req.id
           /\ \A q \in Range(outbox') : q.of # task[t].req.id
    BY <1>0, <1>3, <1>4, <1>5 DEF IInv, Once
  <2>4. /\ \A t, u \in Tasks : Waiting(t)' /\ Waiting(u)' /\ task[t].req.id = task[u].req.id => t = u
        /\ Ids(pending') /\ Ids(inbox')
        /\ leaked \subseteq 1..made /\ shared \subseteq 1..made
        /\ \A t \in Tasks : task[t].req.id \notin leaked
    BY <1>0, <1>3 DEF IInv, Once, Waiting
  <2> QED BY <1>0, <2>1, <2>2, <2>3, <2>4 DEF Once
<1>12. PendingOfTasks' /\ NumbersUsed'
  BY <1>0 DEF IInv, PendingOfTasks, NumbersUsed, Waiting, Used
<1>13. FlightsCovered'
  <2>1. \A i, s : Covered(i, s)' <=> Covered(i, s)
    BY <1>0 DEF Covered, Used
  <2>2. /\ \A p \in Range(inbox') : Covered(p.id, p.seq)
        /\ \A q \in Range(outbox') : Covered(q.of, q.seq)
        /\ \A t \in Tasks : task[t].st = "queued" => Covered(task[t].req.id, task[t].req.seq)
    BY <1>0, <1>3, <1>4, <1>5, <1>6 DEF IInv, FlightsCovered
  <2>3. \A t \in Tasks : Covered(task[t].req.id, task[t].req.seq)' <=> Covered(task[t].req.id, task[t].req.seq)
    BY <1>0 DEF Covered, Used
  <2> QED BY <1>0, <2>1, <2>2, <2>3 DEF FlightsCovered
<1>14. AnswersTrue'
  <2>1. Accounted \subseteq Accounted' /\ (e.kind = "save" => e.id \in Accounted')
    BY <1>0 DEF Accounted
  <2>2. \A q \in Range(outbox'), p \in Range(pending) :
           q.of = p.id /\ p.kind = "save" => q.of \in Accounted'
    BY <1>0, <1>3, <1>4, <1>5, <2>1 DEF IInv, AnswersTrue
  <2> QED BY <1>0, <1>3, <2>1, <2>2 DEF IInv, AnswersTrue, Waiting
<1>15. OwnAnswer' /\ SavedAccounted'
  BY <1>0 DEF IInv, OwnAnswer, SavedAccounted
<1> QED BY <1>7, <1>8, <1>9, <1>10, <1>11, <1>12, <1>13, <1>14, <1>15 DEF IInv

\* A reply reaches the task that waits for this very request, or nobody.
LEMMA ReplyFacts ==
    ASSUME IInv, NEW p \in Requests, NEW a \in [of : Int, ok : BOOLEAN],
           task' = Reply(task, p, a)
    PROVE  /\ task' \in [Tasks -> TaskRecords]
           /\ \A u \in Tasks : /\ task'[u].st = task[u].st /\ task'[u].req = task[u].req
                               /\ Waiting(u)' <=> Waiting(u)
           /\ \A u \in Tasks : \/ task'[u].got = task[u].got
                               \/ Waiting(u) /\ task[u].req = p /\ task'[u].got = a
           /\ \A u \in Tasks : task[u].req = p => task'[u].got = a
           /\ \A u \in Tasks : task[u].req # p => task'[u].got = task[u].got
<1>T. task \in [Tasks -> TaskRecords]
  BY DEF IInv, TypeOK
<1>1. p # NoRequest /\ p.task \in Tasks
  BY DEF Requests, NoRequest
<1>2. \A u \in Tasks : task[u].req = p => Waiting(u) /\ p.task = u
  BY <1>1 DEF IInv, TasksSettled
<1>3. CASE task[p.task].req = p
  <2>1. task' = [task EXCEPT ![p.task].got = a]
    BY <1>3 DEF Reply
  <2>2. /\ task' \in [Tasks -> TaskRecords]
        /\ \A u \in Tasks : /\ task'[u].st = task[u].st /\ task'[u].req = task[u].req
                            /\ task'[u].got = IF u = p.task THEN a ELSE task[u].got
    BY <1>1, <1>T, <2>1 DEF TaskRecords
  <2> QED BY <1>2, <1>3, <2>2 DEF Waiting
<1>4. CASE task[p.task].req # p
  <2>1. task' = task
    BY <1>4 DEF Reply
  <2> QED BY <1>2, <1>4, <1>T, <2>1 DEF Waiting
<1> QED BY <1>3, <1>4

\* A response that no entry has the number of changes nothing; another completes the
\* first entry with its number.  When that is the entry of another request, the two
\* numbers are the same and both handles are past it.
LEMMA WsReadStep ==
    ASSUME IInv, WsRead
    PROVE  IInv'
<1>T. /\ outbox \in Seq(Responses) /\ outbox # <<>> /\ pending \in Seq(Requests)
      /\ task \in [Tasks -> TaskRecords] /\ transport \in {"ws", "http"}
  BY DEF IInv, TypeOK, WsRead
<1>1. PICK r : r = Head(outbox)
  OBVIOUS
<1>0. /\ outbox' = Tail(outbox)
      /\ UNCHANGED <<transport, seq, inbox, queue, posting, served, stored, turned, fired, made,
                     saved, shared, leaked, overlap>>
  BY DEF WsRead, httpVars, nodeVars, logVars
<1>2. /\ r \in Responses /\ r \in Range(outbox) /\ Tail(outbox) \in Seq(Responses)
      /\ Range(outbox') \subseteq Range(outbox)
      /\ \A q \in Range(outbox') : q.of # r.of
      /\ \A i, j \in DOMAIN outbox' : outbox'[i].of = outbox'[j].of => i = j
  <2>1. /\ r \in Responses /\ r \in Range(outbox) /\ Tail(outbox) \in Seq(Responses)
        /\ Range(outbox') \subseteq Range(outbox)
        /\ r = outbox[1] /\ 1 \in DOMAIN outbox
        /\ \A i \in DOMAIN outbox' : i + 1 \in DOMAIN outbox /\ i + 1 # 1 /\ outbox'[i] = outbox[i + 1]
    BY <1>0, <1>1, <1>T, TailFacts
  <2>2. DOMAIN outbox' \subseteq Int
    BY <1>0, <2>1
  <2>3. \A i, j \in DOMAIN outbox' : i + 1 = j + 1 => i = j
    BY <2>2
  <2>4. \A i, j \in DOMAIN outbox' : outbox'[i].of = outbox'[j].of => i = j
    BY <2>1, <2>3 DEF IInv, Once
  <2>5. \A i \in DOMAIN outbox' : outbox'[i].of # r.of
    BY <2>1 DEF IInv, Once
  <2> QED BY <2>1, <2>4, <2>5 DEF Range
<1>3. transport = "ws"
  BY <1>T DEF IInv, OneTransport
<1>4. CASE task' = task /\ pending' = pending
  <2>1. TypeOK' /\ OneTransport'
    BY <1>0, <1>2, <1>3, <1>4 DEF IInv, TypeOK, OneTransport
  <2>2. TasksSettled' /\ HttpSorted'
    BY <1>0, <1>4 DEF IInv, TasksSettled, HttpSorted, HttpInOrder, Waiting
  <2>3. DropsInTurn'
    BY <1>0, <1>4, DropsKept DEF IInv
  <2>4. Once'
    BY <1>0, <1>2, <1>4 DEF IInv, Once, Waiting
  <2>5. PendingOfTasks' /\ NumbersUsed'
    BY <1>0, <1>4 DEF IInv, PendingOfTasks, NumbersUsed, Waiting, Used
  <2>6. FlightsCovered'
    BY <1>0, <1>2, <1>4 DEF IInv, FlightsCovered, Covered, Used
  <2>7. AnswersTrue' /\ OwnAnswer' /\ SavedAccounted'
    BY <1>0, <1>2, <1>4 DEF IInv, AnswersTrue, OwnAnswer, SavedAccounted, Waiting, Accounted
  <2> QED BY <2>1, <2>2, <2>3, <2>4, <2>5, <2>6, <2>7 DEF IInv
<1>5. CASE ~(task' = task /\ pending' = pending)
  <2>1. PICK k \in DOMAIN pending :
           /\ pending[k].seq = r.seq
           /\ task' = Reply(task, pending[k], [of |-> r.of, ok |-> TRUE])
           /\ pending' = Without(pending, k)
    <3>1. Match(pending, r.seq) # {}
      BY <1>1, <1>5 DEF WsRead
    <3>2. PICK k : k = CHOOSE i \in Match(pending, r.seq) : TRUE
      OBVIOUS
    <3>3. k \in Match(pending, r.seq)
      BY <3>1, <3>2
    <3>4. k \in DOMAIN pending /\ pending[k].seq = r.seq
      BY <3>3 DEF Match
    <3>5. task' = Reply(task, pending[k], [of |-> r.of, ok |-> TRUE]) /\ pending' = Without(pending, k)
      BY <1>1, <3>1, <3>2 DEF WsRead
    <3> QED BY <3>4, <3>5
  <2>2. PICK p : p = pending[k]
    OBVIOUS
  <2>3. PICK a : a = [of |-> r.of, ok |-> TRUE]
    BY Zenon
  <2>4. /\ p \in Requests /\ p \in Range(pending) /\ p.seq = r.seq /\ p.id \in Nat \ {0} /\ p.seq \in Nat
        /\ task' = Reply(task, p, a)
    <3>1. p \in Requests /\ p \in Range(pending)
      BY <1>T, <2>1, <2>2 DEF Range
    <3>2. task' = Reply(task, p, a) /\ p.seq = r.seq
      BY <2>1, <2>2, <2>3
    <3> QED BY <3>1, <3>2 DEF Requests
  <2>5. /\ pending' \in Seq(Requests) /\ Range(pending') \subseteq Range(pending)
        /\ \A e \in Range(pending) : e = p \/ e \in Range(pending')
        /\ Ids(pending') /\ \A e \in Range(pending') : e.id # p.id
    <3>1. Ids(pending)
      BY DEF IInv, Once
    <3>2. /\ Without(pending, k) \in Seq(Requests) /\ Range(Without(pending, k)) \subseteq Range(pending)
          /\ \A e \in Range(pending) : e = pending[k] \/ e \in Range(Without(pending, k))
      BY <1>T, <2>1, WithoutFacts
    <3>3. Ids(Without(pending, k)) /\ \A e \in Range(Without(pending, k)) : e.id # pending[k].id
      BY <1>T, <2>1, <3>1, OthersStay
    <3>4. pending' = Without(pending, k)
      BY <2>1
    <3> QED BY <2>2, <3>2, <3>3, <3>4
  <2>6. a \in [of : Int, ok : BOOLEAN] /\ a # NoAnswer /\ a.ok /\ a.of = r.of
    <3>1. r.of \in Int
      BY <1>2 DEF Responses
    <3> QED BY <2>3, <3>1 DEF NoAnswer
  <2>7. /\ task' \in [Tasks -> TaskRecords]
        /\ \A u \in Tasks : /\ task'[u].st = task[u].st /\ task'[u].req = task[u].req
                            /\ Waiting(u)' <=> Waiting(u)
        /\ \A u \in Tasks : \/ task'[u].got = task[u].got
                            \/ Waiting(u) /\ task[u].req = p /\ task'[u].got = a
        /\ \A u \in Tasks : task[u].req = p => task'[u].got = a
        /\ \A u \in Tasks : task[u].req # p => task'[u].got = task[u].got
    BY <2>4, <2>6, ReplyFacts
  <2>8. r.of = p.id \/ (p.id \in shared /\ Used(p.seq))
    <3>1. Covered(r.of, r.seq)
      BY <1>2 DEF IInv, FlightsCovered
    <3>2. \A q \in Range(pending) : q # p /\ q.seq = p.seq => p.id \in shared /\ Used(p.seq)
      BY <2>4 DEF IInv, NumbersUsed
    <3> QED BY <2>4, <3>1, <3>2 DEF Covered
  <2>9. TypeOK' /\ OneTransport'
    BY <1>0, <1>2, <1>3, <2>5, <2>7 DEF IInv, TypeOK, OneTransport
  <2>10. TasksSettled'
    BY <1>0, <2>7 DEF IInv, TasksSettled
  <2>11. HttpSorted'
    BY <1>0 DEF IInv, HttpSorted, HttpInOrder
  <2>12. DropsInTurn'
    BY <1>0, <2>7, DropsKept DEF IInv
  <2>13. Once'
    <3>1. Ids(inbox')
      BY <1>0 DEF IInv, Once
    <3>2. /\ \A e \in Range(pending') \cup Range(inbox') : e.id <= made'
          /\ \A q \in Range(outbox') : q.of <= made' /\ \A e \in Range(inbox') : e.id # q.of
      BY <1>0, <1>2, <2>5 DEF IInv, Once
    <3>3. \A u \in Tasks : task'[u].st = "queued" =>
             /\ \A e \in Range(inbox') : e.id # task'[u].req.id
             /\ \A q \in Range(outbox') : q.of # task'[u].req.id
      BY <1>0, <1>2, <2>7 DEF IInv, Once
    <3>4. /\ \A u, v \in Tasks : Waiting(u)' /\ Waiting(v)' /\ task'[u].req.id = task'[v].req.id => u = v
          /\ leaked' \subseteq 1..made' /\ shared' \subseteq 1..made'
          /\ \A u \in Tasks : task'[u].req.id \notin leaked'
      BY <1>0, <2>7 DEF IInv, Once
    <3> QED BY <1>2, <2>5, <3>1, <3>2, <3>3, <3>4 DEF Once
  <2>14. PendingOfTasks'
    <3>1. ASSUME NEW e \in Range(pending'), e.id \notin leaked
          PROVE  Waiting(e.task)' /\ task'[e.task].req = e /\ task'[e.task].got = NoAnswer
      <4>1. e \in Range(pending) /\ e # p /\ e.task \in Tasks
        BY <2>5, <3>1, ElementTypes DEF IInv
      <4>2. Waiting(e.task) /\ task[e.task].req = e /\ task[e.task].got = NoAnswer
        BY <1>3, <3>1, <4>1 DEF IInv, PendingOfTasks
      <4>3. task'[e.task].req = e /\ task'[e.task].got = NoAnswer
        BY <2>7, <4>1, <4>2
      <4>4. \A u \in Tasks : Waiting(u) => Waiting(u)'
        BY <2>7
      <4>5. Waiting(e.task)'
        BY <2>7, <4>1, <4>2 DEF Waiting
      <4> QED BY <4>3, <4>5
    <3>2. ASSUME NEW t \in Tasks, Waiting(t)', task'[t].got = NoAnswer
          PROVE  task'[t].req \in Range(pending')
      <4>1. task[t].req # p
        BY <2>6, <2>7, <3>2
      <4>2. Waiting(t) /\ task[t].got = NoAnswer
        BY <2>7, <3>2, <4>1
      <4>3. task[t].req \in Range(pending)
        BY <1>3, <4>2 DEF IInv, PendingOfTasks
      <4> QED BY <2>5, <2>7, <4>1, <4>3
    <3> QED BY <1>0, <3>1, <3>2 DEF PendingOfTasks
  <2>15. NumbersUsed'
    BY <1>0, <2>5, <2>7 DEF IInv, NumbersUsed, Used
  <2>16. FlightsCovered'
    <3>1. \A s : Used(s)' <=> Used(s)
      BY <1>0 DEF Used
    <3>2. ASSUME NEW i, NEW s, Covered(i, s), i # r.of PROVE Covered(i, s)'
      <4>1. CASE \E e \in Range(pending) : e.id = i /\ e.seq = s
        <5>1. PICK e \in Range(pending) : e.id = i /\ e.seq = s
          BY <4>1
        <5>2. CASE e # p
          BY <2>5, <5>1, <5>2 DEF Covered
        <5>3. CASE e = p
          <6>1. p.id \in shared /\ Used(p.seq)
            BY <2>8, <3>2, <5>1, <5>3
          <6>2. \A q \in Range(pending') : q.seq = p.seq => q.id \in shared
            BY <2>4, <2>5 DEF IInv, NumbersUsed
          <6> QED BY <1>0, <3>1, <5>1, <5>3, <6>1, <6>2 DEF Covered
        <5> QED BY <5>2, <5>3
      <4>2. CASE i \in shared /\ Used(s) /\ \A e \in Range(pending) : e.seq = s => e.id \in shared
        BY <1>0, <2>5, <3>1, <4>2 DEF Covered
      <4> QED BY <3>2, <4>1, <4>2 DEF Covered
    <3>3. \A e \in Range(inbox') : Covered(e.id, e.seq)'
      BY <1>0, <1>2, <3>2 DEF IInv, FlightsCovered, Once
    <3>4. \A q \in Range(outbox') : Covered(q.of, q.seq)'
      BY <1>2, <3>2 DEF IInv, FlightsCovered
    <3>5. ASSUME NEW t \in Tasks, task'[t].st = "queued"
          PROVE  Covered(task[t].req.id, task[t].req.seq)'
      <4>1. PICK i, s : i = task[t].req.id /\ s = task[t].req.seq
        OBVIOUS
      <4>2. Covered(i, s) /\ i # r.of
        BY <1>2, <1>3, <2>7, <3>5, <4>1 DEF IInv, FlightsCovered, Once
      <4>3. Covered(i, s)' /\ i = task'[t].req.id /\ s = task'[t].req.seq
        BY <2>7, <3>2, <4>1, <4>2
      <4> QED BY <4>3 DEF Covered, Used
    <3> QED BY <3>3, <3>4, <3>5 DEF FlightsCovered
  <2>17. AnswersTrue'
    <3>1. p.kind = "save" => p.id \in Accounted
      BY <1>2, <2>4, <2>8 DEF IInv, AnswersTrue, Accounted
    <3>2. Accounted' = Accounted
      BY <1>0 DEF Accounted
    <3>3. \A u \in Tasks : task'[u].got.ok => Waiting(u)'
      BY <2>7 DEF IInv, AnswersTrue
    <3>4. \A u \in Tasks : task'[u].got.ok /\ task'[u].req.kind = "save" => task'[u].req.id \in Accounted
      BY <2>7, <3>1 DEF IInv, AnswersTrue
    <3>5. /\ \A e \in Range(inbox'), q \in Range(pending') : e.id = q.id => e = q
          /\ \A u \in Tasks, q \in Range(pending') : task'[u].req.id = q.id => task'[u].req = q
          /\ \A s \in Range(outbox'), q \in Range(pending') :
                s.of = q.id /\ q.kind = "save" => s.of \in Accounted
      BY <1>0, <1>2, <2>5, <2>7 DEF IInv, AnswersTrue
    <3> QED BY <3>2, <3>3, <3>4, <3>5 DEF AnswersTrue
  <2>18. OwnAnswer' /\ SavedAccounted'
    <3>1. OwnAnswer'
      BY Zenon, <1>0, <2>6, <2>7, <2>8 DEF IInv, OwnAnswer
    <3> QED BY <1>0, <3>1 DEF IInv, SavedAccounted
  <2> QED BY <2>9, <2>10, <2>11, <2>12, <2>13, <2>14, <2>15, <2>16, <2>17, <2>18 DEF IInv
<1> QED BY <1>4, <1>5

\* A lost connection loses requests and responses; nothing waits for less.
LEMMA WsDownStep ==
    ASSUME IInv, WsDown
    PROVE  IInv'
<1>0. /\ inbox' = <<>> /\ outbox' \in {outbox, <<>>}
      /\ UNCHANGED <<transport, seq, task, pending, queue, posting, served, stored, turned, fired,
                     made, saved, shared, leaked, overlap>>
  BY DEF WsDown, httpVars, nodeVars, logVars
<1>1. /\ Range(inbox') = {} /\ DOMAIN inbox' = {} /\ Range(outbox') \subseteq Range(outbox)
      /\ outbox' = outbox \/ DOMAIN outbox' = {}
  BY <1>0 DEF Range
<1>2. TypeOK' /\ OneTransport'
  BY <1>0 DEF IInv, TypeOK, OneTransport
<1>3. TasksSettled' /\ HttpSorted'
  BY <1>0 DEF IInv, TasksSettled, HttpSorted, HttpInOrder, Waiting
<1>4. DropsInTurn'
  BY <1>0, DropsKept DEF IInv
<1>5. Once'
  <2>1. Ids(inbox') /\ \A i, j \in DOMAIN outbox' : outbox'[i].of = outbox'[j].of => i = j
    BY <1>0, <1>1 DEF IInv, Once, Ids
  <2> QED BY <1>0, <1>1, <2>1 DEF IInv, Once, Waiting
<1>6. PendingOfTasks' /\ NumbersUsed'
  BY <1>0 DEF IInv, PendingOfTasks, NumbersUsed, Waiting, Used
<1>7. FlightsCovered'
  BY <1>0, <1>1 DEF IInv, FlightsCovered, Covered, Used
<1>8. AnswersTrue' /\ OwnAnswer' /\ SavedAccounted'
  BY <1>0, <1>1 DEF IInv, AnswersTrue, OwnAnswer, SavedAccounted, Waiting, Accounted
<1> QED BY <1>2, <1>3, <1>4, <1>5, <1>6, <1>7, <1>8 DEF IInv

\* The worker takes the oldest request of the queue, which is the next call's.
LEMMA WorkerStep ==
    ASSUME IInv, Worker
    PROVE  IInv'
<1>0. /\ transport = "http" /\ posting = NoRequest /\ FlushOne
      /\ UNCHANGED <<transport, seq, task, pending, inbox, outbox, served, stored, turned, fired,
                     made, saved, shared, leaked, overlap>>
  BY DEF Worker, WorkerWakes, IdleTick, netVars, nodeVars, logVars
<1>T. queue \in Seq(Requests)
  BY DEF IInv, TypeOK
<1>1. TypeOK' /\ HttpSorted'
  <2>1. CASE queue = <<>>
    BY <1>0, <2>1 DEF IInv, FlushOne, TypeOK, HttpSorted, HttpInOrder
  <2>2. CASE queue # <<>>
    <3>1. posting' = Head(queue) /\ queue' = Tail(queue)
      BY <1>0, <2>2 DEF FlushOne
    <3>2. /\ posting' \in Requests /\ queue' \in Seq(Requests)
          /\ posting' = queue[1] /\ 1 \in DOMAIN queue
          /\ \A i \in DOMAIN queue' : i + 1 \in DOMAIN queue /\ i + 1 # 1 /\ queue'[i] = queue[i + 1]
      BY <1>T, <2>2, <3>1, TailFacts
    <3>3. DOMAIN queue' \subseteq Nat \ {0}
      BY <3>2
    <3>4. \A i \in DOMAIN queue' : 1 < i + 1 /\ \A j \in DOMAIN queue' : i < j => i + 1 < j + 1
      BY <3>3
    <3>5. TypeOK'
      BY <1>0, <3>2 DEF IInv, TypeOK
    <3>6. /\ \A i \in DOMAIN queue' : queue'[i].id <= made
          /\ \A i, j \in DOMAIN queue' : i < j => queue'[i].id < queue'[j].id
      BY <3>2, <3>4 DEF IInv, HttpSorted
    <3>7. posting'.id <= made /\ \A i \in DOMAIN queue' : posting'.id < queue'[i].id
      BY <3>2, <3>4 DEF IInv, HttpSorted
    <3>8. \A k \in DOMAIN served :
             /\ served[k] <= made /\ served[k] < posting'.id
             /\ \A i \in DOMAIN queue' : served[k] < queue'[i].id
      BY <1>0, <3>2 DEF IInv, HttpSorted
    <3>9. HttpInOrder'
      BY <1>0 DEF IInv, HttpSorted, HttpInOrder
    <3> QED BY <1>0, <3>5, <3>6, <3>7, <3>8, <3>9 DEF HttpSorted
  <2> QED BY <2>1, <2>2
<1>2. TasksSettled' /\ OneTransport'
  BY <1>0 DEF IInv, TasksSettled, OneTransport, Waiting
<1>3. DropsInTurn'
  BY <1>0, DropsKept DEF IInv
<1>4. Once'
  BY <1>0 DEF IInv, Once, Waiting
<1>5. PendingOfTasks' /\ NumbersUsed'
  BY <1>0 DEF IInv, PendingOfTasks, NumbersUsed, Waiting, Used
<1>6. FlightsCovered'
  BY <1>0 DEF IInv, FlightsCovered, Covered, Used
<1>7. AnswersTrue' /\ OwnAnswer' /\ SavedAccounted'
  BY <1>0 DEF IInv, AnswersTrue, OwnAnswer, SavedAccounted, Waiting, Accounted
<1> QED BY <1>1, <1>2, <1>3, <1>4, <1>5, <1>6, <1>7 DEF IInv

\* The post ends.  The node handled the request after every earlier one, or not at all;
\* the answer goes to the task that made it.
LEMMA PostStep ==
    ASSUME IInv, Post
    PROVE  IInv'
<1>1. PICK e : e = posting
  OBVIOUS
<1>2. PICK a \in {[of |-> e.id, ok |-> TRUE], Failed} :
         /\ task' = Reply(task, e, a)
         /\ a.ok => a.of = e.id /\ (e.kind = "save" => e.id \in stored' \cup turned')
  <2>1. CASE PostAnswered
    <3>1. task' = Reply(task, e, [of |-> e.id, ok |-> TRUE])
      BY <1>1, <2>1 DEF PostAnswered
    <3>2. e.kind = "save" => e.id \in stored' \cup turned'
      BY <1>1, <2>1 DEF PostAnswered, Handle
    <3> QED BY <3>1, <3>2
  <2>2. CASE PostFails
    <3>1. task' = Reply(task, e, Failed) /\ ~Failed.ok
      BY <1>1, <2>2 DEF PostFails, Failed
    <3> QED BY <3>1
  <2> QED BY <2>1, <2>2 DEF Post
<1>0. /\ e # NoRequest /\ posting' = NoRequest
      /\ served' = served \/ served' = Append(served, e.id)
      /\ stored \subseteq stored' /\ turned \subseteq turned'
      /\ UNCHANGED <<transport, seq, pending, inbox, outbox, queue, fired, made, saved, shared,
                     leaked, overlap>>
  BY <1>1 DEF Post, PostAnswered, PostFails, Handle, netVars, nodeVars, logVars
<1>3. /\ e \in Requests /\ e.id \in Nat /\ e.id <= made /\ transport = "http" /\ served \in Seq(Nat)
      /\ transport # "ws"
  BY <1>0, <1>1, ElementTypes DEF IInv, TypeOK, HttpSorted, OneTransport
<1>4. a \in [of : Int, ok : BOOLEAN] /\ a # NoAnswer
  <2>1. e.id \in Int /\ e.id # 0
    BY <1>3 DEF Requests
  <2>2. CASE a = [of |-> e.id, ok |-> TRUE]
    BY <2>1, <2>2 DEF NoAnswer
  <2>3. CASE a = Failed
    BY <2>3 DEF NoAnswer, Failed
  <2> QED BY <1>2, <2>2, <2>3
<1>5. /\ task' \in [Tasks -> TaskRecords]
      /\ \A u \in Tasks : /\ task'[u].st = task[u].st /\ task'[u].req = task[u].req
                          /\ Waiting(u)' <=> Waiting(u)
      /\ \A u \in Tasks : \/ task'[u].got = task[u].got
                          \/ Waiting(u) /\ task[u].req = e /\ task'[u].got = a
  BY <1>2, <1>3, <1>4, ReplyFacts
<1>6. pending = <<>> /\ inbox = <<>> /\ outbox = <<>> /\ Range(<<>>) = {}
  BY <1>3 DEF IInv, OneTransport, Range
<1>7. TypeOK' /\ OneTransport'
  <2>1. Append(served, e.id) \in Seq(Nat)
    BY <1>3
  <2> QED BY Zenon, <1>0, <1>3, <1>5, <1>6, <2>1 DEF IInv, TypeOK, OneTransport
<1>8. TasksSettled'
  BY <1>0, <1>5 DEF IInv, TasksSettled
<1>9. HttpSorted'
  <2>1. /\ \A i \in DOMAIN queue : queue[i].id <= made /\ e.id < queue[i].id
        /\ \A i, j \in DOMAIN queue : i < j => queue[i].id < queue[j].id
        /\ \A k \in DOMAIN served : /\ served[k] <= made /\ served[k] < e.id
                                    /\ \A i \in DOMAIN queue : served[k] < queue[i].id
        /\ \A i, j \in DOMAIN served : i < j => served[i] < served[j]
    BY ZenonT(30), <1>0, <1>1, <1>3 DEF IInv, HttpSorted, HttpInOrder
  <2>2. CASE served' = served
    BY <1>0, <2>1, <2>2 DEF HttpSorted, HttpInOrder
  <2>3. CASE served' = Append(served, e.id)
    <3>1. /\ DOMAIN served' = DOMAIN served \cup {Len(served) + 1}
          /\ \A i \in DOMAIN served : served'[i] = served[i]
          /\ served'[Len(served) + 1] = e.id
          /\ Len(served) \in Nat /\ \A i \in DOMAIN served : i \in Nat /\ i < Len(served) + 1
      BY <1>3, <2>3, AppendFacts
    <3>2. \A i, j \in DOMAIN served' : i < j => served'[i] < served'[j]
      <4>1. \A i \in DOMAIN served' : i \in DOMAIN served \/ i = Len(served) + 1
        BY <3>1
      <4>2. \A i, j \in DOMAIN served' : i < j => i \in DOMAIN served
        BY <3>1
      <4> QED BY <2>1, <3>1, <4>1, <4>2
    <3>3. \A k \in DOMAIN served' : /\ served'[k] <= made
                                    /\ \A i \in DOMAIN queue : served'[k] < queue[i].id
      BY <1>3, <2>1, <3>1
    <3> QED BY <1>0, <2>1, <3>2, <3>3 DEF HttpSorted, HttpInOrder
  <2> QED BY <1>0, <2>2, <2>3
<1>10. DropsInTurn'
  BY <1>0, <1>5, DropsKept DEF IInv
<1>11. Once'
  BY <1>0, <1>5 DEF IInv, Once
<1>12. PendingOfTasks' /\ NumbersUsed'
  BY <1>0, <1>3, <1>5, <1>6 DEF IInv, PendingOfTasks, NumbersUsed, Used
<1>13. FlightsCovered'
  BY <1>0, <1>3, <1>6 DEF FlightsCovered
<1>14. AnswersTrue'
  <2>1. Accounted \subseteq Accounted' /\ (a.ok /\ e.kind = "save" => e.id \in Accounted')
    BY <1>0, <1>2 DEF Accounted
  <2>2. \A u \in Tasks : task'[u].got.ok => Waiting(u)'
    BY <1>5 DEF IInv, AnswersTrue
  <2>3. \A u \in Tasks : task'[u].got.ok /\ task'[u].req.kind = "save" => task'[u].req.id \in Accounted'
    BY <1>5, <2>1 DEF IInv, AnswersTrue
  <2> QED BY <1>0, <1>6, <2>2, <2>3 DEF AnswersTrue
<1>15. OwnAnswer' /\ SavedAccounted'
  <2>1. OwnAnswer'
    BY <1>0, <1>2, <1>5 DEF IInv, OwnAnswer
  <2> QED BY <1>0, <2>1 DEF IInv, SavedAccounted
<1> QED BY <1>7, <1>8, <1>9, <1>10, <1>11, <1>12, <1>13, <1>14, <1>15 DEF IInv

\* The node starts to redirect, or nothing happens.
LEMMA QuietStep ==
    ASSUME IInv, Redirect \/ UNCHANGED vars
    PROVE  IInv'
<1>0. UNCHANGED <<transport, seq, task, pending, inbox, outbox, queue, posting, served, stored,
                  turned, fired, made, saved, shared, leaked, overlap>>
  BY DEF Redirect, vars, netVars, httpVars, nodeVars, logVars
<1>1. TypeOK' /\ OneTransport' /\ TasksSettled' /\ HttpSorted'
  BY <1>0 DEF IInv, TypeOK, OneTransport, TasksSettled, HttpSorted, HttpInOrder, Waiting
<1>2. DropsInTurn'
  BY <1>0, DropsKept DEF IInv
<1>3. Once' /\ PendingOfTasks' /\ NumbersUsed'
  <2>1. Once'
    BY <1>0 DEF IInv, Once, Ids, Waiting
  <2>2. PendingOfTasks' /\ NumbersUsed'
    BY <1>0 DEF IInv, PendingOfTasks, NumbersUsed, Waiting, Used
  <2> QED BY <2>1, <2>2
<1>4. FlightsCovered'
  BY <1>0 DEF IInv, FlightsCovered, Covered, Used
<1>5. AnswersTrue' /\ OwnAnswer' /\ SavedAccounted'
  BY <1>0 DEF IInv, AnswersTrue, OwnAnswer, SavedAccounted, Waiting, Accounted
<1> QED BY <1>1, <1>2, <1>3, <1>4, <1>5 DEF IInv

LEMMA Inductive == IInv /\ [Next]_vars => IInv'
<1> SUFFICES ASSUME IInv, Next \/ UNCHANGED vars PROVE IInv'
  OBVIOUS
<1>1. CASE \E t \in Tasks, h \in Handles, k \in {"save", "connect"} : BeginCall(t, h, k)
  BY <1>1, BeginCallStep
<1>2. CASE \E t \in Tasks : Call(t)
  BY <1>2, SendStep, ReturnCallStep DEF Call
<1>3. CASE \E t \in Tasks : WsSendFails(t)
  BY <1>3, WsSendFailsStep
<1>4. CASE \E t \in Tasks : BeginDrop(t) \/ EndDrop(t)
  BY <1>4, DropStep
<1>5. CASE WsServe \/ WsRead \/ WsDown
  BY <1>5, WsServeStep, WsReadStep, WsDownStep
<1>6. CASE Worker \/ Post
  BY <1>6, WorkerStep, PostStep
<1>7. CASE Redirect \/ UNCHANGED vars
  BY <1>7, QuietStep
<1> QED BY <1>1, <1>2, <1>3, <1>4, <1>5, <1>6, <1>7 DEF Next

LEMMA IInvAlways == Spec => []IInv
  BY InitIInv, Inductive, PTL DEF Spec

\* What the invariant says of the pending list as a set of ids.
LEMMA PendingIsExact == IInv => PendingExact
<1> SUFFICES ASSUME IInv, transport = "ws" PROVE PendingExact
  BY DEF PendingExact
<1> DEFINE W == {u \in Tasks : Waiting(u) /\ task[u].got = NoAnswer}
<1>1. ASSUME NEW e \in Range(pending), e.id \notin leaked
      PROVE  \E t \in W : task[t].req.id = e.id
  <2>1. e.task \in Tasks
    BY ElementTypes DEF IInv
  <2>2. e.task \in W /\ task[e.task].req = e
    BY <1>1, <2>1 DEF IInv, PendingOfTasks
  <2> QED BY <2>2
<1>2. ASSUME NEW t \in W
      PROVE  task[t].req.id \notin leaked /\ \E e \in Range(pending) : e.id = task[t].req.id
  BY DEF IInv, PendingOfTasks, Once
<1>3. {e.id : e \in Range(pending)} \ leaked = {task[t].req.id : t \in W}
  BY <1>1, <1>2
<1> QED BY <1>3 DEF PendingExact

\* Every call of a session gets the answer to its own request unless its number was
\* shared; a save that returned Ok was committed or redirected; the pending list is what
\* waits; and the session is closed once (Db::send, ws_read_loop, flush_one, Drop for Db),
\* for every number of tasks, calls and faults.
THEOREM CallsAreSound == Spec => []CallsSound
<1>1. IInv => DisconnectsOnce
  BY DEF IInv, TypeOK, DropsInTurn, DisconnectsOnce
<1>2. IInv => CallsSound
  BY <1>1, PendingIsExact DEF IInv, CallsSound
<1> QED BY <1>2, IInvAlways, PTL

\* HttpClient: "This guarantees ordering": the node handles what the one worker posts in
\* the order of the calls, whichever task made them and whether posts fail or not.
THEOREM HttpKeepsOrder == Spec => []HttpInOrder
<1>1. IInv => HttpInOrder
  BY DEF IInv, HttpSorted
<1> QED BY <1>1, IInvAlways, PTL
=============================================================================
