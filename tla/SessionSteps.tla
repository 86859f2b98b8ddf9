---------------------------- MODULE SessionSteps ----------------------------
(***************************************************************************)
(* The inductive invariant of a session, and that the steps of its tasks,  *)
(* calls and drops, keep it, for every number of tasks, calls and faults.  *)
(***************************************************************************)
EXTENDS Session, TLAPS


-----------------------------------------------------------------------------
(* The inductive invariant.                                                *)

Requests == [id : Nat \ {0}, seq : Nat, task : Tasks, kind : {"save", "connect"}]
TaskRecords == [st : {"idle", "queued", "sent", "dropping", "gone"},
                req : Requests \cup {NoRequest}, got : [of : Int, ok : BOOLEAN]]
Responses == [of : Nat \ {0}, seq : Nat]

TypeOK ==
    /\ transport \in {"ws", "http"}
    /\ seq \in [Handles -> Nat] /\ made \in Nat
    /\ task \in [Tasks -> TaskRecords]
    /\ pending \in Seq(Requests) /\ inbox \in Seq(Requests) /\ outbox \in Seq(Responses)
    /\ queue \in Seq(Requests) /\ posting \in Requests \cup {NoRequest}
    /\ served \in Seq(Nat) /\ fired \in {0, 1}

\* A task has a request exactly while it waits.
TasksSettled ==
    \A t \in Tasks :
       IF Waiting(t) THEN task[t].req \in Requests /\ task[t].req.id <= made /\ task[t].req.task = t
       ELSE task[t].req = NoRequest /\ task[t].got = NoAnswer

\* Only one transport is in use.
OneTransport ==
    IF transport = "ws" THEN queue = <<>> /\ posting = NoRequest
    ELSE pending = <<>> /\ inbox = <<>> /\ outbox = <<>>

\* What the HTTP client handled, posts and still holds is in the order of the calls.
HttpSorted ==
    /\ HttpInOrder
    /\ \A i \in DOMAIN queue : queue[i].id <= made
    /\ \A i, j \in DOMAIN queue : i < j => queue[i].id < queue[j].id
    /\ posting # NoRequest => posting.id <= made /\ \A i \in DOMAIN queue : posting.id < queue[i].id
    /\ transport = "http" => \A k \in DOMAIN served :
          /\ served[k] <= made /\ (posting # NoRequest => served[k] < posting.id)
          /\ \A i \in DOMAIN queue : served[k] < queue[i].id

\* One clone at a time is dropped; the one that is dropped last has run the hook.
DropsInTurn ==
    ~overlap =>
       /\ \A t, u \in Tasks : task[t].st = "dropping" /\ task[u].st = "dropping" => t = u
       /\ \A t \in Tasks : task[t].st = "dropping" /\ Tasks \ Gone = {t} => fired = 1
       /\ Gone = Tasks => fired = 1

\* Each request is pending at most once, and in flight at most once.
Ids(s) == \A i, j \in DOMAIN s : s[i].id = s[j].id => i = j
Once ==
    /\ Ids(pending) /\ Ids(inbox)
    /\ \A i, j \in DOMAIN outbox : outbox[i].of = outbox[j].of => i = j
    /\ \A e \in Range(pending) \cup Range(inbox) : e.id <= made
    /\ \A r \in Range(outbox) : r.of <= made /\ \A e \in Range(inbox) : e.id # r.of
    /\ \A t \in Tasks : task[t].st = "queued" =>
          /\ \A e \in Range(inbox) : e.id # task[t].req.id
          /\ \A r \in Range(outbox) : r.of # task[t].req.id
    /\ \A t, u \in Tasks : Waiting(t) /\ Waiting(u) /\ task[t].req.id = task[u].req.id => t = u
    /\ leaked \subseteq 1..made /\ shared \subseteq 1..made
    /\ \A t \in Tasks : task[t].req.id \notin leaked

\* A pending entry is of a task that waits for it, or of a send that failed.
PendingOfTasks ==
    transport = "ws" =>
       /\ \A e \in Range(pending) :
             \/ e.id \in leaked
             \/ Waiting(e.task) /\ task[e.task].req = e /\ task[e.task].got = NoAnswer
       /\ \A t \in Tasks : Waiting(t) /\ task[t].got = NoAnswer => task[t].req \in Range(pending)

\* A handle gives out each number once, so a number that both gave out is never
\* given out again.
Used(s) == s < seq["root"] /\ s < seq["child"]
NumbersUsed ==
    /\ \A e \in Range(pending) : e.seq < seq["root"] \/ e.seq < seq["child"]
    /\ \A e \in Range(pending) : e.id \in shared => Used(e.seq)
    /\ \A e, f \in Range(pending) : e # f /\ e.seq = f.seq => e.id \in shared
    /\ \A t \in Tasks : Waiting(t) /\ task[t].req.kind = "connect" =>
          /\ seq["child"] = 0
          /\ \A u \in Tasks : Waiting(u) /\ task[u].req.kind = "connect" => u = t

\* A request in flight is pending, or the response to one with its number completed it;
\* then all that wait for that number share it.
Covered(i, s) ==
    \/ \E e \in Range(pending) : e.id = i /\ e.seq = s
    \/ i \in shared /\ Used(s) /\ \A e \in Range(pending) : e.seq = s => e.id \in shared
FlightsCovered ==
    /\ \A e \in Range(inbox) : Covered(e.id, e.seq)
    /\ \A r \in Range(outbox) : Covered(r.of, r.seq)
    /\ transport = "ws" => \A t \in Tasks :
          task[t].st = "queued" => Covered(task[t].req.id, task[t].req.seq)

\* What a response or an answer says of a save has happened.
Accounted == stored \cup turned \cup shared
AnswersTrue ==
    /\ \A e \in Range(inbox), p \in Range(pending) : e.id = p.id => e = p
    /\ \A t \in Tasks, p \in Range(pending) : task[t].req.id = p.id => task[t].req = p
    /\ \A r \in Range(outbox), p \in Range(pending) :
          r.of = p.id /\ p.kind = "save" => r.of \in Accounted
    /\ \A t \in Tasks : task[t].got.ok => Waiting(t)
    /\ \A t \in Tasks : task[t].got.ok /\ task[t].req.kind = "save" => task[t].req.id \in Accounted

IInv ==
    /\ TypeOK /\ TasksSettled /\ OneTransport /\ HttpSorted /\ DropsInTurn /\ Once
    /\ PendingOfTasks /\ NumbersUsed /\ FlightsCovered /\ AnswersTrue
    /\ OwnAnswer /\ SavedAccounted

-----------------------------------------------------------------------------
(* Sequences.                                                              *)

LEMMA LessIsKept == \A s, m, n \in Nat : s < m /\ m <= n => s < n
OBVIOUS

LEMMA AppendFacts ==
    ASSUME NEW S, NEW s \in Seq(S), NEW x \in S
    PROVE  /\ Append(s, x) \in Seq(S) /\ DOMAIN Append(s, x) = DOMAIN s \cup {Len(s) + 1}
           /\ \A i \in DOMAIN s : Append(s, x)[i] = s[i]
           /\ Append(s, x)[Len(s) + 1] = x
           /\ Range(Append(s, x)) = Range(s) \cup {x}
           /\ Len(s) \in Nat /\ \A i \in DOMAIN s : i \in Nat /\ i < Len(s) + 1
<1>1. /\ Append(s, x) \in Seq(S) /\ DOMAIN Append(s, x) = DOMAIN s \cup {Len(s) + 1}
      /\ \A i \in DOMAIN s : Append(s, x)[i] = s[i]
      /\ Append(s, x)[Len(s) + 1] = x
  OBVIOUS
<1>2. Len(s) \in Nat /\ \A i \in DOMAIN s : i \in Nat /\ i < Len(s) + 1
  OBVIOUS
<1> QED BY <1>1, <1>2 DEF Range

LEMMA TailFacts ==
    ASSUME NEW S, NEW s \in Seq(S), s # <<>>
    PROVE  /\ Tail(s) \in Seq(S) /\ Head(s) \in S /\ Head(s) = s[1] /\ 1 \in DOMAIN s
           /\ \A i \in DOMAIN Tail(s) : i + 1 \in DOMAIN s /\ i + 1 # 1 /\ Tail(s)[i] = s[i + 1]
           /\ Range(Tail(s)) \subseteq Range(s) /\ Head(s) \in Range(s)
           /\ \A e \in Range(s) : e = Head(s) \/ e \in Range(Tail(s))
<1>1. /\ Tail(s) \in Seq(S) /\ Head(s) \in S /\ Head(s) = s[1] /\ 1 \in DOMAIN s
      /\ DOMAIN Tail(s) = 1..(Len(s) - 1) /\ DOMAIN s = 1..Len(s) /\ Len(s) \in Nat
      /\ \A i \in DOMAIN Tail(s) : i + 1 \in DOMAIN s /\ i + 1 # 1 /\ Tail(s)[i] = s[i + 1]
  OBVIOUS
<1>2. \A i \in DOMAIN s : i = 1 \/ (i - 1 \in DOMAIN Tail(s) /\ s[i] = Tail(s)[i - 1])
  BY <1>1
<1>3. Range(Tail(s)) \subseteq Range(s) /\ Head(s) \in Range(s)
  BY <1>1 DEF Range
<1>4. \A e \in Range(s) : e = Head(s) \/ e \in Range(Tail(s))
  BY <1>1, <1>2 DEF Range
<1> QED BY <1>1, <1>3, <1>4

LEMMA WithoutFacts ==
    ASSUME NEW S, NEW s \in Seq(S), NEW k \in DOMAIN s
    PROVE  /\ Without(s, k) \in Seq(S)
           /\ \A i \in DOMAIN Without(s, k) :
                 Without(s, k)[i] = s[IF i < k THEN i ELSE i + 1]
                 /\ (IF i < k THEN i ELSE i + 1) \in DOMAIN s \ {k}
           /\ Range(Without(s, k)) \subseteq Range(s)
           /\ \A e \in Range(s) : e = s[k] \/ e \in Range(Without(s, k))
<1> DEFINE r == Without(s, k)
<1>1. k \in 1..Len(s) /\ DOMAIN s = 1..Len(s) /\ Len(s) \in Nat
  OBVIOUS
<1>2. /\ DOMAIN r = 1..(Len(s) - 1)
      /\ \A i \in 1..(Len(s) - 1) : r[i] = s[IF i < k THEN i ELSE i + 1]
  BY DEF Without
<1> HIDE DEF r
<1>3. r \in Seq(S)
  <2>1. Len(s) - 1 \in Nat
    BY <1>1
  <2>2. \A i \in 1..(Len(s) - 1) : (IF i < k THEN i ELSE i + 1) \in 1..Len(s)
    BY <1>1
  <2>3. r \in [1..(Len(s) - 1) -> S]
    BY <1>1, <1>2, <2>2 DEF r, Without
  <2> QED BY <2>1, <2>3
<1>4. \A i \in DOMAIN r : i < k => r[i] = s[i]
  BY <1>1, <1>2
<1>5. \A i \in DOMAIN r : ~(i < k) => r[i] = s[i + 1]
  BY <1>1, <1>2
<1>6. \A i \in DOMAIN r : (IF i < k THEN i ELSE i + 1) \in DOMAIN s \ {k}
  BY <1>1, <1>2
<1>7. \A i \in DOMAIN s : i = k \/ (i < k /\ i \in DOMAIN r) \/ (i > k /\ i - 1 \in DOMAIN r /\ ~(i - 1 < k) /\ (i - 1) + 1 = i)
  <2> SUFFICES ASSUME NEW i \in 1..Len(s)
               PROVE  i = k \/ (i < k /\ i \in 1..(Len(s) - 1)) \/ (i > k /\ i - 1 \in 1..(Len(s) - 1) /\ ~(i - 1 < k) /\ (i - 1) + 1 = i)
    BY <1>1, <1>2
  <2>1. k \in 1..Len(s) /\ Len(s) \in Nat
    BY <1>1
  <2> QED BY <2>1
<1>8. \A i \in DOMAIN s : i = k \/ \E j \in DOMAIN r : r[j] = s[i]
  BY <1>4, <1>5, <1>7
<1>9. \A i \in DOMAIN r : \E j \in DOMAIN s : r[i] = s[j]
  BY <1>4, <1>5, <1>6
<1>10. Range(r) \subseteq Range(s) /\ \A e \in Range(s) : e = s[k] \/ e \in Range(r)
  BY <1>8, <1>9 DEF Range
<1> QED BY <1>3, <1>4, <1>5, <1>6, <1>10 DEF r

\* The entries that stay behind are the others, when each has an id of its own.
LEMMA OthersStay ==
    ASSUME NEW S, NEW s \in Seq(S), NEW k \in DOMAIN s, Ids(s)
    PROVE  Ids(Without(s, k)) /\ \A e \in Range(Without(s, k)) : e.id # s[k].id
<1> DEFINE r == Without(s, k)
           at(i) == IF i < k THEN i ELSE i + 1
<1>1. \A i \in DOMAIN r : r[i] = s[at(i)] /\ at(i) \in DOMAIN s \ {k}
  BY WithoutFacts
<1>2. DOMAIN r \subseteq Nat /\ k \in Nat
  <2>1. r \in Seq(S)
    BY WithoutFacts
  <2> HIDE DEF r
  <2> QED BY <2>1
<1> HIDE DEF r
<1>3. \A i, j \in DOMAIN r : at(i) = at(j) => i = j
  BY <1>2
<1> HIDE DEF at
<1>4. Ids(r) /\ \A i \in DOMAIN r : r[i].id # s[k].id
  BY <1>1, <1>3 DEF Ids
<1> QED BY <1>4 DEF Range, r

\* The same for the head of a queue.
LEMMA TailIds ==
    ASSUME NEW S, NEW s \in Seq(S), s # <<>>, Ids(s)
    PROVE  Ids(Tail(s)) /\ \A e \in Range(Tail(s)) : e.id # Head(s).id
<1>1. /\ \A i \in DOMAIN Tail(s) : i + 1 \in DOMAIN s /\ i + 1 # 1 /\ Tail(s)[i] = s[i + 1]
      /\ Head(s) = s[1] /\ 1 \in DOMAIN s /\ DOMAIN Tail(s) \subseteq Int
  <2>1. Tail(s) \in Seq(S)
    BY TailFacts
  <2>2. DOMAIN Tail(s) \subseteq Int
    BY <2>1
  <2> QED BY <2>2, TailFacts
<1>2. \A i, j \in DOMAIN Tail(s) : i + 1 = j + 1 => i = j
  BY <1>1
<1>3. Ids(Tail(s)) /\ \A i \in DOMAIN Tail(s) : Tail(s)[i].id # Head(s).id
  BY <1>1, <1>2 DEF Ids
<1> QED BY <1>3 DEF Range

LEMMA AppendIds ==
    ASSUME NEW S, NEW s \in Seq(S), NEW x \in S, Ids(s), \A e \in Range(s) : e.id # x.id
    PROVE  Ids(Append(s, x))
<1>1. \A i \in DOMAIN s : s[i].id # x.id /\ Append(s, x)[i] = s[i]
  BY AppendFacts DEF Range
<1> QED BY <1>1, AppendFacts DEF Ids

-----------------------------------------------------------------------------
LEMMA InitIInv == Init => IInv
<1> SUFFICES ASSUME Init PROVE IInv
  OBVIOUS
<1>0. Range(<<>>) = {} /\ DOMAIN <<>> = {}
  BY DEF Range
<1>1. TypeOK
  <2>1. task \in [Tasks -> TaskRecords]
    BY DEF Init, AtRest, NoRequest, NoAnswer, TaskRecords
  <2> QED BY <2>1 DEF Init, TypeOK, Handles
<1>2. \A t \in Tasks : task[t] = AtRest /\ ~Waiting(t) /\ task[t].req.id = 0 /\ ~task[t].got.ok
                       /\ task[t].st # "gone" /\ task[t].st # "dropping"
  BY DEF Init, AtRest, Waiting, NoRequest, NoAnswer
<1>3. TasksSettled
  BY <1>2 DEF TasksSettled, AtRest
<1>4. OneTransport
  BY DEF Init, OneTransport
<1>5. HttpSorted
  BY <1>0 DEF Init, HttpSorted, HttpInOrder
<1>6. DropsInTurn
  BY <1>2, SessionLimits DEF DropsInTurn, Gone
<1>7. Once
  BY <1>0, <1>2 DEF Init, Once, Ids, Waiting
<1>8. PendingOfTasks /\ NumbersUsed /\ FlightsCovered
  BY <1>0, <1>2 DEF Init, PendingOfTasks, NumbersUsed, FlightsCovered, Waiting
<1>9. AnswersTrue /\ OwnAnswer /\ SavedAccounted
  BY <1>0, <1>2 DEF Init, AnswersTrue, OwnAnswer, SavedAccounted
<1> QED BY <1>1, <1>3, <1>4, <1>5, <1>6, <1>7, <1>8, <1>9 DEF IInv

\* A step that drops no clone leaves the count of clones alone.
LEMMA DropsKept ==
    ASSUME DropsInTurn, UNCHANGED <<fired, overlap>>,
           \A t \in Tasks : /\ task'[t].st = "dropping" <=> task[t].st = "dropping"
                            /\ task'[t].st = "gone" <=> task[t].st = "gone"
    PROVE  DropsInTurn'
<1>1. Gone' = Gone
  BY DEF Gone
<1> QED BY <1>1 DEF DropsInTurn

LEMMA ElementTypes ==
    ASSUME TypeOK
    PROVE  /\ \A p \in Range(pending) \cup Range(inbox) \cup Range(queue) :
                 p \in Requests /\ p.id \in Nat \ {0} /\ p.seq \in Nat /\ p.task \in Tasks
           /\ \A r \in Range(outbox) : r \in Responses /\ r.of \in Nat \ {0} /\ r.seq \in Nat
           /\ \A i \in DOMAIN queue : queue[i] \in Requests /\ queue[i].id \in Nat
           /\ \A k \in DOMAIN served : served[k] \in Nat
           /\ posting # NoRequest => posting \in Requests /\ posting.id \in Nat
           /\ \A t \in Tasks : task[t].req.id \in Nat
<1>1. \A p \in Requests : p.id \in Nat \ {0} /\ p.seq \in Nat /\ p.task \in Tasks
  BY DEF Requests
<1>2. \A r \in Responses : r.of \in Nat \ {0} /\ r.seq \in Nat
  BY DEF Responses
<1>3. /\ Range(pending) \subseteq Requests /\ Range(inbox) \subseteq Requests
      /\ Range(queue) \subseteq Requests /\ Range(outbox) \subseteq Responses
      /\ \A i \in DOMAIN queue : queue[i] \in Requests
      /\ \A k \in DOMAIN served : served[k] \in Nat
  BY DEF TypeOK, Range
<1>4. \A t \in Tasks : task[t].req \in Requests \cup {NoRequest}
  BY DEF TypeOK, TaskRecords
<1>5. NoRequest.id \in Nat
  BY DEF NoRequest
<1>6. posting \in Requests \cup {NoRequest}
  BY DEF TypeOK
<1> QED BY <1>1, <1>2, <1>3, <1>4, <1>5, <1>6

\* What is in flight stays covered: entries are added to the pending list only with
\* numbers that are not used up.
LEMMA CoveredKept ==
    ASSUME NEW i, NEW s \in Nat, Covered(i, s),
           Range(pending) \subseteq Range(pending'), shared \subseteq shared',
           \A h \in Handles : seq[h] \in Nat /\ seq'[h] \in Nat /\ seq[h] <= seq'[h],
           \A e \in Range(pending') \ Range(pending) : ~Used(e.seq)
    PROVE  Covered(i, s)'
<1>1. Used(s) => Used(s)'
  BY DEF Used, Handles
<1> QED BY <1>1 DEF Covered

\* A call takes a new id and the handle's next number.
LEMMA BeginCallStep ==
    ASSUME IInv, NEW t \in Tasks, NEW h \in Handles, NEW kind \in {"save", "connect"},
           BeginCall(t, h, kind)
    PROVE  IInv'
<1>T. /\ transport \in {"ws", "http"} /\ seq \in [Handles -> Nat] /\ made \in Nat
      /\ task \in [Tasks -> TaskRecords]
      /\ pending \in Seq(Requests) /\ queue \in Seq(Requests)
  BY DEF IInv, TypeOK
<1>1. PICK e \in Requests :
         /\ e = [id |-> made + 1, seq |-> seq[h], task |-> t, kind |-> kind]
         /\ e.id = made + 1 /\ e.seq = seq[h] /\ e.task = t /\ e.kind = kind
         /\ e.id > made /\ e.id # 0 /\ e.seq \in Nat /\ e.id \in Nat
  <2> DEFINE e == [id |-> made + 1, seq |-> seq[h], task |-> t, kind |-> kind]
  <2>1. made + 1 \in Nat \ {0} /\ made + 1 > made /\ seq[h] \in Nat
    BY <1>T
  <2>2. e \in Requests
    BY <2>1 DEF Requests
  <2>3. e.id = made + 1 /\ e.seq = seq[h] /\ e.task = t /\ e.kind = kind
    OBVIOUS
  <2> QED BY <2>1, <2>2, <2>3
<1>S. PICK same : same = {p \in Range(pending) : p.seq = e.seq}
  BY Zenon
<1>0. /\ task[t].st = "idle" /\ seq[h] > 0
      /\ kind = "connect" => /\ h = "root" /\ seq["child"] = 0
                             /\ \A u \in Tasks : Waiting(u) => task[u].req.kind # "connect"
      /\ task' = [task EXCEPT ![t] = [st |-> "queued", req |-> e, got |-> NoAnswer]]
      /\ transport = "ws" => pending' = Append(pending, e) /\ queue' = queue
      /\ transport # "ws" => queue' = Append(queue, e) /\ pending' = pending
      /\ shared' = shared \cup (IF same = {} THEN {} ELSE {e.id} \cup {p.id : p \in same})
      /\ seq' = [seq EXCEPT ![h] = @ + 1] /\ made' = made + 1
      /\ UNCHANGED <<transport, inbox, outbox, posting, served, stored, turned, saved, fired,
                     leaked, overlap>>
  BY <1>1, <1>S DEF BeginCall, nodeVars
<1>A. /\ Append(pending, e) \in Seq(Requests) /\ Append(queue, e) \in Seq(Requests)
      /\ Range(Append(pending, e)) = Range(pending) \cup {e}
  BY <1>T, AppendFacts
<1>2. /\ task'[t] = [st |-> "queued", req |-> e, got |-> NoAnswer]
      /\ task'[t].st = "queued" /\ task'[t].req = e /\ task'[t].got = NoAnswer
      /\ ~task'[t].got.ok
      /\ \A u \in Tasks \ {t} : task'[u] = task[u]
      /\ Waiting(t)' /\ ~Waiting(t) /\ \A u \in Tasks \ {t} : Waiting(u)' <=> Waiting(u)
  BY <1>0, <1>T DEF Waiting, NoAnswer
<1>3. /\ seq'[h] = seq[h] + 1 /\ \A g \in Handles \ {h} : seq'[g] = seq[g]
      /\ \A g \in Handles : seq[g] \in Nat /\ seq'[g] \in Nat /\ seq[g] <= seq'[g]
  BY <1>0, <1>T
<1>4. TypeOK'
  <2>1. [st |-> "queued", req |-> e, got |-> NoAnswer] \in TaskRecords
    BY <1>1 DEF TaskRecords, NoAnswer
  <2>2. task' \in [Tasks -> TaskRecords]
    BY <1>0, <1>T, <2>1
  <2>3. pending' \in Seq(Requests) /\ queue' \in Seq(Requests)
    BY Zenon, <1>0, <1>A, <1>T
  <2>4. seq' \in [Handles -> Nat]
    BY <1>0, <1>T
  <2> QED BY <1>0, <2>2, <2>3, <2>4 DEF IInv, TypeOK
<1>5. /\ Range(pending) \subseteq Range(pending') /\ Range(pending') \subseteq Range(pending) \cup {e}
      /\ transport = "ws" => e \in Range(pending')
      /\ transport # "ws" => Range(pending') = {}
  <2>1. CASE transport = "ws"
    BY Zenon, <1>0, <1>A, <2>1
  <2>2. CASE transport # "ws"
    BY <1>0, <2>2 DEF IInv, OneTransport, Range
  <2> QED BY <2>1, <2>2
<1>6. /\ \A p \in Range(pending) : p.id <= made /\ p.id # e.id /\ p.id \in Nat
      /\ \A p \in Range(inbox) : p.id <= made /\ p.id # e.id /\ p.id \in Nat
      /\ \A r \in Range(outbox) : r.of <= made /\ r.of # e.id /\ r.of \in Nat
      /\ \A p, q \in Range(pending) : p.id = q.id => p = q
      /\ leaked \subseteq 1..made /\ shared \subseteq 1..made /\ e.id \notin leaked /\ e.id \notin shared
  <2>1. /\ \A p \in Range(pending) : p.id <= made /\ p.id \in Nat
        /\ \A p \in Range(inbox) : p.id <= made /\ p.id \in Nat
        /\ \A r \in Range(outbox) : r.of <= made /\ r.of \in Nat
    BY ElementTypes DEF IInv, Once
  <2>2. \A p, q \in Range(pending) : p.id = q.id => p = q
    BY DEF IInv, Once, Ids, Range
  <2> QED BY <1>1, <1>T, <2>1, <2>2 DEF IInv, Once
<1>7. \A u \in Tasks \ {t} : task[u].req.id # e.id /\ task[u].req.id \in Nat /\ (Waiting(u) => task[u].req.id <= made)
  BY <1>1, <1>T, ElementTypes DEF IInv, TasksSettled, NoRequest
<1>8. /\ shared \subseteq shared' /\ shared' \subseteq 1..made'
      /\ same # {} => e.id \in shared' /\ \A p \in same : p.id \in shared'
      /\ \A x \in shared' : x \in shared \/ (same # {} /\ (x = e.id \/ \E p \in same : x = p.id))
  <2>1. \A p \in same : p.id \in 1..made
    BY <1>6, <1>S, <1>T, ElementTypes DEF IInv
  <2>2. e.id \in 1..made' /\ 1..made \subseteq 1..made'
    BY <1>0, <1>1, <1>T
  <2> QED BY Zenon, <1>0, <1>6, <2>1, <2>2
<1>9. same # {} => Used(e.seq)'
  <2>1. ASSUME NEW q \in same PROVE seq[h] < seq["root"] \/ seq[h] < seq["child"]
    BY <1>1, <1>S DEF IInv, NumbersUsed
  <2> QED BY <1>1, <1>3, <2>1 DEF Used, Handles
<1>10. ~Used(e.seq)
  BY <1>1, <1>T DEF Used, Handles
<1>11. TasksSettled'
  BY <1>0, <1>1, <1>2, <1>7, <1>T DEF IInv, TasksSettled
<1>12. OneTransport'
  BY <1>0 DEF IInv, OneTransport
<1>13. HttpSorted'
  <2>1. CASE transport = "ws"
    BY <1>0, <2>1 DEF IInv, HttpSorted, OneTransport, HttpInOrder
  <2>2. CASE transport # "ws"
    <3>1. /\ DOMAIN queue' = DOMAIN queue \cup {Len(queue) + 1} /\ queue'[Len(queue) + 1] = e
          /\ \A i \in DOMAIN queue : queue'[i] = queue[i] /\ i < Len(queue) + 1 /\ i \in Nat
          /\ Len(queue) \in Nat
      <4>1. /\ DOMAIN Append(queue, e) = DOMAIN queue \cup {Len(queue) + 1}
            /\ Append(queue, e)[Len(queue) + 1] = e
            /\ \A i \in DOMAIN queue : Append(queue, e)[i] = queue[i]
            /\ Len(queue) \in Nat /\ \A i \in DOMAIN queue : i \in Nat /\ i < Len(queue) + 1
        BY <1>T, AppendFacts
      <4> QED BY <1>0, <2>2, <4>1
    <3>2. /\ \A i \in DOMAIN queue : queue[i].id \in Nat /\ queue[i].id <= made
          /\ \A k \in DOMAIN served : served[k] \in Nat /\ served[k] <= made
          /\ posting # NoRequest => posting.id \in Nat /\ posting.id <= made
      BY <1>T, <2>2, ElementTypes DEF IInv, HttpSorted
    <3>3. HttpInOrder'
      BY <1>0 DEF IInv, HttpSorted, HttpInOrder
    <3>4. \A i \in DOMAIN queue' : queue'[i].id <= made'
      BY <1>0, <1>1, <1>T, <3>1, <3>2
    <3>5. \A i, j \in DOMAIN queue' : i < j => queue'[i].id < queue'[j].id
      BY <1>1, <1>T, <3>1, <3>2 DEF IInv, HttpSorted
    <3>6. posting' # NoRequest => /\ posting'.id <= made'
                                  /\ \A i \in DOMAIN queue' : posting'.id < queue'[i].id
      BY <1>0, <1>1, <1>T, <3>1, <3>2 DEF IInv, HttpSorted
    <3>7. \A k \in DOMAIN served' :
             /\ served'[k] <= made' /\ (posting' # NoRequest => served'[k] < posting'.id)
             /\ \A i \in DOMAIN queue' : served'[k] < queue'[i].id
      BY <1>0, <1>1, <1>T, <2>2, <3>1, <3>2 DEF IInv, HttpSorted
    <3> QED BY <3>3, <3>4, <3>5, <3>6, <3>7 DEF HttpSorted
  <2> QED BY <2>1, <2>2
<1>14. DropsInTurn'
  <2>1. \A u \in Tasks : /\ task'[u].st = "dropping" <=> task[u].st = "dropping"
                         /\ task'[u].st = "gone" <=> task[u].st = "gone"
    BY <1>0, <1>2
  <2> QED BY <1>0, <2>1, DropsKept DEF IInv
<1>15. Once'
  <2>1. Ids(pending')
    <3>1. CASE transport = "ws"
      <4>1. Ids(Append(pending, e))
        BY <1>6, <1>T, AppendIds DEF IInv, Once
      <4> QED BY Zenon, <1>0, <3>1, <4>1
    <3>2. CASE transport # "ws"
      BY <1>0, <3>2 DEF IInv, Once
    <3> QED BY <3>1, <3>2
  <2>2. /\ Ids(inbox') /\ \A i, j \in DOMAIN outbox' : outbox'[i].of = outbox'[j].of => i = j
        /\ \A r \in Range(outbox') : \A p \in Range(inbox') : p.id # r.of
    BY <1>0 DEF IInv, Once
  <2>3. /\ \A p \in Range(pending') \cup Range(inbox') : p.id <= made'
        /\ \A r \in Range(outbox') : r.of <= made'
    <3>1. made' = made + 1 /\ made \in Nat /\ e.id = made + 1
      BY <1>0, <1>1, <1>T
    <3>2. \A x \in Nat : x <= made => x <= made'
      BY <3>1
    <3>3. \A p \in Range(pending') : p.id <= made'
      BY <1>5, <1>6, <3>1, <3>2
    <3>4. inbox' = inbox /\ outbox' = outbox
      BY <1>0
    <3> QED BY <1>6, <3>2, <3>3, <3>4
  <2>4. \A u \in Tasks : task'[u].st = "queued" =>
          /\ \A p \in Range(inbox') : p.id # task'[u].req.id
          /\ \A r \in Range(outbox') : r.of # task'[u].req.id
    BY <1>0, <1>2, <1>6 DEF IInv, Once
  <2>5. \A u, v \in Tasks : Waiting(u)' /\ Waiting(v)' /\ task'[u].req.id = task'[v].req.id => u = v
    BY <1>2, <1>7 DEF IInv, Once
  <2>6. leaked' \subseteq 1..made' /\ \A u \in Tasks : task'[u].req.id \notin leaked'
    BY <1>0, <1>2, <1>6, <1>T DEF IInv, Once
  <2> QED BY <1>8, <2>1, <2>2, <2>3, <2>4, <2>5, <2>6 DEF Once
<1>16. PendingOfTasks'
  <2>1. ASSUME transport = "ws", NEW p \in Range(pending)
        PROVE  p.id \in leaked \/ (p.task \in Tasks \ {t} /\ Waiting(p.task) /\ task[p.task].req = p /\ task[p.task].got = NoAnswer)
    <3>1. p.task \in Tasks
      BY ElementTypes DEF IInv
    <3> QED BY <1>2, <2>1, <3>1 DEF IInv, PendingOfTasks
  <2> QED BY <1>0, <1>1, <1>2, <1>5, <2>1 DEF IInv, PendingOfTasks
<1>17. NumbersUsed'
  <2>1. \A p \in Range(pending') : p.seq < seq'["root"] \/ p.seq < seq'["child"]
    <3>1. \A p \in Range(pending) : p.seq \in Nat
      BY ElementTypes DEF IInv
    <3>2. e.seq < seq'["root"] \/ e.seq < seq'["child"]
      BY <1>1, <1>3, <1>T DEF Handles
    <3> QED BY <1>3, <1>5, <3>1, <3>2 DEF IInv, NumbersUsed, Handles
  <2>2. ASSUME NEW p \in Range(pending'), p.id \in shared' PROVE Used(p.seq)'
    <3>1. CASE p = e
      BY Zenon, <1>6, <1>8, <1>9, <2>2, <3>1
    <3>2. CASE p # e /\ p.id \in shared
      <4>1. p \in Range(pending) /\ p.seq \in Nat
        BY <1>5, <3>2, ElementTypes DEF IInv
      <4> QED BY <1>3, <3>2, <4>1 DEF IInv, NumbersUsed, Used, Handles
    <3>3. CASE p # e /\ p.id \notin shared
      <4>1. p \in Range(pending) /\ \E q \in same : p.id = q.id
        BY <1>5, <1>6, <1>8, <2>2, <3>3
      <4>2. p \in same
        BY <1>6, <1>S, <4>1
      <4>3. p.seq = e.seq /\ same # {}
        BY <1>S, <4>2
      <4> QED BY <1>9, <4>3
    <3> QED BY <3>1, <3>2, <3>3
  <2>3. \A p, q \in Range(pending') : p # q /\ p.seq = q.seq => p.id \in shared'
    <3>1. \A p \in Range(pending) : p.seq = e.seq => p \in same
      BY <1>S
    <3> QED BY Zenon, <1>5, <1>8, <3>1 DEF IInv, NumbersUsed
  <2>4. \A u \in Tasks : Waiting(u)' /\ task'[u].req.kind = "connect" =>
          /\ seq'["child"] = 0
          /\ \A v \in Tasks : Waiting(v)' /\ task'[v].req.kind = "connect" => v = u
    <3>1. CASE kind = "connect"
      <4>1. seq'["child"] = 0 /\ \A u \in Tasks \ {t} : Waiting(u)' => task'[u].req.kind # "connect"
        BY <1>0, <1>2, <1>3, <3>1 DEF Handles
      <4> QED BY <4>1
    <3>2. CASE kind # "connect"
      <4>1. task'[t].req.kind # "connect"
        BY <1>1, <1>2, <3>2
      <4>2. (\E u \in Tasks : Waiting(u) /\ task[u].req.kind = "connect") => seq'["child"] = 0
        BY <1>0, <1>3, <1>T DEF IInv, NumbersUsed, Handles
      <4> QED BY <1>2, <4>1, <4>2 DEF IInv, NumbersUsed
    <3> QED BY <3>1, <3>2
  <2> QED BY <2>1, <2>2, <2>3, <2>4 DEF NumbersUsed
<1>18. FlightsCovered'
  <2>1. ASSUME NEW i, NEW s \in Nat, Covered(i, s) PROVE Covered(i, s)'
    BY <1>3, <1>5, <1>8, <1>10, <2>1, CoveredKept
  <2>2. /\ \A p \in Range(inbox) : p.seq \in Nat /\ Covered(p.id, p.seq)
        /\ \A r \in Range(outbox) : r.seq \in Nat /\ Covered(r.of, r.seq)
    BY ElementTypes DEF IInv, FlightsCovered
  <2>3. \A u \in Tasks : task[u].st = "queued" => task[u].req.seq \in Nat
    BY DEF IInv, TasksSettled, Waiting, Requests
  <2>4. transport = "ws" => Covered(e.id, e.seq)'
    BY <1>5 DEF Covered
  <2>5. ASSUME transport' = "ws", NEW u \in Tasks, task'[u].st = "queued"
        PROVE  Covered(task[u].req.id, task[u].req.seq)'
    <3>1. CASE u = t
      BY <1>0, <1>2, <2>4, <2>5, <3>1 DEF Covered, Used
    <3>2. CASE u # t
      <4>1. PICK i, s : i = task[u].req.id /\ s = task[u].req.seq
        OBVIOUS
      <4>2. task'[u] = task[u] /\ Covered(i, s) /\ s \in Nat
        BY <1>0, <1>2, <2>3, <2>5, <3>2, <4>1 DEF IInv, FlightsCovered
      <4>3. Covered(i, s)' /\ i = task'[u].req.id /\ s = task'[u].req.seq
        BY <2>1, <4>1, <4>2
      <4> QED BY <4>3 DEF Covered, Used
    <3> QED BY <3>1, <3>2
  <2>6. /\ \A p \in Range(inbox') : Covered(p.id, p.seq)'
        /\ \A r \in Range(outbox') : Covered(r.of, r.seq)'
    BY <1>0, <2>1, <2>2
  <2> QED BY <2>5, <2>6 DEF FlightsCovered
<1>19. AnswersTrue'
  <2>1. Accounted \subseteq Accounted'
    BY <1>0, <1>8 DEF Accounted
  <2>2. /\ \A p \in Range(inbox'), q \in Range(pending') : p.id = q.id => p = q
        /\ \A r \in Range(outbox'), q \in Range(pending') :
              r.of = q.id /\ q.kind = "save" => r.of \in Accounted'
    BY <1>0, <1>5, <1>6, <2>1 DEF IInv, AnswersTrue
  <2>3. \A u \in Tasks, q \in Range(pending') : task'[u].req.id = q.id => task'[u].req = q
    BY <1>2, <1>5, <1>6, <1>7 DEF IInv, AnswersTrue
  <2>4. \A u \in Tasks : task'[u].got.ok =>
           Waiting(u)' /\ (task'[u].req.kind = "save" => task'[u].req.id \in Accounted')
    BY <1>2, <2>1 DEF IInv, AnswersTrue
  <2> QED BY <2>2, <2>3, <2>4 DEF AnswersTrue
<1>20. OwnAnswer' /\ SavedAccounted'
  BY <1>0, <1>2, <1>8 DEF IInv, OwnAnswer, SavedAccounted
<1> QED BY <1>4, <1>11, <1>12, <1>13, <1>14, <1>15, <1>16, <1>17, <1>18, <1>19, <1>20 DEF IInv

\* The frame is written, or the HTTP worker is notified: the request was not in
\* flight before.
LEMMA SendStep ==
    ASSUME IInv, NEW t \in Tasks, WsSend(t) \/ HttpNotify(t)
    PROVE  IInv'
<1>T. /\ task \in [Tasks -> TaskRecords] /\ inbox \in Seq(Requests) /\ transport \in {"ws", "http"}
  BY DEF IInv, TypeOK
<1>1. PICK e : e = task[t].req
  OBVIOUS
<1>0. /\ task[t].st = "queued" /\ task' = [task EXCEPT ![t].st = "sent"]
      /\ inbox' = inbox \/ (inbox' = Append(inbox, e) /\ transport = "ws")
      /\ UNCHANGED <<transport, seq, pending, outbox, queue, posting, served, stored, turned,
                     fired, made, saved, shared, leaked, overlap>>
  BY <1>1 DEF WsSend, HttpNotify, netVars, nodeVars, logVars, httpVars
<1>2. /\ task'[t].st = "sent" /\ task'[t].req = task[t].req /\ task'[t].got = task[t].got
      /\ \A u \in Tasks \ {t} : task'[u] = task[u]
      /\ Waiting(t) /\ \A u \in Tasks : Waiting(u)' <=> Waiting(u)
      /\ \A u \in Tasks : task'[u].req = task[u].req /\ task'[u].got = task[u].got
  BY <1>0, <1>T DEF Waiting, TaskRecords
<1>3. e \in Requests /\ e.id <= made
  BY <1>1, <1>2 DEF IInv, TasksSettled
<1>4. TypeOK'
  <2>1. Append(inbox, e) \in Seq(Requests)
    BY <1>3, <1>T
  <2>2. task' \in [Tasks -> TaskRecords]
    BY <1>0, <1>T DEF TaskRecords
  <2> QED BY Zenon, <1>0, <1>T, <2>1, <2>2 DEF IInv, TypeOK
<1>5. Range(inbox') \subseteq Range(inbox) \cup {e} /\ (transport # "ws" => inbox' = inbox)
  <2>1. Range(Append(inbox, e)) = Range(inbox) \cup {e}
    BY <1>3, <1>T, AppendFacts
  <2> QED BY Zenon, <1>0, <2>1
<1>6. TasksSettled'
  BY <1>0, <1>2 DEF IInv, TasksSettled
<1>7. OneTransport'
  BY <1>0, <1>5 DEF IInv, OneTransport
<1>8. HttpSorted'
  BY <1>0 DEF IInv, HttpSorted, HttpInOrder
<1>9. DropsInTurn'
  <2>1. \A u \in Tasks : /\ task'[u].st = "dropping" <=> task[u].st = "dropping"
                         /\ task'[u].st = "gone" <=> task[u].st = "gone"
    BY <1>0, <1>2
  <2> QED BY <1>0, <2>1, DropsKept DEF IInv
<1>10. Once'
  <2>1. Ids(inbox')
    <3>1. \A p \in Range(inbox) : p.id # e.id
      BY <1>0, <1>1 DEF IInv, Once
    <3>2. Ids(Append(inbox, e))
      BY <1>3, <1>T, <3>1, AppendIds DEF IInv, Once
    <3> QED BY Zenon, <1>0, <3>2 DEF IInv, Once
  <2>2. \A r \in Range(outbox) : r.of # e.id
    BY <1>0, <1>1 DEF IInv, Once
  <2>3. \A u \in Tasks : task'[u].st = "queued" => u # t /\ task[u].st = "queued" /\ task[u].req.id # e.id
    BY <1>0, <1>1, <1>2 DEF IInv, Once, Waiting
  <2>4. /\ \A p \in Range(pending') \cup Range(inbox') : p.id <= made'
        /\ \A r \in Range(outbox') : r.of <= made' /\ \A p \in Range(inbox') : p.id # r.of
    BY <1>0, <1>3, <1>5, <2>2 DEF IInv, Once
  <2>5. \A u \in Tasks : task'[u].st = "queued" =>
          /\ \A p \in Range(inbox') : p.id # task'[u].req.id
          /\ \A r \in Range(outbox') : r.of # task'[u].req.id
    BY <1>0, <1>2, <1>5, <2>3 DEF IInv, Once
  <2>6. /\ Ids(pending') /\ \A i, j \in DOMAIN outbox' : outbox'[i].of = outbox'[j].of => i = j
        /\ leaked' \subseteq 1..made' /\ shared' \subseteq 1..made'
    BY <1>0 DEF IInv, Once
  <2>7. /\ \A u, v \in Tasks : Waiting(u)' /\ Waiting(v)' /\ task'[u].req.id = task'[v].req.id => u = v
        /\ \A u \in Tasks : task'[u].req.id \notin leaked'
    BY <1>0, <1>2 DEF IInv, Once
  <2> QED BY <2>1, <2>4, <2>5, <2>6, <2>7 DEF Once
<1>11. PendingOfTasks'
  <2>1. \A p \in Range(pending) : p.task \in Tasks
    BY ElementTypes DEF IInv
  <2> QED BY <1>0, <1>2, <2>1 DEF IInv, PendingOfTasks
<1>12. NumbersUsed'
  BY <1>0, <1>2 DEF IInv, NumbersUsed, Used
<1>13. FlightsCovered'
  <2>1. \A i, s : Covered(i, s)' <=> Covered(i, s)
    BY <1>0 DEF Covered, Used
  <2>2. transport = "ws" => Covered(e.id, e.seq)
    BY <1>0, <1>1 DEF IInv, FlightsCovered
  <2>3. \A p \in Range(inbox') : Covered(p.id, p.seq)
    BY <1>0, <1>5, <2>2 DEF IInv, FlightsCovered
  <2>4. transport = "ws" => \A u \in Tasks : task'[u].st = "queued" => Covered(task[u].req.id, task[u].req.seq)
    BY <1>0, <1>2 DEF IInv, FlightsCovered
  <2>5. \A r \in Range(outbox) : Covered(r.of, r.seq)
    BY DEF IInv, FlightsCovered
  <2>6. \A u \in Tasks : Covered(task[u].req.id, task[u].req.seq) => Covered(task[u].req.id, task[u].req.seq)'
    BY <1>0, <1>2 DEF Covered, Used
  <2> QED BY <1>0, <2>1, <2>3, <2>4, <2>5, <2>6 DEF FlightsCovered
<1>14. AnswersTrue'
  <2>1. \A p \in Range(pending) : e.id = p.id => e = p
    BY <1>1 DEF IInv, AnswersTrue
  <2> QED BY <1>0, <1>2, <1>5, <2>1 DEF IInv, AnswersTrue, Accounted
<1>15. OwnAnswer' /\ SavedAccounted'
  BY <1>0, <1>2 DEF IInv, OwnAnswer, SavedAccounted
<1> QED BY <1>4, <1>6, <1>7, <1>8, <1>9, <1>10, <1>11, <1>12, <1>13, <1>14, <1>15 DEF IInv

\* A task comes to rest: its call returned, its send failed, or it drops its clone.
\* An entry it leaves in the pending list is recorded as leaked.
LEMMA RestStep ==
    ASSUME IInv, NEW t \in Tasks, task' \in [Tasks -> TaskRecords],
           \A u \in Tasks \ {t} : task'[u] = task[u],
           task'[t].req = NoRequest, task'[t].got = NoAnswer, task'[t].st \notin {"queued", "sent"},
           leaked' = leaked \/ (Waiting(t) /\ leaked' = leaked \cup {task[t].req.id}),
           Waiting(t) => task[t].got # NoAnswer \/ task[t].req.id \in leaked',
           seq' \in [Handles -> Nat], \A h \in Handles : seq[h] <= seq'[h],
           seq' = seq \/ (Waiting(t) /\ task[t].req.kind = "connect"),
           DropsInTurn', SavedAccounted', fired' \in {0, 1},
           UNCHANGED <<transport, pending, inbox, outbox, queue, posting, made, served, stored,
                       turned, shared>>
    PROVE  IInv'
<1>T. seq \in [Handles -> Nat] /\ made \in Nat
  BY DEF IInv, TypeOK
<1>0. ~NoAnswer.ok /\ NoRequest.id = 0
  BY DEF NoAnswer, NoRequest
<1>1. ~Waiting(t)' /\ \A u \in Tasks \ {t} : Waiting(u)' <=> Waiting(u)
  BY DEF Waiting
<1>2. TypeOK'
  BY DEF IInv, TypeOK
<1>3. TasksSettled'
  BY <1>1 DEF IInv, TasksSettled
<1>4. OneTransport' /\ HttpSorted'
  BY DEF IInv, OneTransport, HttpSorted, HttpInOrder
<1>5. leaked' \subseteq 1..made /\ \A u \in Tasks : task'[u].req.id \notin leaked'
  <2>1. leaked \subseteq 1..made /\ \A u \in Tasks : task[u].req.id \notin leaked
    BY DEF IInv, Once
  <2>2. Waiting(t) => task[t].req.id \in 1..made
    BY <1>T, ElementTypes DEF IInv, TasksSettled, Requests
  <2>3. ASSUME Waiting(t), NEW u \in Tasks \ {t} PROVE task[u].req.id # task[t].req.id
    <3>1. CASE Waiting(u)
      BY <2>3, <3>1 DEF IInv, Once
    <3>2. CASE ~Waiting(u)
      BY <1>0, <1>T, <2>2, <2>3, <3>2 DEF IInv, TasksSettled
    <3> QED BY <3>1, <3>2
  <2>4. 0 \notin 1..made
    BY <1>T
  <2> QED BY ZenonT(30), <1>0, <2>1, <2>2, <2>3, <2>4
<1>6. Once'
  <2>1. \A u \in Tasks : task'[u].st = "queued" =>
          /\ \A p \in Range(inbox) : p.id # task'[u].req.id
          /\ \A r \in Range(outbox) : r.of # task'[u].req.id
    BY DEF IInv, Once
  <2>2. \A u, v \in Tasks : Waiting(u)' /\ Waiting(v)' /\ task'[u].req.id = task'[v].req.id => u = v
    BY <1>1 DEF IInv, Once
  <2> QED BY ZenonT(30), <1>5, <2>1, <2>2 DEF IInv, Once
<1>7. PendingOfTasks'
  <2>1. \A p \in Range(pending) : p.task \in Tasks
    BY ElementTypes DEF IInv
  <2>2. leaked \subseteq leaked'
    BY Zenon
  <2> QED BY <1>1, <2>1, <2>2 DEF IInv, PendingOfTasks
<1>8. \A s \in Nat : Used(s) => Used(s)'
  <2>1. /\ {seq["root"], seq["child"], seq'["root"], seq'["child"]} \subseteq Nat
        /\ seq["root"] <= seq'["root"] /\ seq["child"] <= seq'["child"]
    BY ZenonT(30), <1>T DEF Handles
  <2> QED BY Zenon, <2>1, LessIsKept DEF Used
<1>9. NumbersUsed'
  <2>1. \A p \in Range(pending) : p.seq \in Nat
    BY ElementTypes DEF IInv
  <2>2. \A p \in Range(pending) : p.seq < seq'["root"] \/ p.seq < seq'["child"]
    BY <1>T, <2>1 DEF IInv, NumbersUsed, Handles
  <2>3. \A u \in Tasks : Waiting(u)' /\ task'[u].req.kind = "connect" =>
          /\ seq'["child"] = 0
          /\ \A v \in Tasks : Waiting(v)' /\ task'[v].req.kind = "connect" => v = u
    BY <1>1 DEF IInv, NumbersUsed
  <2> QED BY <1>8, <2>1, <2>2, <2>3 DEF IInv, NumbersUsed
<1>10. FlightsCovered'
  <2>1. ASSUME NEW i, NEW s \in Nat, Covered(i, s) PROVE Covered(i, s)'
    BY <1>8, <2>1 DEF Covered
  <2>2. /\ \A p \in Range(inbox') : Covered(p.id, p.seq)'
        /\ \A r \in Range(outbox') : Covered(r.of, r.seq)'
    BY <2>1, ElementTypes DEF IInv, FlightsCovered
  <2>3. ASSUME transport' = "ws", NEW u \in Tasks, task'[u].st = "queued"
        PROVE  Covered(task[u].req.id, task[u].req.seq)'
    <3>1. PICK i, s : i = task[u].req.id /\ s = task[u].req.seq
      BY Zenon
    <3>2. u # t /\ task'[u] = task[u] /\ Covered(i, s)
      BY <2>3, <3>1 DEF IInv, FlightsCovered
    <3>3. s \in Nat
      BY <2>3, <3>1, <3>2 DEF IInv, TasksSettled, Waiting, Requests
    <3>4. Covered(i, s)' /\ i = task'[u].req.id /\ s = task'[u].req.seq
      BY <2>1, <3>1, <3>2, <3>3
    <3> QED BY <3>4 DEF Covered, Used
  <2> QED BY <2>2, <2>3 DEF FlightsCovered
<1>11. AnswersTrue'
  <2>1. \A p \in Range(pending) : p.id # 0
    BY ElementTypes DEF IInv
  <2> QED BY <1>0, <1>1, <2>1 DEF IInv, AnswersTrue, Accounted
<1>12. OwnAnswer'
  BY <1>0 DEF IInv, OwnAnswer
<1> QED BY <1>2, <1>3, <1>4, <1>6, <1>7, <1>9, <1>10, <1>11, <1>12 DEF IInv

LEMMA WsSendFailsStep ==
    ASSUME IInv, NEW t \in Tasks, WsSendFails(t)
    PROVE  IInv'
<1>0. /\ task[t].st = "queued" /\ task' = [task EXCEPT ![t] = AtRest]
      /\ leaked' = leaked \cup {task[t].req.id}
      /\ UNCHANGED <<transport, seq, pending, inbox, outbox, queue, posting, made, served, stored,
                     turned, shared, saved, fired, overlap>>
  BY DEF WsSendFails, netVars, httpVars, nodeVars
<1>T. task \in [Tasks -> TaskRecords] /\ seq \in [Handles -> Nat] /\ fired \in {0, 1}
  BY DEF IInv, TypeOK
<1>1. AtRest \in TaskRecords /\ AtRest.st = "idle" /\ AtRest.req = NoRequest /\ AtRest.got = NoAnswer
  BY DEF AtRest, TaskRecords, NoAnswer
<1>2. /\ task' \in [Tasks -> TaskRecords] /\ task'[t] = AtRest
      /\ \A u \in Tasks \ {t} : task'[u] = task[u]
  BY <1>0, <1>1, <1>T
<1>3. Waiting(t) /\ \A h \in Handles : seq[h] <= seq'[h]
  BY <1>0, <1>T DEF Waiting
<1>4. DropsInTurn'
  <2>1. \A u \in Tasks : /\ task'[u].st = "dropping" <=> task[u].st = "dropping"
                         /\ task'[u].st = "gone" <=> task[u].st = "gone"
    BY <1>0, <1>1, <1>2
  <2> QED BY <1>0, <2>1, DropsKept DEF IInv
<1>5. SavedAccounted'
  BY <1>0 DEF IInv, SavedAccounted
<1> QED BY <1>0, <1>1, <1>2, <1>3, <1>4, <1>5, <1>T, RestStep

\* A save that returns Ok was accounted for; a handle opened by another_tenant starts
\* at a number of its own.
LEMMA ReturnCallStep ==
    ASSUME IInv, NEW t \in Tasks, ReturnCall(t)
    PROVE  IInv'
<1>0. /\ task[t].st = "sent" /\ task[t].got # NoAnswer /\ task' = [task EXCEPT ![t] = AtRest]
      /\ saved' = saved \cup {x \in {task[t].req.id} : task[t].got.ok /\ task[t].req.kind = "save"}
      /\ seq' = IF task[t].got.ok /\ task[t].req.kind = "connect"
                THEN [seq EXCEPT !["child"] = task[t].req.seq + 1] ELSE seq
      /\ UNCHANGED <<transport, pending, inbox, outbox, queue, posting, made, served, stored,
                     turned, shared, leaked, fired, overlap>>
  BY DEF ReturnCall, netVars, httpVars, nodeVars
<1>T. task \in [Tasks -> TaskRecords] /\ seq \in [Handles -> Nat] /\ fired \in {0, 1}
  BY DEF IInv, TypeOK
<1>1. AtRest \in TaskRecords /\ AtRest.st = "idle" /\ AtRest.req = NoRequest /\ AtRest.got = NoAnswer
  BY DEF AtRest, TaskRecords, NoAnswer
<1>2. /\ task' \in [Tasks -> TaskRecords] /\ task'[t] = AtRest
      /\ \A u \in Tasks \ {t} : task'[u] = task[u]
  BY <1>0, <1>1, <1>T
<1>3. Waiting(t) /\ task[t].req.seq \in Nat
  BY <1>0 DEF IInv, TasksSettled, Waiting, Requests
<1>4. /\ seq' \in [Handles -> Nat] /\ \A h \in Handles : seq[h] <= seq'[h]
      /\ seq' = seq \/ task[t].req.kind = "connect"
  <2>1. CASE task[t].got.ok /\ task[t].req.kind = "connect"
    <3>1. seq["child"] = 0
      BY <1>3, <2>1 DEF IInv, NumbersUsed
    <3>2. PICK n \in Nat : n = task[t].req.seq + 1
      BY <1>3
    <3>3. seq' = [seq EXCEPT !["child"] = n]
      BY <1>0, <2>1, <3>2
    <3>4. seq' \in [Handles -> Nat] /\ \A h \in Handles : seq[h] <= seq'[h]
      BY <1>T, <3>1, <3>2, <3>3 DEF Handles
    <3> QED BY <2>1, <3>4
  <2>2. CASE ~(task[t].got.ok /\ task[t].req.kind = "connect")
    BY <1>0, <1>T, <2>2
  <2> QED BY <2>1, <2>2
<1>5. DropsInTurn'
  <2>1. \A u \in Tasks : /\ task'[u].st = "dropping" <=> task[u].st = "dropping"
                         /\ task'[u].st = "gone" <=> task[u].st = "gone"
    BY <1>0, <1>1, <1>2
  <2> QED BY <1>0, <2>1, DropsKept DEF IInv
<1>6. SavedAccounted'
  BY <1>0 DEF IInv, SavedAccounted, AnswersTrue, Accounted
<1> QED BY <1>0, <1>1, <1>2, <1>3, <1>4, <1>5, <1>6, <1>T, RestStep

\* The hook runs when the only clone left is dropped, unless another one is still on
\* its way out.
LEMMA DropStep ==
    ASSUME IInv, NEW t \in Tasks, BeginDrop(t) \/ EndDrop(t)
    PROVE  IInv'
<1>T. task \in [Tasks -> TaskRecords] /\ seq \in [Handles -> Nat] /\ fired \in {0, 1}
  BY DEF IInv, TypeOK
<1>0. /\ task[t].st \in {"idle", "dropping"}
      /\ \E st \in {"dropping", "gone"} : task' = [task EXCEPT ![t].st = st]
      /\ UNCHANGED <<transport, seq, pending, inbox, outbox, queue, posting, made, served, stored,
                     turned, shared, leaked, saved>>
  BY DEF BeginDrop, EndDrop, netVars, httpVars, nodeVars, logVars
<1>1. ~Waiting(t) /\ task[t].req = NoRequest /\ task[t].got = NoAnswer
  BY <1>0 DEF IInv, TasksSettled, Waiting
<1>2. /\ task' \in [Tasks -> TaskRecords] /\ task'[t].req = NoRequest /\ task'[t].got = NoAnswer
      /\ task'[t].st \in {"dropping", "gone"}
      /\ \A u \in Tasks \ {t} : task'[u] = task[u]
  BY <1>0, <1>1, <1>T DEF TaskRecords
<1>3. SavedAccounted' /\ \A h \in Handles : seq[h] <= seq'[h]
  BY <1>0, <1>T DEF IInv, SavedAccounted
<1>4. CASE BeginDrop(t)
  <2>1. /\ task[t].st = "idle" /\ task'[t].st = "dropping"
        /\ fired' = IF Tasks \ Gone = {t} /\ fired = 0 THEN 1 ELSE fired
        /\ overlap' = (overlap \/ \E u \in Tasks : task[u].st = "dropping")
    BY <1>4, <1>T DEF BeginDrop
  <2>2. Gone' = Gone /\ t \notin Gone
    BY <1>2, <2>1 DEF Gone
  <2>3. Tasks \ Gone = {t} => fired' = 1
    BY <1>T, <2>1
  <2>4. ~overlap' => \A u \in Tasks : task'[u].st = "dropping" => u = t
    BY Zenon, <1>2, <2>1
  <2>5. DropsInTurn'
    BY <2>2, <2>3, <2>4 DEF DropsInTurn
  <2>6. fired' \in {0, 1}
    BY <1>T, <2>1
  <2> QED BY <1>0, <1>1, <1>2, <1>3, <1>T, <2>5, <2>6, RestStep
<1>5. CASE EndDrop(t)
  <2>1. /\ task[t].st = "dropping" /\ task'[t].st = "gone" /\ fired' = fired /\ overlap' = overlap
    BY <1>5, <1>T DEF EndDrop, logVars
  <2>2. Gone' = Gone \cup {t} /\ t \notin Gone
    BY <1>2, <2>1 DEF Gone
  <2>3. Gone' = Tasks => Tasks \ Gone = {t}
    BY <2>2 DEF Gone
  <2>4. ~overlap => \A u \in Tasks : task'[u].st # "dropping"
    BY <1>2, <2>1 DEF IInv, DropsInTurn
  <2>5. DropsInTurn'
    BY <2>1, <2>3, <2>4 DEF IInv, DropsInTurn
  <2> QED BY <1>0, <1>1, <1>2, <1>3, <1>T, <2>1, <2>5, RestStep
<1> QED BY <1>4, <1>5
=============================================================================
