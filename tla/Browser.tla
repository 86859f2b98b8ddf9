------------------------------ MODULE Browser -------------------------------
(***************************************************************************)
(* The browser client: JsDb sessions, one per tab, each over a WebSocket,  *)
(* and the IndexedDB store the tabs share.  A socket that is closing or    *)
(* closed discards what is sent and delivers nothing.  There is no close   *)
(* handler, so a call whose answer is lost waits for ever.                 *)
(*                                                                         *)
(* A call is identified by its kind and its number in the tab.  An answer  *)
(* carries the sequence number of the request it answers and, for the      *)
(* properties, that request.                                               *)
(***************************************************************************)
EXTENDS Integers, Sequences, FiniteSets

CONSTANTS Tabs,
          Owners,      \* owner URLs a node may announce
          NoOwner,     \* nothing is cached
          Calls,       \* kinds of call: write, search_unique, query_non_unique, delete
          MaxCalls,    \* calls of one tab
          Digit,       \* base of the bytes of an object key
          KeyLen,      \* bytes of an object key
          TenantLen,   \* leading bytes that hold the tenant
          MaxPuts      \* bound on the objects stored

ASSUME BrowserAssumption == /\ Digit \in Nat \ {0, 1} /\ KeyLen \in Nat \ {0}
                            /\ TenantLen \in 1..KeyLen

ObjectIds == 0..(Digit^KeyLen - 1)

VARIABLES
    tabs,      \* tabs[b]: the session of a tab and its socket
    cached,    \* the value under OWNER_URL_KEY
    objects,   \* ids of the stored objects
    puts       \* objects stored so far

browserVars == <<tabs, cached, objects, puts>>

\* st: idle, opening, handshake, saving, ready.  wire: requests the node has not
\* answered.  inbox: answers not delivered.  done: what calls resolved with.
FreshTab == [st |-> "idle", socket |-> "none", seq |-> 0, owner |-> NoOwner, pending |-> {},
             wire |-> {}, inbox |-> {}, done |-> {}, calls |-> 0]

BrowserInit ==
    /\ tabs = [b \in Tabs |-> FreshTab]
    /\ cached = NoOwner
    /\ objects = {} /\ puts = 0

Request(n, kind, call) == [seq |-> n, kind |-> kind, call |-> call]

\* WebSocket send: a socket that is not open discards the bytes.
Sent(tab, q) == IF tab.socket = "open" THEN tab.wire \cup {q} ELSE tab.wire

connect(b) ==
    /\ tabs[b].st = "idle"
    /\ tabs' = [tabs EXCEPT ![b].st = "opening"]
    /\ UNCHANGED <<cached, objects, puts>>

OpenFails(b) ==
    /\ tabs[b].st = "opening"
    /\ tabs' = [tabs EXCEPT ![b].st = "idle"]
    /\ UNCHANGED <<cached, objects, puts>>

\* onopen: the message handler is installed before Connect is sent as request 0.
Opened(b) ==
    /\ tabs[b].st = "opening"
    /\ tabs' = [tabs EXCEPT ![b].st = "handshake", ![b].socket = "open", ![b].pending = {0},
                            ![b].wire = {Request(0, "connect", 0)}]
    /\ UNCHANGED <<cached, objects, puts>>

NodeAnswers(b, q, owner) ==
    /\ q \in tabs[b].wire
    /\ tabs' = [tabs EXCEPT ![b].wire = @ \ {q},
                            ![b].inbox = @ \cup {[seq |-> q.seq, of |-> q, owner |-> owner]}]
    /\ UNCHANGED <<cached, objects, puts>>

\* onmessage; an answer nobody waits for is dropped.
onmessage(b, a) ==
    LET tab == tabs[b]
        rest == [tab EXCEPT !.inbox = @ \ {a}, !.pending = @ \ {a.seq}]
    IN  /\ a \in tab.inbox /\ tab.socket = "open"
        /\ tabs' = [tabs EXCEPT ![b] =
                        IF a.seq \notin tab.pending THEN rest
                        ELSE IF tab.st = "handshake"
                        THEN [rest EXCEPT !.st = "saving", !.owner = a.owner]
                        ELSE [rest EXCEPT !.done = @ \cup {<<a.seq, a.of>>}]]
        /\ UNCHANGED <<cached, objects, puts>>

\* The owner is stored under one key for all tabs; a store that cannot be opened
\* or written is ignored.
save_owner(b, works) ==
    /\ tabs[b].st = "saving"
    /\ tabs' = [tabs EXCEPT ![b].st = "ready", ![b].seq = 1]
    /\ cached' = IF works THEN tabs[b].owner ELSE cached
    /\ UNCHANGED <<objects, puts>>

send_raw(b, kind) ==
    LET tab == tabs[b]
        q == Request(tab.seq, kind, tab.calls + 1)
    IN  /\ tab.st = "ready" /\ tab.calls < MaxCalls
        /\ tabs' = [tabs EXCEPT ![b] =
                        [tab EXCEPT !.seq = @ + 1, !.calls = @ + 1, !.pending = @ \cup {tab.seq},
                                    !.wire = Sent(tab, q)]]
        /\ UNCHANGED <<cached, objects, puts>>

MutDisconnect(b) ==
    LET tab == tabs[b]
    IN  /\ tab.st = "ready" /\ tab.socket = "open" /\ \A q \in tab.wire : q.kind # "disconnect"
        /\ tabs' = [tabs EXCEPT ![b].wire = Sent(tab, Request(tab.seq, "disconnect", 0))]
        /\ UNCHANGED <<cached, objects, puts>>

\* disconnect sends a request with the next sequence number, which it does not use
\* up, and closes the socket.  What is on the way is no longer delivered.
disconnect(b) ==
    LET tab == tabs[b]
    IN  /\ tab.st = "ready" /\ tab.socket = "open"
        /\ tabs' = [tabs EXCEPT ![b] =
                        [tab EXCEPT !.socket = "closing", !.wire = {}, !.inbox = {}]]
        /\ UNCHANGED <<cached, objects, puts>>

SocketLost(b) ==
    /\ tabs[b].socket \in {"open", "closing"}
    /\ tabs' = [tabs EXCEPT ![b].socket = "closed", ![b].wire = {}, ![b].inbox = {}]
    /\ UNCHANGED <<cached, objects, puts>>

\* A page that is loaded again starts with the cached owner only.
Reload(b) ==
    /\ tabs[b].st # "idle"
    /\ tabs' = [tabs EXCEPT ![b] = FreshTab]
    /\ UNCHANGED <<cached, objects, puts>>

-----------------------------------------------------------------------------
(* IdbStore objects.                                                       *)

\* object_key: the bytes of an id, the most significant one first.
object_key(i) == [n \in 1..KeyLen |-> (i \div Digit^(KeyLen - n)) % Digit]

\* Binary keys of IndexedDB are ordered byte by byte.
KeyLe(k, l) == k = l \/ \E n \in 1..KeyLen : k[n] < l[n] /\ \A m \in 1..(n - 1) : k[m] = l[m]

put_object(i) ==
    /\ puts < MaxPuts /\ puts' = puts + 1
    /\ objects' = objects \cup {i}
    /\ UNCHANGED <<tabs, cached>>

delete_object(i) ==
    /\ i \in objects
    /\ objects' = objects \ {i}
    /\ UNCHANGED <<tabs, cached, puts>>

get_objects_in_range(lo, hi) ==
    {i \in objects : KeyLe(object_key(lo), object_key(i)) /\ KeyLe(object_key(i), object_key(hi))}

\* The tenant shifted to the top, and that with every lower bit set.
get_tenant_objects(tenant) ==
    LET span == Digit^(KeyLen - TenantLen)
        lo == tenant * span
    IN  get_objects_in_range(lo, lo + (span - 1))

BrowserNext ==
    \/ \E b \in Tabs :
        \/ connect(b) \/ OpenFails(b) \/ Opened(b)
        \/ \E q \in tabs[b].wire :
               \E owner \in IF q.kind = "connect" THEN Owners ELSE {NoOwner} : NodeAnswers(b, q, owner)
        \/ \E a \in tabs[b].inbox : onmessage(b, a)
        \/ \E works \in BOOLEAN : save_owner(b, works)
        \/ \E kind \in Calls : send_raw(b, kind)
        \/ disconnect(b) \/ SocketLost(b) \/ Reload(b)
    \/ /\ \A b \in Tabs : tabs[b].st = "idle"  \* sessions do not touch the objects
       /\ \E i \in ObjectIds : put_object(i) \/ delete_object(i)

BrowserSpec == BrowserInit /\ [][BrowserNext]_browserVars

-----------------------------------------------------------------------------

\* A call resolves with the answer to the very request it sent, also when calls
\* overlap and when the handle is used after disconnect, which reuses a sequence
\* number (send_raw, onmessage, disconnect).
BrowserOwnAnswer ==
    \A b \in Tabs : \A d \in tabs[b].done :
        /\ d[2].kind \in Calls /\ d[2].call = d[1]
        /\ \A e \in tabs[b].done : e[1] = d[1] => e = d

\* The objects read for a tenant are exactly those whose id belongs to it: the
\* range scan over binary keys agrees with the numeric order of ids, and its bounds
\* take in neither neighbour (object_key, get_tenant_objects).
TenantExact ==
    \A tenant \in 0..(Digit^TenantLen - 1) :
        get_tenant_objects(tenant) = {i \in objects : i \div Digit^(KeyLen - TenantLen) = tenant}

\* The browser client: calls get their own answers, and a tenant's objects are all
\* found and nobody else's.
BrowserSound == BrowserOwnAnswer /\ TenantExact

=============================================================================
