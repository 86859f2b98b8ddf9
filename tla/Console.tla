------------------------------ MODULE Console ------------------------------
(***************************************************************************)
(* The data explorer of the graphical monitor (wavedb-monitor-gui), and    *)
(* the Slow-Nodes it explores.  The GUI thread draws frames and sends      *)
(* commands.  A worker thread takes them and asks a Slow-Node for its      *)
(* tenants and records.  Both share one locked state.  The counters the    *)
(* worker polls in between are the subject of Polling.  The poll period    *)
(* is arbitrary, so the command that changes it is left out.               *)
(***************************************************************************)
EXTENDS Integers, Sequences, FiniteSets, FiniteSetsExt

CONSTANTS Slow,         \* Slow-Nodes, numbers from 0: a command names one by index
          Records,      \* records that are flushed: a tenant and a serial number each
          BrowseMax,    \* BROWSE_MAX_RECORDS
          ClusterKey,   \* the nodes' key, or NoKey
          Keys,         \* keys a user may type
          NoKey, Nothing,    \* the absent key, the absent value
          Window, Skews,     \* WINDOW_SECS; clock differences that occur
          MaxClicks, MaxFailures, MaxFlushes

NoTenant == 0 - 1

ASSUME ConsoleAssumption ==
    /\ Slow \subseteq Nat /\ 0 \in Slow /\ Records \subseteq Nat \X Nat
    /\ BrowseMax \in Nat \ {0} /\ NoKey \notin Keys /\ ClusterKey \in Keys \cup {NoKey}

VARIABLES
    up,        \* Slow-Nodes that answer
    history,   \* history[s]: records in the history store of Slow-Node s
    commands,  \* commands on their way to the worker
    app,       \* MonitorApp: the GUI thread's own state
    data,      \* Shared.data: the view of a Slow-Node
    worker,    \* key, sticky browse, and the request under way
    refused,   \* a browse has failed since the last one that was applied
    budget     \* clicks, faults and flushes so far

consoleVars == <<up, history, commands, app, data, worker, refused, budget>>

Idle == [kind |-> "idle"]
Poll == [kind |-> "poll"]

ConsoleInit ==
    /\ up \in SUBSET Slow
    /\ history = [s \in Slow |-> {}]
    /\ commands = <<>>
    /\ \E key \in Keys \cup {NoKey} :
        /\ app = [slow |-> 0, autoBrowse |-> FALSE, autoTenant |-> FALSE,
                  keyApplied |-> key # NoKey, keyError |-> FALSE]
        /\ worker = [key |-> key, sticky |-> Nothing, job |-> Idle]
    /\ data = [source |-> 0, tenants |-> [t \in {} |-> 0], tenant |-> NoTenant,
               records |-> {}, truncated |-> FALSE, detail |-> Nothing,
               error |-> FALSE, generation |-> FALSE]
    /\ refused = FALSE
    /\ budget = [clicks |-> 0, faults |-> 0, flushes |-> 0]

-----------------------------------------------------------------------------
(* Tokens.  A tag binds the key, the purpose and the time it was minted.   *)

compute_tag(key, purpose, time) == <<key, purpose, time>>
mint_at(key, purpose, time) == [tag |-> compute_tag(key, purpose, time), time |-> time]

MutVerifyAt(key, token, purpose, now) ==
    /\ (IF now > token.time THEN now - token.time ELSE token.time - now) < Window
    /\ token.tag = compute_tag(key, purpose, token.time)

verify_at(key, token, purpose, now) ==
    /\ (IF now > token.time THEN now - token.time ELSE token.time - now) <= Window
    /\ token.tag = compute_tag(key, purpose, token.time)

\* What a node's handler does with the token of a request sent by the worker.
Authorized(now) ==
    \/ ClusterKey = NoKey
    \/ /\ worker.key # NoKey
       /\ verify_at(ClusterKey, mint_at(worker.key, "Monitor", 0), "Monitor", now)

-----------------------------------------------------------------------------
(* The Slow-Nodes: flushes, failures and restarts.                         *)

apply_flush(s, r) ==
    /\ budget.flushes < MaxFlushes /\ r \notin history[s]
    /\ history' = [history EXCEPT ![s] = @ \cup {r}]
    /\ budget' = [budget EXCEPT !.flushes = @ + 1]
    /\ UNCHANGED <<up, commands, app, data, worker, refused>>

Fail(s) ==
    /\ s \in up /\ budget.faults < MaxFailures
    /\ up' = up \ {s}
    /\ budget' = [budget EXCEPT !.faults = @ + 1]
    /\ UNCHANGED <<history, commands, app, data, worker, refused>>

Recover(s) ==
    /\ s \notin up
    /\ up' = up \cup {s}
    /\ UNCHANGED <<history, commands, app, data, worker, refused, budget>>

-----------------------------------------------------------------------------
(* The history store's answers, taken in two separate locked sections.     *)

Held(s, t) == {r \in history[s] : r[1] = t}

MutRecordSummaries(s, t, max) ==
    LET held == Held(s, t)
    IN [records |-> {r \in held : Cardinality({o \in held : o[2] < r[2]}) <= max},
        truncated |-> Cardinality(held) > max]

\* The first `max` records by id.
record_summaries(s, t, max) ==
    LET held == Held(s, t)
    IN [records |-> {r \in held : Cardinality({o \in held : o[2] < r[2]}) < max},
        truncated |-> Cardinality(held) > max]

tenant_summaries(s) ==
    [t \in {r[1] : r \in history[s]} |-> Cardinality(Held(s, t))]

-----------------------------------------------------------------------------
(* The worker.  A request under way is a job.  A browse takes the records, *)
(* then the tenants, and is applied when the answer arrives.               *)

BrowseJob(s, t, asked) ==
    [kind |-> "browse", slow |-> s, tenant |-> t, asked |-> asked,
     page |-> Nothing, tenants |-> Nothing]

\* worker_loop drains the commands before it looks at the clock.
TakeCommand ==
    /\ worker.job = Idle /\ commands # <<>>
    /\ LET c == Head(commands)
       IN  worker' = CASE c.op = "SetClusterKey" -> [worker EXCEPT !.key = c.key]
                       [] c.op = "Browse" ->
                              [worker EXCEPT !.job = BrowseJob(c.slow, c.tenant, TRUE)]
                       [] c.op = "FetchRecord" ->
                              [worker EXCEPT !.job = [kind |-> "fetch", slow |-> c.slow,
                                                      record |-> c.record]]
    /\ commands' = Tail(commands)
    /\ UNCHANGED <<up, history, app, data, refused, budget>>

\* handle_browse, first section: the token, then the records of the tenant.
browse_records ==
    /\ worker.job.kind = "browse" /\ worker.job.page = Nothing
    /\ worker.job.slow \in up
    /\ \E now \in Skews : Authorized(now)
    /\ worker' = [worker EXCEPT !.job.page =
            IF worker.job.tenant = NoTenant THEN [records |-> {}, truncated |-> FALSE]
            ELSE record_summaries(worker.job.slow, worker.job.tenant, BrowseMax)]
    /\ UNCHANGED <<up, history, commands, app, data, refused, budget>>

\* Second section: the tenants and their counts.
browse_tenants ==
    /\ worker.job.kind = "browse" /\ worker.job.page # Nothing
    /\ worker.job.tenants = Nothing
    /\ worker.job.slow \in up
    /\ worker' = [worker EXCEPT !.job.tenants = tenant_summaries(worker.job.slow)]
    /\ UNCHANGED <<up, history, commands, app, data, refused, budget>>

\* A browse the GUI asked for is repeated after every poll.
Browsed(job) ==
    [worker EXCEPT !.job = Idle,
                   !.sticky = IF job.asked THEN [slow |-> job.slow, tenant |-> job.tenant] ELSE @]

browse_applied ==
    LET job == worker.job
    IN  /\ job.kind = "browse" /\ job.tenants # Nothing
        /\ data' = [data EXCEPT !.source = job.slow, !.tenants = job.tenants,
                        !.records = job.page.records, !.truncated = job.page.truncated,
                        !.tenant = job.tenant, !.error = FALSE, !.generation = TRUE]
        /\ worker' = Browsed(job)
        /\ refused' = FALSE
        /\ UNCHANGED <<up, history, commands, app, budget>>

\* The node is down, answers 403, or is lost before its answer is complete.
browse_failed ==
    LET job == worker.job
    IN  /\ job.kind = "browse"
        /\ \/ job.slow \notin up
           \/ job.page = Nothing /\ \E now \in Skews : ~Authorized(now)
        /\ data' = [data EXCEPT !.source = job.slow, !.error = TRUE]
        /\ worker' = Browsed(job)
        /\ refused' = TRUE
        /\ UNCHANGED <<up, history, commands, app, budget>>

\* /history asks for no token; a record that is not there is an empty answer.
handle_history(s, r) == r \in history[s]

fetch_record ==
    LET job == worker.job
    IN  /\ job.kind = "fetch"
        /\ data' = IF job.slow \in up
                   THEN [data EXCEPT !.error = FALSE,
                                     !.detail = [record |-> job.record, slow |-> job.slow,
                                                 found |-> handle_history(job.slow, job.record)]]
                   ELSE [data EXCEPT !.error = TRUE]
        /\ worker' = [worker EXCEPT !.job = Idle]
        /\ UNCHANGED <<up, history, commands, app, refused, budget>>

\* With no command left, the counters are polled (Polling) when it is time, and
\* then the browse asked for last is repeated; commands may arrive meanwhile.
poll_metrics ==
    /\ worker.job = Idle /\ commands = <<>>
    /\ worker' = [worker EXCEPT !.job = Poll]
    /\ UNCHANGED <<up, history, commands, app, data, refused, budget>>

sticky_browse ==
    /\ worker.job = Poll
    /\ worker' = [worker EXCEPT !.job =
            IF worker.sticky = Nothing THEN Idle
            ELSE BrowseJob(worker.sticky.slow, worker.sticky.tenant, FALSE)]
    /\ UNCHANGED <<up, history, commands, app, data, refused, budget>>

-----------------------------------------------------------------------------
(* The GUI thread.  A frame of the Data tab works on the view as it was at *)
(* the frame's start, and may carry one click.                             *)

BrowseCommand(s, t) == [op |-> "Browse", slow |-> s, tenant |-> t]
FetchCommand(s, r) == [op |-> "FetchRecord", slow |-> s, record |-> r]
KeyCommand(key) == [op |-> "SetClusterKey", key |-> key]

FirstTenant == Min(DOMAIN data.tenants)
AutoBrowse == ~app.autoBrowse /\ ~data.generation
AutoTenant == ~app.autoTenant /\ data.generation /\ data.tenant = NoTenant

\* What show does before it draws: the first listing, then its first tenant.
AutoCommands ==
    (IF AutoBrowse THEN <<BrowseCommand(app.slow, NoTenant)>> ELSE <<>>) \o
    (IF AutoTenant /\ DOMAIN data.tenants # {}
     THEN <<BrowseCommand(app.slow, FirstTenant)>> ELSE <<>>)

Shown(slow, clicked) ==
    /\ app' = [app EXCEPT !.autoBrowse = @ \/ AutoBrowse, !.autoTenant = @ \/ AutoTenant,
                          !.slow = slow]
    /\ commands' = commands \o AutoCommands \o clicked
    /\ UNCHANGED <<up, history, data, worker, refused>>

Click == /\ budget.clicks < MaxClicks
         /\ budget' = [budget EXCEPT !.clicks = @ + 1]

\* Without a click a frame matters only when it sends something.
show == /\ AutoBrowse \/ AutoTenant
        /\ Shown(app.slow, <<>>)
        /\ UNCHANGED budget

show_toolbar ==
    /\ Click
    /\ \/ \E s \in Slow \ {app.slow} : Shown(s, <<>>)
       \/ Shown(app.slow, <<BrowseCommand(app.slow, data.tenant)>>)

show_tenants ==
    /\ Click
    /\ \E t \in DOMAIN data.tenants : Shown(app.slow, <<BrowseCommand(app.slow, t)>>)

show_records_table ==
    /\ Click
    /\ data.tenant # NoTenant
    /\ \E r \in data.records : Shown(app.slow, <<FetchCommand(app.slow, r)>>)

\* The Settings tab: Apply with a key that parses or does not, and Clear.
show_auth ==
    /\ Click
    /\ \/ \E key \in Keys : /\ app' = [app EXCEPT !.keyError = FALSE, !.keyApplied = TRUE]
                            /\ commands' = Append(commands, KeyCommand(key))
       \/ /\ app' = [app EXCEPT !.keyError = TRUE, !.keyApplied = FALSE]
          /\ UNCHANGED commands
       \/ /\ app' = [app EXCEPT !.keyError = FALSE, !.keyApplied = FALSE]
          /\ commands' = Append(commands, KeyCommand(NoKey))
    /\ UNCHANGED <<up, history, data, worker, refused>>

-----------------------------------------------------------------------------

WorkerSteps ==
    \/ TakeCommand \/ browse_records \/ browse_tenants \/ browse_applied \/ browse_failed
    \/ fetch_record \/ poll_metrics \/ sticky_browse

ConsoleNext ==
    \/ \E s \in Slow, r \in Records : apply_flush(s, r)
    \/ \E s \in Slow : Fail(s) \/ Recover(s)
    \/ WorkerSteps
    \/ show \/ show_toolbar \/ show_tenants \/ show_records_table \/ show_auth

ConsoleSpec == ConsoleInit /\ [][ConsoleNext]_consoleVars
ConsoleFairness == WF_consoleVars(WorkerSteps)
ConsoleFairSpec == ConsoleSpec /\ ConsoleFairness

-----------------------------------------------------------------------------

\* While no browse has failed since, the view is one page of one store: the
\* records are held by the node the view names, for the tenant it names; a page
\* is marked truncated only when it is full; and a tenant is never shown with fewer records than
\* are listed, although the two parts of an answer are read one after the other
\* and the store grows between them (handle_browse, browse).
ViewIsOnePage ==
    ~refused /\ data.tenant # NoTenant =>
        LET held == Held(data.source, data.tenant)
        IN  /\ data.records \subseteq held
            /\ Cardinality(data.records) <= BrowseMax
            /\ data.truncated => Cardinality(data.records) = BrowseMax
            /\ data.records # {} =>
                   /\ data.tenant \in DOMAIN data.tenants
                   /\ Cardinality(data.records) <= data.tenants[data.tenant]

\* When no command is on its way, the Settings tab says a key is active exactly
\* when the worker sends tokens, unless it shows a parse error (show_auth).
KeyShown ==
    (\A i \in DOMAIN commands : commands[i].op # "SetClusterKey") /\ ~app.keyError =>
        (app.keyApplied <=> worker.key # NoKey)

\* What the window says is what the worker and the node it browsed hold.
WindowHonest == ViewIsOnePage /\ KeyShown

\* state.rs:99: source_slow_idx is the node "this view came from".
ViewFromSource == data.records \subseteq history[data.source]

\* A record is fetched from the node that listed it (show_records_table).
FetchAsksSource ==
    data.detail # Nothing => data.detail.found

\* If the node last asked for stays reachable, the worker holds its key and the
\* clocks differ by at most the window, then the view is in the end the node's
\* present content (worker_loop repeats the browse; flushes come to an end here).
Reachable ==
    /\ worker.sticky # Nothing /\ worker.sticky.slow \in up
    /\ ClusterKey \in {NoKey, worker.key}
    /\ Skews \subseteq (0 - Window) .. Window
ViewCurrent ==
    /\ worker.sticky # Nothing
    /\ LET s == worker.sticky.slow
           page == record_summaries(s, worker.sticky.tenant, BrowseMax)
       IN  /\ data.source = s /\ data.tenant = worker.sticky.tenant
           /\ data.tenants = tenant_summaries(s)
           /\ data.tenant # NoTenant => data.records = page.records /\ data.truncated = page.truncated
ViewSettles == <>[]Reachable => <>[]ViewCurrent

=============================================================================
