------------------------------ MODULE Polling ------------------------------
(***************************************************************************)
(* The counters of the nodes and the graphs a monitor draws of them: the   *)
(* metrics of a Quick-Node, the poll of every node by the worker of        *)
(* wavedb-monitor-gui, and the change of the totals it plots.  Reads are   *)
(* counted and plotted exactly as writes are, and are left out.  No        *)
(* property relates two counters of a node, so a write updates them in one *)
(* step.                                                                   *)
(***************************************************************************)
EXTENDS Integers, FiniteSets, FiniteSetsExt

CONSTANTS QuickNodes, SlowNodes,
          Failures,    \* of "Unauthorized", "Unreachable" and "BadResponse"
          Slots,       \* slots of the page map (MAX_MAP_PAGES)
          Writes,      \* the slot and the size of the writes that occur
          Unpolled,    \* the counter of a node that was never reached
          MaxCount,    \* bound on the writes of a node in one life
          MaxTrouble   \* bound on the changes of how a node answers

MonitoredNodes == QuickNodes \cup SlowNodes
Answers == {"Ok"} \cup Failures

VARIABLES
    counter,   \* counter[q]: write_count and page_bytes, zero when q starts
    answers,   \* answers[n]: what a request to /metrics of n leads to
    fresh,     \* fresh[q]: writes of q since the monitor last read its counter
    results,   \* outcomes of the poll under way, by node
    graphs,    \* Shared: health, last write counts, totals, poll count, last sample
    trouble    \* changes in answers so far

pollingVars == <<counter, answers, fresh, results, graphs, trouble>>

Started == [count |-> 0, bytes |-> [p \in Slots |-> 0]]

\* The monitor is started when the nodes may have been running for long.
PollingInit ==
    /\ counter \in [QuickNodes -> {Started, [Started EXCEPT !.count = 1]}]
    /\ answers \in [MonitoredNodes -> Answers]
    /\ fresh = [q \in QuickNodes |-> 0]
    /\ results = [n \in {} |-> 0]
    /\ graphs = [health |-> [n \in MonitoredNodes |-> "Unknown"],
                 quick |-> [q \in QuickNodes |-> Unpolled],
                 prev |-> 0, polled |-> FALSE, sample |-> 0, made |-> 0, late |-> FALSE]
    /\ trouble = 0

-----------------------------------------------------------------------------
(* The nodes.                                                              *)

\* The counters at the end of handle_write.
CountWrite(q, w) ==
    /\ counter[q].count < MaxCount /\ fresh[q] < MaxCount
    /\ counter' = [counter EXCEPT ![q].count = @ + 1, ![q].bytes[w[1]] = @ + w[2]]
    /\ fresh' = [fresh EXCEPT ![q] = @ + 1]
    /\ UNCHANGED <<answers, results, graphs, trouble>>

\* A node stops, loses the network, holds another key, or comes back.
AnswersChange(n, a) ==
    /\ trouble < MaxTrouble /\ a # answers[n]
    /\ answers' = [answers EXCEPT ![n] = a]
    /\ trouble' = trouble + 1
    /\ UNCHANGED <<counter, fresh, results, graphs>>

Restart(q) ==
    /\ trouble < MaxTrouble /\ counter[q] # Started
    /\ counter' = [counter EXCEPT ![q] = Started]
    /\ trouble' = trouble + 1
    /\ UNCHANGED <<answers, fresh, results, graphs>>

\* The page map: the busiest slot is 255, and a slot with traffic at least 1.
PageMap(bytes) ==
    LET busiest == Max({bytes[p] : p \in Slots} \cup {1})
    IN  [p \in Slots |-> IF bytes[p] = 0 THEN 0
                         ELSE Min({255, Max({1, (bytes[p] * 255) \div busiest})})]

metrics(q) ==
    LET map == PageMap(counter[q].bytes)
    IN  [write_count |-> counter[q].count, page_map |-> map,
         page_count |-> Cardinality({p \in Slots : map[p] > 0})]

\* The token is checked before the counters are read.
handle_metrics(q) ==
    [status |-> answers[q],
     write_count |-> IF answers[q] = "Ok" THEN metrics(q).write_count ELSE Unpolled]

\* A Slow-Node checks alike; its counters have no part in the graphs.
slow_metrics(n) == [status |-> answers[n], write_count |-> Unpolled]

-----------------------------------------------------------------------------
(* The poll.  All nodes are asked at once and answer at different times.   *)
(* An outcome carries what was written since the last reading of the node. *)

poll_one(n) ==
    LET answer == IF n \in QuickNodes THEN handle_metrics(n) ELSE slow_metrics(n)
        quick == answer.write_count # Unpolled
        outcome == [health |-> answer.status, quick |-> answer.write_count,
                    made |-> IF quick THEN fresh[n] ELSE 0]
    IN  /\ n \notin DOMAIN results
        /\ results' = [m \in DOMAIN results \cup {n} |->
                           IF m = n THEN outcome ELSE results[m]]
        /\ fresh' = IF quick THEN [fresh EXCEPT ![n] = 0] ELSE fresh
        /\ UNCHANGED <<counter, answers, graphs, trouble>>

MutTotalWrites(quick) ==
    MapThenSumSet(LAMBDA q : IF quick[q] = Unpolled \/ results[q].health # "Ok" THEN 0
                             ELSE quick[q], QuickNodes)

TotalWrites(quick) ==
    MapThenSumSet(LAMBDA q : IF quick[q] = Unpolled THEN 0 ELSE quick[q], QuickNodes)

\* A node that does not answer keeps its last metrics.  The first poll adds no
\* sample, because its totals are those of the nodes' lifetimes.
poll_metrics ==
    LET read == {q \in QuickNodes : results[q].quick # Unpolled}
        quick == [q \in QuickNodes |-> IF q \in read THEN results[q].quick ELSE graphs.quick[q]]
        total == TotalWrites(quick)
        delta == IF total > graphs.prev THEN total - graphs.prev ELSE 0
    IN  /\ DOMAIN results = MonitoredNodes
        /\ graphs' = [health |-> [n \in MonitoredNodes |-> results[n].health],
                      quick |-> quick, prev |-> total, polled |-> TRUE,
                      sample |-> IF graphs.polled THEN delta ELSE graphs.sample,
                      made |-> MapThenSumSet(LAMBDA q : results[q].made, read),
                      late |-> graphs.polled /\ \E q \in read : graphs.quick[q] = Unpolled]
        /\ results' = [n \in {} |-> 0]
        /\ UNCHANGED <<counter, answers, fresh, trouble>>

PollingNext ==
    \/ \E q \in QuickNodes, w \in Writes : CountWrite(q, w)
    \/ \E n \in MonitoredNodes, a \in Answers : AnswersChange(n, a)
    \/ \E q \in QuickNodes : Restart(q)
    \/ \E n \in MonitoredNodes : poll_one(n)
    \/ poll_metrics

PollingSpec == PollingInit /\ [][PollingNext]_pollingVars

-----------------------------------------------------------------------------

\* A point of the write graph is never above what was written between the two
\* readings of every node that it compares, whichever nodes failed, restarted or
\* changed their key in between, unless a node was reached for the first time
\* after the first poll (poll_metrics).
SamplesAreWrites == graphs.sample <= graphs.made \/ graphs.late \/ ~graphs.polled

\* poll.rs:181: the jump "from 0 to lifetime totals" is not drawn.
NoLifetimeSpike == graphs.sample <= graphs.made \/ ~graphs.polled

\* The page map of the metrics shows every slot that saw a write, however small
\* beside the busiest one, orders the slots by their traffic, and page_count is
\* the number of slots with traffic (metrics; a fixed scale once hid light ones).
PagesShown ==
    \A q \in QuickNodes :
        LET bytes == counter[q].bytes
            map == metrics(q).page_map
        IN  /\ \A p \in Slots : map[p] \in 0 .. 255 /\ (map[p] = 0 <=> bytes[p] = 0)
            /\ \A o, p \in Slots : bytes[o] <= bytes[p] => map[o] <= map[p]
            /\ metrics(q).page_count = Cardinality({p \in Slots : bytes[p] > 0})

\* What the monitor draws of the counters is what happened to them.
GraphsHonest == SamplesAreWrites /\ PagesShown

=============================================================================
