----------------------------- MODULE MCServices -----------------------------
(***************************************************************************)
(* What a node serves and who looks at it: the request handlers with the   *)
(* typed client API, the pins on partitions, the browser client, the       *)
(* terminal monitor and the graphs of the graphical one.  They share no    *)
(* state here, and a behaviour is one of the chosen service.               *)
(***************************************************************************)
EXTENDS Requests, Ownership, Browser, Terminal, Polling

VARIABLE service   \* the service that runs

\* What is free initially in a service that does not run is fixed.
ServicesInit ==
    /\ service \in {"requests", "ownership", "browser", "terminal", "polling"}
    /\ RequestsInit /\ OwnershipInit /\ BrowserInit /\ TerminalInit /\ PollingInit
    /\ service # "requests" => registry = NoRegistry /\ owned = Tenants
    /\ service # "polling" => /\ counter = [q \in QuickNodes |-> Started]
                              /\ answers = [n \in MonitoredNodes |-> "Ok"]

ServeRequests == /\ service = "requests" /\ RequestsNext
                 /\ UNCHANGED <<ownershipVars, browserVars, terminalVars, pollingVars>>
MovePartitions == /\ service = "ownership" /\ OwnershipNext
                  /\ UNCHANGED <<requestVars, browserVars, terminalVars, pollingVars>>
RunBrowser == /\ service = "browser" /\ BrowserNext
              /\ UNCHANGED <<requestVars, ownershipVars, terminalVars, pollingVars>>
RunTerminal == /\ service = "terminal" /\ TerminalNext
               /\ UNCHANGED <<requestVars, ownershipVars, browserVars, pollingVars>>
PollNodes == /\ service = "polling" /\ PollingNext
             /\ UNCHANGED <<requestVars, ownershipVars, browserVars, terminalVars>>

ServicesNext ==
    /\ ServeRequests \/ MovePartitions \/ RunBrowser \/ RunTerminal \/ PollNodes
    /\ UNCHANGED service

ServicesSpec ==
    ServicesInit /\ [][ServicesNext]_<<requestVars, ownershipVars, browserVars, terminalVars, pollingVars, service>>

-----------------------------------------------------------------------------

\* Version 2 of "msg" is declared and version 1 no longer is; an earlier program left
\* a record of version 1.
MCRegistries == {{<<"acc", 1>>, <<"msg", 2>>}}
MCOldRecords == {<<"msg", 1, 1, "clean">>}

MCRingOwned == {<<1, 1>>}

\* Rows a search finds by url, and by an id that is known while the node answers:
\* three matches can become one.
MCByUrl == <<{0}, {}>>
MCById == <<{0, 1, 2}, {0, 2}>>

\* A large write to one slot and a small one to another.
MCWrites == {<<0, 600>>, <<1, 1>>}
=============================================================================
