----------------------------- MODULE MCClients ------------------------------
(***************************************************************************)
(* The two clients with threads or tasks of their own: a session that two  *)
(* tasks share, and the data explorer of the graphical monitor.  They      *)
(* share no state, and a behaviour is one of the chosen client.            *)
(***************************************************************************)
EXTENDS Session, Console

VARIABLE client   \* the client that runs

CONSTANTS t1, t2

\* Two records of one tenant and one of another.
MCRecords == {<<1, 1>>, <<1, 2>>, <<2, 1>>}

ClientsInit ==
    /\ client \in {"session", "console"}
    /\ Init /\ ConsoleInit
    /\ client = "session" => up = Slow /\ worker.key = NoKey
    /\ client = "console" => transport = "ws"

RunSession == client = "session" /\ Next /\ UNCHANGED consoleVars
RunConsole == client = "console" /\ ConsoleNext /\ UNCHANGED vars

ClientsNext == (RunSession \/ RunConsole) /\ UNCHANGED client

\* The fairness of the client that runs (FairSpec, ConsoleFairSpec).
ClientsFairness ==
    /\ \A t \in Tasks : WF_vars(client = "session" /\ Call(t))
    /\ WF_vars(client = "session" /\ WsServe) /\ WF_vars(client = "session" /\ WsRead)
    /\ WF_vars(client = "session" /\ Worker) /\ WF_vars(client = "session" /\ Post)
    /\ WF_consoleVars(client = "console" /\ WorkerSteps)

ClientsSpec == ClientsInit /\ [][ClientsNext]_<<vars, consoleVars, client>> /\ ClientsFairness
=============================================================================
