------------------------------ MODULE Terminal ------------------------------
(***************************************************************************)
(* The terminal monitor (wavedb-monitor): its loop takes messages of the   *)
(* embedding program, polls the nodes, draws, and handles one key.  What a *)
(* user types is a prefix of one text, and a query is the length of that   *)
(* prefix.  Layout, colours and the lines of counters are left out.        *)
(***************************************************************************)
EXTENDS Integers, Sequences, FiniteSets, SequencesExt

CONSTANTS Rows,          \* the number of configured nodes
          ByUrl, ById,   \* ByUrl[q]: rows whose url contains query q, ById its node id
          Visible, Step, LogCap,   \* rows of the log, EVENT_SCROLL_STEP, MAX_LOG
          MaxMessages    \* bound on the messages of the embedding program

NoRow == 0 - 1
RowSet == 0 .. Rows - 1

ASSUME TerminalAssumption ==
    /\ Rows \in Nat \ {0} /\ Visible \in Nat \ {0} /\ LogCap >= Visible
    /\ \A q \in DOMAIN ByUrl : ByUrl[q] \subseteq RowSet /\ ById[q] \subseteq RowSet

VARIABLES
    rows,      \* snapshot: NoRow before the first poll, else the rows with metrics
    selected,  \* table.selected()
    search,    \* query, matches, cursor
    mode,      \* InputMode, or how the loop ended: "quit", "panic"
    events,    \* the event log: its length and the lines scrolled past
    detail,    \* detail_node_idx
    inbox,     \* messages in the LogBuffer, and how many were ever pushed
    lost,      \* a row lost its metrics since the query was last changed
    phase      \* where the loop stands

terminalVars == <<rows, selected, search, mode, events, detail, inbox, lost, phase>>

Unknown == {NoRow}
Alive == mode \notin {"quit", "panic"}

TerminalInit ==
    /\ rows = Unknown /\ selected = 0 /\ mode = "Normal" /\ detail = 0
    /\ search = [query |-> 0, matches |-> <<>>, cursor |-> 0]
    /\ events = [length |-> 0, offset |-> 0]
    /\ inbox = [waiting |-> 0, pushed |-> 0, done |-> FALSE, announced |-> FALSE]
    /\ lost = FALSE
    /\ phase = "poll"

-----------------------------------------------------------------------------
(* The embedding program.                                                  *)

push_log ==
    /\ inbox.pushed < MaxMessages
    /\ inbox' = [inbox EXCEPT !.waiting = @ + 1, !.pushed = @ + 1]
    /\ UNCHANGED <<rows, selected, search, mode, events, detail, lost, phase>>

ScenarioDone ==
    /\ ~inbox.done
    /\ inbox' = [inbox EXCEPT !.done = TRUE]
    /\ UNCHANGED <<rows, selected, search, mode, events, detail, lost, phase>>

-----------------------------------------------------------------------------
(* Search.                                                                 *)

Matching(query, known) ==
    IF query = 0 THEN <<>>
    ELSE SetToSortSeq(ByUrl[query] \cup (ById[query] \cap known), <)

MutRefreshSearch(query, known) ==
    [search EXCEPT !.query = query, !.matches = IF query = 0 THEN @ ELSE Matching(query, known)]

refresh_search(query, known) == [search EXCEPT !.query = query, !.matches = Matching(query, known)]

\* search_push and search_pop
SetQuery(query) ==
    LET found == refresh_search(query, rows)
    IN  /\ search' = IF found.matches = <<>> THEN found ELSE [found EXCEPT !.cursor = 0]
        /\ selected' = IF found.matches = <<>> THEN selected ELSE found.matches[1]
        /\ lost' = IF found.matches = <<>> THEN lost ELSE FALSE

clear_search == search' = [query |-> 0, matches |-> <<>>, cursor |-> 0]

\* An index past the matches panics, and the thread ends.
GoToMatch(cursor) ==
    IF cursor < Len(search.matches)
    THEN /\ search' = [search EXCEPT !.cursor = cursor]
         /\ selected' = search.matches[cursor + 1]
         /\ UNCHANGED mode
    ELSE /\ mode' = "panic"
         /\ UNCHANGED <<search, selected>>

-----------------------------------------------------------------------------
(* The loop.                                                               *)

Logged(n) == [events EXCEPT !.length = IF @ + n > LogCap THEN LogCap ELSE @ + n]

\* The lock on the buffer is only tried.
drain_log ==
    /\ Alive /\ phase = "poll" /\ inbox.waiting > 0
    /\ events' = Logged(inbox.waiting)
    /\ inbox' = [inbox EXCEPT !.waiting = 0]
    /\ UNCHANGED <<rows, selected, search, mode, detail, lost, phase>>

\* poll_all gives every configured node an entry.  It has metrics when the node
\* answers with success and with bytes that decode; the other outcomes differ in
\* what is logged.
PollOutcomes == {"metrics", "undecodable", "refused", "unreachable"}
poll_all == {{r \in RowSet : outcome[r] = "metrics"} : outcome \in [RowSet -> PollOutcomes]}

update(known) ==
    /\ Alive /\ phase = "poll"
    /\ rows' = known
    /\ search' = refresh_search(search.query, known)
    /\ selected' = IF selected = NoRow THEN 0 ELSE IF selected >= Rows THEN Rows - 1 ELSE selected
    /\ lost' = (lost \/ (rows # Unknown /\ ~(rows \subseteq known)))
    /\ phase' = "draw"
    /\ UNCHANGED <<mode, events, detail, inbox>>

SkipPoll ==
    /\ Alive /\ phase = "poll" /\ rows # Unknown
    /\ phase' = "draw"
    /\ UNCHANGED <<rows, selected, search, mode, events, detail, inbox, lost>>

\* render changes nothing; then the end of the scenario is announced once.
draw ==
    /\ Alive /\ phase = "draw"
    /\ LET announce == inbox.done /\ ~inbox.announced
       IN  /\ events' = IF announce THEN Logged(1) ELSE events
           /\ inbox' = [inbox EXCEPT !.announced = @ \/ announce]
    /\ phase' = "key"
    /\ UNCHANGED <<rows, selected, search, mode, detail, lost>>

Key == Alive /\ phase = "key" /\ phase' = "poll" /\ UNCHANGED <<rows, inbox>>

no_key == Key /\ UNCHANGED <<selected, search, mode, events, detail, lost>>

-----------------------------------------------------------------------------
(* Keys in the mode Normal.                                                *)

Normal == Key /\ mode = "Normal"

move_to(row) ==
    /\ Normal /\ selected' = row
    /\ UNCHANGED <<search, mode, events, detail, lost>>

move_down == move_to(IF selected = NoRow THEN 0 ELSE IF selected < Rows - 1 THEN selected + 1 ELSE selected)
move_up == move_to(IF selected \in {NoRow, 0} THEN 0 ELSE selected - 1)
go_top == move_to(0)
go_bottom == move_to(Rows - 1)

search_next ==
    /\ Normal /\ search.matches # <<>>
    /\ GoToMatch((search.cursor + 1) % Len(search.matches))
    /\ UNCHANGED <<events, detail, lost>>

search_prev ==
    /\ Normal /\ search.matches # <<>>
    /\ GoToMatch(IF search.cursor = 0 THEN Len(search.matches) - 1 ELSE search.cursor - 1)
    /\ UNCHANGED <<events, detail, lost>>

begin_search ==
    /\ Normal /\ mode' = "Search" /\ clear_search /\ lost' = FALSE
    /\ UNCHANGED <<selected, events, detail>>

open_detail ==
    /\ Normal /\ selected # NoRow
    /\ detail' = selected /\ mode' = "NodeDetail"
    /\ UNCHANGED <<selected, search, events, lost>>

scroll_events_up ==
    /\ Normal
    /\ LET most == IF events.length > Visible THEN events.length - Visible ELSE 0
       IN  events' = [events EXCEPT !.offset = IF @ + Step > most THEN most ELSE @ + Step]
    /\ UNCHANGED <<selected, search, mode, detail, lost>>

scroll_events_down ==
    /\ Normal
    /\ events' = [events EXCEPT !.offset = IF @ > Step THEN @ - Step ELSE 0]
    /\ UNCHANGED <<selected, search, mode, detail, lost>>

quit ==
    /\ Key /\ mode \in {"Normal", "NodeDetail"}
    /\ mode' = "quit"
    /\ UNCHANGED <<selected, search, events, detail, lost>>

handle_normal ==
    \/ move_down \/ move_up \/ go_top \/ go_bottom \/ search_next \/ search_prev
    \/ begin_search \/ open_detail \/ scroll_events_up \/ scroll_events_down \/ quit

handle_search ==
    /\ Key /\ mode = "Search"
    /\ \/ /\ mode' = "Normal" /\ clear_search /\ lost' = FALSE /\ UNCHANGED selected
       \/ mode' = "Normal" /\ UNCHANGED <<search, selected, lost>>
       \/ /\ \E query \in {search.query - 1, search.query + 1} \cap DOMAIN ByUrl :
                 SetQuery(query)
          /\ UNCHANGED mode
       \/ search.query = 1 /\ SetQuery(0) /\ UNCHANGED mode
    /\ UNCHANGED <<events, detail>>

handle_detail ==
    /\ Key /\ mode = "NodeDetail" /\ mode' = "Normal"
    /\ UNCHANGED <<selected, search, events, detail, lost>>

\* The lines the panel shows, from the first to before the last.
render_event_log ==
    LET end == events.length - events.offset
    IN  [start |-> IF end > Visible THEN end - Visible ELSE 0, end |-> end]

TerminalNext ==
    \/ push_log \/ ScenarioDone
    \/ drain_log \/ (\E known \in poll_all : update(known)) \/ SkipPoll \/ draw
    \/ no_key \/ handle_normal \/ handle_search \/ handle_detail

TerminalSpec == TerminalInit /\ [][TerminalNext]_terminalVars

-----------------------------------------------------------------------------

\* What the table marks is what the query finds in the snapshot on screen, after
\* every poll and every key, and the selected row exists (update, refresh_search).
SearchExact ==
    rows # Unknown =>
        /\ ToSet(search.matches) =
               {r \in RowSet : search.query > 0 /\ (r \in ByUrl[search.query]
                                                     \/ r \in ById[search.query] \cap rows)}
        /\ selected \in RowSet /\ detail \in RowSet

\* The event panel shows as many lines as there are, up to its height, wherever
\* it is scrolled and however many messages came since (scroll_events_up,
\* push_log, render_event_log).
LogFillsPanel ==
    render_event_log.end - render_event_log.start =
        IF events.length > Visible THEN Visible ELSE events.length

\* The loop ends by a key, unless a node whose id was found stopped answering
\* since the query was last changed (search_next, search_prev).
EndsByKey == mode = "panic" => lost

\* The loop and the screen together: what is marked, shown and selected is what the
\* snapshot and the log hold, and only a key ends the loop, but for the case above.
TerminalSound == SearchExact /\ LogFillsPanel /\ EndsByKey

\* lib.rs:62: "the TUI stays alive until the user presses `q` / `Esc`".
StaysAlive == mode # "panic"

=============================================================================
