----------------------------- MODULE Migration ------------------------------
(***************************************************************************)
(* Schema migration: the MigrationRegistry and its searches (migration.rs) *)
(* and the chain of types the wave_db macro generates to read a record     *)
(* stored at another version (macros/src/migration).                       *)
(*                                                                         *)
(* A version is a number; a VersionRef of another struct is a version of   *)
(* its own here.  Only which functions are applied matters, so applying    *)
(* one is adding its pair of versions to the list of hops.                 *)
(***************************************************************************)
EXTENDS Integers, Sequences, SequencesExt, FiniteSets

CONSTANTS Versions, MaxRegistrations

VARIABLES forward,     \* version -> versions it migrates to, in order
          backward,    \* version -> versions it rolls back to, in order
          entries,     \* registered functions: [from, to, rollback]
          declared,    \* version -> the attributes of its struct
          registrations
migrationVars == <<forward, backward, entries, declared, registrations>>

ASSUME MigrationLimits == Versions \subseteq Nat \ {0} /\ MaxRegistrations \in Nat

\* No attribute, or no path.
None == 0
NoPath == [ok |-> FALSE, hops |-> <<>>]
Plan(hops) == [ok |-> TRUE, hops |-> hops]

MigrationInit ==
    /\ forward = [v \in Versions |-> <<>>]
    /\ backward = [v \in Versions |-> <<>>]
    /\ entries = <<>>
    /\ declared = [v \in Versions |-> [from |-> None, back |-> None]]
    /\ registrations = 0

Push(edges, from, to) == [edges EXCEPT ![from] = Append(@, to)]
Register == registrations < MaxRegistrations /\ registrations' = registrations + 1

RegisterForward(from, to) ==
    /\ Register
    /\ forward' = Push(forward, from, to)
    /\ UNCHANGED <<backward, entries, declared>>

RegisterWithRollback(from, to) ==
    /\ Register
    /\ forward' = Push(forward, from, to)
    /\ backward' = Push(backward, to, from)
    /\ UNCHANGED <<entries, declared>>

RegisterRollback(future, target) ==
    /\ Register
    /\ backward' = Push(backward, future, target)
    /\ UNCHANGED <<forward, entries, declared>>

\* Both sources of a composition, in the order given.
RegisterCompose(first, second, target, hasRollback) ==
    /\ Register
    /\ forward' = Push(Push(forward, first, target), second, target)
    /\ backward' = IF hasRollback THEN Push(Push(backward, target, first), target, second)
                   ELSE backward
    /\ UNCHANGED <<entries, declared>>

RegisterWithEntry(from, to, rollback) ==
    /\ Register
    /\ forward' = Push(forward, from, to)
    /\ backward' = IF rollback THEN Push(backward, to, from) ELSE backward
    /\ entries' = Append(entries, [from |-> from, to |-> to, rollback |-> rollback])
    /\ UNCHANGED declared

\* A struct declared with migrate_from and migrate_rollback, and the call of
\* the register_migration the macro generates for it: edges, but no entry.
Declare(v, from, back) ==
    /\ Register
    /\ declared[v] = [from |-> None, back |-> None]
    /\ declared' = [declared EXCEPT ![v] = [from |-> from, back |-> back]]
    /\ forward' = IF from = None THEN forward ELSE Push(forward, from, v)
    /\ backward' = IF back = None THEN backward ELSE Push(backward, back, v)
    /\ UNCHANGED entries

MigrationNext ==
    \/ \E from \in Versions : \E to \in Versions \ {from} :
           \/ RegisterForward(from, to)
           \/ RegisterWithRollback(from, to)
           \/ RegisterRollback(from, to)
           \/ \E rollback \in BOOLEAN : RegisterWithEntry(from, to, rollback)
           \/ \E second \in Versions \ {from, to}, rollback \in BOOLEAN :
                  RegisterCompose(from, second, to, rollback)
    \/ \E v \in Versions : \E from \in {None} \cup {u \in Versions : u < v},
                              back \in {None} \cup {u \in Versions : u > v} :
           (from # None \/ back # None) /\ Declare(v, from, back)

-----------------------------------------------------------------------------
\* One visit of the breadth-first search: parent is the visited map.
MutEnqueue(s, next, current) ==
    [queue |-> IF next \in DOMAIN s.parent THEN s.queue ELSE Append(s.queue, next),
     parent |-> [v \in DOMAIN s.parent \cup {next} |->
                    IF v = next THEN current ELSE s.parent[v]]]
Enqueue(s, next, current) ==
    IF next \in DOMAIN s.parent THEN s
    ELSE [queue |-> Append(s.queue, next),
          parent |-> [v \in DOMAIN s.parent \cup {next} |->
                         IF v = next THEN current ELSE s.parent[v]]]
RECURSIVE EnqueueAll(_, _, _)
EnqueueAll(s, nexts, current) ==
    IF nexts = <<>> THEN s
    ELSE EnqueueAll(Enqueue(s, Head(nexts), current), Tail(nexts), current)
RECURSIVE PathTo(_, _, _)
PathTo(parent, from, to) ==
    IF to = from THEN <<>>
    ELSE Append(PathTo(parent, from, parent[to]), <<parent[to], to>>)
RECURSIVE Search(_, _, _, _)
Search(edges, from, to, s) ==
    IF s.queue = <<>> THEN NoPath
    ELSE LET current == Head(s.queue)
         IN  IF current = to THEN Plan(PathTo(s.parent, from, to))
             ELSE Search(edges, from, to,
                      EnqueueAll([s EXCEPT !.queue = Tail(@)], edges[current], current))
Start(from) == [queue |-> <<from>>, parent |-> [v \in {from} |-> from]]

Resolve(from, to) == Search(forward, from, to, Start(from))
CanRollback(from, to) == Search(backward, from, to, Start(from)).ok

\* find_entry takes the first entry of the pair.
Matching(hop) == SelectSeq(entries, LAMBDA e : <<e.from, e.to>> = hop)

\* migrate_chain and rollback_chain: the functions applied, or an error.
MigrateChain(from, to) ==
    LET plan == Resolve(from, to)
    IN  IF plan.ok /\ \A i \in DOMAIN plan.hops : Matching(plan.hops[i]) # <<>>
        THEN plan ELSE NoPath
RollbackChain(from, to) ==
    LET plan == Resolve(to, from)
        Undoes(hop) == Matching(hop) # <<>> /\ Head(Matching(hop)).rollback
    IN  IF plan.ok /\ \A i \in DOMAIN plan.hops : Undoes(plan.hops[i])
        THEN Plan([i \in DOMAIN plan.hops |->
                      LET hop == Reverse(plan.hops)[i] IN <<hop[2], hop[1]>>])
        ELSE NoPath

\* read_as_self: a record stored at version stored, read as version v.  The
\* fuel is the number of nested calls; a chain that needs more never ends.
Towards(v, stored) == IF stored < v THEN declared[v].from ELSE declared[v].back
RECURSIVE ReadWithin(_, _, _)
ReadWithin(fuel, v, stored) ==
    LET via == Towards(v, stored)
    IN  IF fuel = 0 THEN [st |-> "endless"]
        ELSE IF stored = v THEN [st |-> "ok", hops |-> <<>>]
        ELSE IF via = None THEN [st |-> "err"]
        ELSE LET r == ReadWithin(fuel - 1, via, stored)
             IN  IF r.st = "ok" THEN [r EXCEPT !.hops = Append(@, <<via, v>>)] ELSE r
ReadAsSelf(v, stored) == ReadWithin(Cardinality(Versions) + 1, v, stored)

-----------------------------------------------------------------------------
\* The versions n steps away along edges.
RECURSIVE Ring(_, _, _)
Ring(edges, from, n) ==
    IF n = 0 THEN {from} ELSE UNION {ToSet(edges[v]) : v \in Ring(edges, from, n - 1)}
Distances(edges, from, to) ==
    {n \in 0..Cardinality(Versions) : to \in Ring(edges, from, n)}

\* A walk along registered edges.
Walk(hops, from, to) ==
    /\ hops = <<>> => from = to
    /\ hops # <<>> => /\ hops[1][1] = from /\ hops[Len(hops)][2] = to
                      /\ \A i \in 1..(Len(hops) - 1) : hops[i][2] = hops[i + 1][1]
                      /\ \A i \in DOMAIN hops : hops[i][2] \in ToSet(forward[hops[i][1]])

\* resolve finds a plan exactly when the target can be reached, and the plan is
\* a shortest walk, whatever the order of registration and whatever cycles.
PlanShortest ==
    \A from, to \in Versions :
        LET plan == Resolve(from, to)
            ds == Distances(forward, from, to)
        IN  /\ plan.ok <=> ds # {}
            /\ plan.ok => /\ Walk(plan.hops, from, to)
                          /\ \A n \in ds : Len(plan.hops) <= n

\* What rollback_chain can undo, can_rollback announces; and it undoes, in the
\* opposite order, exactly the hops migrate_chain would apply.
RollbackSound ==
    \A from, to \in Versions :
        RollbackChain(from, to).ok =>
            /\ CanRollback(from, to)
            /\ MigrateChain(to, from).ok
            /\ RollbackChain(from, to).hops =
                   [i \in DOMAIN MigrateChain(to, from).hops |->
                       LET hop == Reverse(MigrateChain(to, from).hops)[i]
                       IN  <<hop[2], hop[1]>>]

\* No declared hop passes over the stored version.
NothingSkips(stored) ==
    \A v \in Versions : /\ declared[v].from # None /\ stored < v => stored <= declared[v].from
                        /\ declared[v].back # None /\ stored > v => stored >= declared[v].back

\* Unless a declared hop passes over the stored version, read_as_self ends; it
\* succeeds where every version on the way declares a hop; and it then applies
\* declared hops of one direction, from the stored version to the one asked for.
ReadsDirectly ==
    \A v, stored \in Versions : NothingSkips(stored) =>
        LET r == ReadAsSelf(v, stored)
            Hop(i) == declared[r.hops[i][2]]
            OnTheWay == {u \in Versions : (stored < u /\ u <= v) \/ (v <= u /\ u < stored)}
        IN  /\ r.st # "endless"
            /\ (\A u \in OnTheWay : Towards(u, stored) # None) => r.st = "ok"
            /\ r.st = "ok" /\ r.hops # <<>> =>
                   /\ r.hops[1][1] = stored /\ r.hops[Len(r.hops)][2] = v
                   /\ \A i \in DOMAIN r.hops :
                          r.hops[i][1] = IF stored < v THEN Hop(i).from ELSE Hop(i).back

\* The three facts together: a chain is resolved, undone and read along a shortest
\* walk of registered edges (resolve, rollback_chain, read_as_self).
MigrationSound == PlanShortest /\ RollbackSound /\ ReadsDirectly

\* What the module says of register_migration, "wire the version edge and
\* type-erased fn pointers into the registry": a declared step can be taken.
DeclaredMigrates ==
    \A v \in Versions : declared[v].from # None => MigrateChain(declared[v].from, v).ok

\* Every rollback that is announced can be carried out.
RollbackComplete ==
    \A from, to \in Versions : CanRollback(from, to) => RollbackChain(from, to).ok

\* read_as_self always ends.
ReadEnds == \A v, stored \in Versions : ReadAsSelf(v, stored).st # "endless"
=============================================================================
