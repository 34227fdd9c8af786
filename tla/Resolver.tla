------------------------------ MODULE Resolver ------------------------------
(***************************************************************************)
(* From unit files to a start order: unit.LoadDir, which drops disabled    *)
(* units, and resolver.Resolve, Kahn's algorithm over After and Requires   *)
(* with a queue kept sorted (src/services/internal/unit, resolver).        *)
(*                                                                         *)
(* Names are numbers in the order of the strings; 0 is a name no file      *)
(* declares.  A file is the name it declares, whether it parses and is     *)
(* enabled, and the union of its After and Requires, which is all that     *)
(* allDeps keeps.                                                          *)
(***************************************************************************)
EXTENDS Integers, Sequences, FiniteSets, FiniteSetsExt

CONSTANT UnitFiles      \* the sequences of unit files to resolve

ASSUME ResolverAssumption ==
    UnitFiles \subseteq Seq([name : Nat, parses : BOOLEAN, enabled : BOOLEAN, deps : SUBSET Nat])

VARIABLES
    unitFiles,  \* the files, in the order of Glob
    units,      \* the units LoadDir returned, as positions in unitFiles
    resolve,    \* "load", "validate", "kahn", "plan", or the error
    inDegree,   \* name -> dependencies not yet in the order
    queue,      \* the names with none, a set because the queue is sorted
    order       \* the start order

resolverVars == <<unitFiles, units, resolve, inDegree, queue, order>>

Declared == {unitFiles[i].name : i \in units}
allDeps(n) == unitFiles[CHOOSE i \in units : unitFiles[i].name = n].deps

ResolverInit ==
    /\ unitFiles \in UnitFiles
    /\ units = {} /\ resolve = "load"
    /\ inDegree = <<>> /\ queue = {} /\ order = <<>>

\* A file that does not parse fails them all.
LoadDir ==
    /\ resolve = "load"
    /\ \/ /\ \E i \in DOMAIN unitFiles : ~unitFiles[i].parses
          /\ resolve' = "unparsable"
          /\ UNCHANGED units
       \/ /\ \A i \in DOMAIN unitFiles : unitFiles[i].parses
          /\ units' = {i \in DOMAIN unitFiles : unitFiles[i].enabled}
          /\ resolve' = IF units' = {} THEN "empty" ELSE "validate"
    /\ UNCHANGED <<unitFiles, inDegree, queue, order>>

\* Duplicate names, unknown names, and the seed of the queue.
Validate ==
    /\ resolve = "validate"
    /\ \/ /\ \E i, j \in units : i # j /\ unitFiles[i].name = unitFiles[j].name
          /\ resolve' = "duplicate"
          /\ UNCHANGED <<inDegree, queue>>
       \/ /\ Cardinality(Declared) = Cardinality(units)
          /\ \E n \in Declared : ~(allDeps(n) \subseteq Declared)
          /\ resolve' = "unknown"
          /\ UNCHANGED <<inDegree, queue>>
       \/ /\ Cardinality(Declared) = Cardinality(units)
          /\ \A n \in Declared : allDeps(n) \subseteq Declared
          /\ resolve' = "kahn"
          /\ inDegree' = [n \in Declared |-> Cardinality(allDeps(n))]
          /\ queue' = {n \in Declared : allDeps(n) = {}}
    /\ UNCHANGED <<unitFiles, units, order>>

\* Pop the first name and release the units that waited for it alone.
Pop ==
    LET name == Min(queue)
        released == {d \in Declared : name \in allDeps(d) /\ inDegree[d] = 1}
    IN  /\ resolve = "kahn" /\ queue # {}
        /\ order' = Append(order, name)
        /\ inDegree' = [d \in Declared |-> IF name \in allDeps(d) THEN inDegree[d] - 1 ELSE inDegree[d]]
        /\ queue' = (queue \ {name}) \cup released
        /\ UNCHANGED <<unitFiles, units, resolve>>

\* A plausible slip: a cycle is looked for only when nothing could be ordered.
MutFinish ==
    /\ resolve = "kahn" /\ queue = {}
    /\ resolve' = IF order = <<>> THEN "cycle" ELSE "plan"
    /\ UNCHANGED <<unitFiles, units, inDegree, queue, order>>

\* Units left over are in a cycle or behind one.
Finish ==
    /\ resolve = "kahn" /\ queue = {}
    /\ resolve' = IF Len(order) # Cardinality(units) THEN "cycle" ELSE "plan"
    /\ UNCHANGED <<unitFiles, units, inDegree, queue, order>>

ResolverNext == LoadDir \/ Validate \/ Pop \/ Finish
ResolverSpec == ResolverInit /\ [][ResolverNext]_resolverVars

-----------------------------------------------------------------------------
\* Whatever the files say, every unit comes after all it depends on, and once:
\* this is what StartPlan and, in reverse, ShutdownPlan rely on.
OrderRespectsDeps ==
    \A i \in DOMAIN order :
        allDeps(order[i]) \subseteq {order[j] : j \in 1 .. i - 1}

\* Unit n depends on m, directly or through others: m is in every set that has the
\* dependencies of n and of its own members.
DependsOn(n, m) ==
    \A C \in SUBSET Declared :
        allDeps(n) \subseteq C /\ (\A k \in C : allDeps(k) \subseteq C) => m \in C

\* Resolve finds an order exactly when there is one (resolver.go:21-23): it
\* reports a cycle if and only if some unit depends on itself through others,
\* however much of the graph lies outside the cycle.
ResolvesIffAcyclic ==
    /\ resolve = "plan" => Range(order) = Declared /\ \A n \in Declared : ~DependsOn(n, n)
    /\ resolve = "cycle" => \E n \in Declared : DependsOn(n, n)

\* The two together: the plan is a right order, and there is one whenever there
\* can be (resolver.go:25-93).
PlanIsRight == OrderRespectsDeps /\ ResolvesIffAcyclic
=============================================================================
