-------------------------- MODULE TopologicalOrdering --------------------------
(***************************************************************************)
(* Package mcg/graph: a directed graph that callers build with AddNode and *)
(* AddEdge and then order with one of the four entry points, which share   *)
(* the depth-first search topologicalOrdering.  MCG orders with it the     *)
(* dependencies of sources and triggers, of expression nodes, of types to  *)
(* infer, and of proto files.                                              *)
(*                                                                         *)
(* The recursive search is a state machine with an explicit call stack.    *)
(* Go iterates over maps in any order: `\E` over what is left, unless the  *)
(* entry point is one of the stable ones, which sort first.                *)
(***************************************************************************)
EXTENDS Integers, Sequences

CONSTANT Nodes    \* all nodes there may be; cmp.Ordered, here integers

ASSUME NodesAssumption == Nodes \subseteq Int

VARIABLES
  nodes,       \* keys of Graph.nodes
  neighbors,   \* neighbors[n]: keys of Graph.nodes[n]
  phase,       \* "build", "search", "ok" (order returned), "cycle" (error)
  stable,      \* a Stable... entry point was called
  reverse,     \* a ...Reverse... entry point was called
  todo,        \* nodes the entry point's loop has not come to
  states,      \* the map states
  path,        \* the slice path
  stack,       \* calls of topologicalOrdering: node, neighbors still to visit
  result,      \* the slice result
  cycle        \* CyclicGraphError.cycle

graphVars == <<nodes, neighbors>>
callVars  == <<stable, reverse>>
vars == <<graphVars, phase, callVars, todo, states, path, stack, result, cycle>>

Frame == [from : Nodes, rest : SUBSET Nodes]

TypeOK ==
  /\ nodes \subseteq Nodes
  /\ neighbors \in [Nodes -> SUBSET Nodes]
  /\ phase \in {"build", "search", "ok", "cycle"}
  /\ stable \in BOOLEAN
  /\ reverse \in BOOLEAN
  /\ todo \subseteq Nodes
  /\ states \in [Nodes -> {"unvisited", "visiting", "visited"}]
  /\ path \in Seq(Nodes)
  /\ stack \in Seq(Frame)
  /\ result \in Seq(Nodes)
  /\ cycle \in Seq(Nodes)

\* NewGraph.
Init ==
  /\ nodes = {}
  /\ neighbors = [n \in Nodes |-> {}]
  /\ phase = "build"
  /\ stable = FALSE
  /\ reverse = FALSE
  /\ todo = {}
  /\ states = [n \in Nodes |-> "unvisited"]
  /\ path = << >>
  /\ stack = << >>
  /\ result = << >>
  /\ cycle = << >>

-----------------------------------------------------------------------------
(* graph.go *)

AddNode(n) ==
  /\ phase = "build"
  /\ nodes' = nodes \cup {n}
  /\ UNCHANGED <<neighbors, phase, callVars, todo, states, path, stack, result, cycle>>

\* Mutant: the target of an edge is not added as a node.
AddEdgeFromOnly(from, to) ==
  /\ phase = "build"
  /\ nodes' = nodes \cup {from}
  /\ neighbors' = [neighbors EXCEPT ![from] = @ \cup {to}]
  /\ UNCHANGED <<phase, callVars, todo, states, path, stack, result, cycle>>

AddEdge(from, to) ==
  /\ phase = "build"
  /\ nodes' = nodes \cup {from, to}
  /\ neighbors' = [neighbors EXCEPT ![from] = @ \cup {to}]
  /\ UNCHANGED <<phase, callVars, todo, states, path, stack, result, cycle>>

-----------------------------------------------------------------------------
(* topological_ordering.go *)

\* The entry points up to their loop.
Order(isStable, isReverse) ==
  /\ phase = "build"
  /\ phase' = "search"
  /\ stable' = isStable
  /\ reverse' = isReverse
  /\ todo' = nodes
  /\ UNCHANGED <<graphVars, states, path, stack, result, cycle>>

\* n is one the iteration over S may come to next.
NextOf(S, n) ==
  /\ n \in S
  /\ stable => \A m \in S : n <= m

Last(s) == s[Len(s)]
DropLast(s) == [i \in 1..(Len(s) - 1) |-> s[i]]
Prepend(x, s) == [i \in 1..(Len(s) + 1) |-> IF i = 1 THEN x ELSE s[i - 1]]
Reversed(s) == [i \in 1..Len(s) |-> s[Len(s) + 1 - i]]
From(s, i) == [j \in 1..(Len(s) - i + 1) |-> s[j + i - 1]]

\* A call of topologicalOrdering(from, ...) up to its loop.
Enter(from, calls) ==
  /\ states' = [states EXCEPT ![from] = "visiting"]
  /\ path' = Append(path, from)
  /\ stack' = Append(calls, [from |-> from, rest |-> neighbors[from]])

\* The loop of the entry point: a call, on a fresh path, for every node that
\* no earlier call has reached.
NextRoot(n) ==
  /\ phase = "search"
  /\ stack = << >>
  /\ NextOf(todo, n)
  /\ todo' = todo \ {n}
  /\ IF states[n] = "unvisited"
     THEN Enter(n, stack)
     ELSE UNCHANGED <<states, path, stack>>
  /\ UNCHANGED <<graphVars, phase, callVars, result, cycle>>

\* The loop over the neighbors, in the innermost call, comes to `to`.
Comes(to) ==
  /\ phase = "search"
  /\ stack # << >>
  /\ NextOf(Last(stack).rest, to)

\* The calls with `to` taken off the neighbors still to visit.
Visited(to) == [stack EXCEPT ![Len(stack)].rest = @ \ {to}]

VisitUnvisited(to) ==
  /\ Comes(to)
  /\ states[to] = "unvisited"
  /\ Enter(to, Visited(to))
  /\ UNCHANGED <<graphVars, phase, callVars, todo, result, cycle>>

\* Mutant: the part of the path that leads to the cycle is kept.
VisitVisitingWholePath(to) ==
  /\ Comes(to)
  /\ states[to] = "visiting"
  /\ cycle' = path
  /\ phase' = "cycle"
  /\ UNCHANGED <<graphVars, callVars, todo, states, path, stack, result>>

\* slices.Index finds the first place of `to` in the path.  The error passes
\* through all calls and the entry point.
VisitVisiting(to) ==
  /\ Comes(to)
  /\ states[to] = "visiting"
  /\ \E i \in 1..Len(path) :
       /\ path[i] = to
       /\ \A j \in 1..(i - 1) : path[j] # to
       /\ cycle' = From(path, i)
  /\ phase' = "cycle"
  /\ UNCHANGED <<graphVars, callVars, todo, states, path, stack, result>>

VisitVisited(to) ==
  /\ Comes(to)
  /\ states[to] = "visited"
  /\ stack' = Visited(to)
  /\ UNCHANGED <<graphVars, phase, callVars, todo, states, path, result, cycle>>

\* Mutant: the node goes to the end of the result.
ExitAppending ==
  /\ phase = "search"
  /\ stack # << >>
  /\ Last(stack).rest = {}
  /\ states' = [states EXCEPT ![Last(stack).from] = "visited"]
  /\ path' = DropLast(path)
  /\ result' = Append(result, Last(stack).from)
  /\ stack' = DropLast(stack)
  /\ UNCHANGED <<graphVars, phase, callVars, todo, cycle>>

\* Mutant: the node is never marked as visited, so a second way to it finds
\* it "visiting" and not in the path.
ExitWithoutVisited ==
  /\ phase = "search"
  /\ stack # << >>
  /\ Last(stack).rest = {}
  /\ path' = DropLast(path)
  /\ result' = Prepend(Last(stack).from, result)
  /\ stack' = DropLast(stack)
  /\ UNCHANGED <<graphVars, phase, callVars, todo, states, cycle>>

\* The end of a call.
Exit ==
  /\ phase = "search"
  /\ stack # << >>
  /\ Last(stack).rest = {}
  /\ states' = [states EXCEPT ![Last(stack).from] = "visited"]
  /\ path' = DropLast(path)
  /\ result' = Prepend(Last(stack).from, result)
  /\ stack' = DropLast(stack)
  /\ UNCHANGED <<graphVars, phase, callVars, todo, cycle>>

\* The entry point returns; the reverse ones apply slices.Reverse.
Finish ==
  /\ phase = "search"
  /\ stack = << >>
  /\ todo = {}
  /\ phase' = "ok"
  /\ result' = IF reverse THEN Reversed(result) ELSE result
  /\ UNCHANGED <<graphVars, callVars, todo, states, path, stack, cycle>>

Step ==
  \/ \E n \in Nodes :
       NextRoot(n) \/ VisitUnvisited(n) \/ VisitVisiting(n) \/ VisitVisited(n)
  \/ Exit
  \/ Finish

Next ==
  \/ \E n \in Nodes : AddNode(n)
  \/ \E n, m \in Nodes : AddEdge(n, m)
  \/ \E s, r \in BOOLEAN : Order(s, r)
  \/ Step

Spec == Init /\ [][Next]_vars

FairSpec == Spec /\ WF_vars(Step)

-----------------------------------------------------------------------------
\* a occurs before b in s.
Before(s, a, b) ==
  \E i, j \in 1..Len(s) : i < j /\ s[i] = a /\ s[j] = b

(* The doc comments of the entry points: with an edge from A to B, A occurs
   before B in the order, or after it in a reversed one; and the order has
   every node of the graph once. *)
OrderIsTopological ==
  phase = "ok" =>
    /\ {result[i] : i \in 1..Len(result)} = nodes
    /\ \A i, j \in 1..Len(result) : result[i] = result[j] => i = j
    /\ \A a \in nodes : \A b \in neighbors[a] :
         IF reverse THEN Before(result, b, a) ELSE Before(result, a, b)

(* The nodes of a CyclicGraphError are a cycle of the graph, without a node
   twice: what the error message prints from first to last and back to the
   first follows edges.  In particular e.cycle[0] exists. *)
CycleIsReal ==
  phase = "cycle" =>
    /\ Len(cycle) > 0
    /\ \A i \in 1..(Len(cycle) - 1) : cycle[i + 1] \in neighbors[cycle[i]]
    /\ cycle[1] \in neighbors[cycle[Len(cycle)]]
    /\ \A i, j \in 1..Len(cycle) : cycle[i] = cycle[j] => i = j

(* The search of any graph comes to an end. *)
SearchEnds == phase = "search" ~> phase \in {"ok", "cycle"}

-----------------------------------------------------------------------------
(* The parts of the inductive invariant. *)

GraphClosed ==
  \A n \in Nodes : /\ neighbors[n] \subseteq nodes
                   /\ n \notin nodes => neighbors[n] = {}

PathIsStack ==
  /\ Len(path) = Len(stack)
  /\ \A i \in 1..Len(stack) : path[i] = stack[i].from

PathIsVisiting ==
  /\ \A n \in Nodes : states[n] = "visiting" <=> \E i \in 1..Len(path) : path[i] = n
  /\ \A i, j \in 1..Len(path) : path[i] = path[j] => i = j

Explored ==
  \A i \in 1..Len(stack) :
    /\ stack[i].rest \subseteq neighbors[path[i]]
    /\ \A to \in neighbors[path[i]] \ stack[i].rest :
         states[to] = "visited" \/ (i < Len(path) /\ path[i + 1] = to)
    /\ i < Len(path) => path[i + 1] \in neighbors[path[i]]

ResultIsVisited ==
  /\ \A n \in Nodes : states[n] = "visited" <=> \E i \in 1..Len(result) : result[i] = n
  /\ \A i, j \in 1..Len(result) : result[i] = result[j] => i = j

ResultClosed ==
  \A i \in 1..Len(result) : \A m \in neighbors[result[i]] :
    \E j \in 1..Len(result) : i < j /\ result[j] = m

Reached ==
  /\ todo \subseteq nodes
  /\ \A n \in Nodes : states[n] # "unvisited" => n \in nodes
  /\ \A n \in nodes : states[n] = "unvisited" /\ phase = "search" => n \in todo

BuildInv == phase = "build" => result = << >> /\ path = << >>

(* During the search the path is the chain of calls (PathIsStack), each call
   was made along an edge and what it has taken off its neighbors is finished
   or is the call below it (Explored), the states say where a node is, and
   the result is closed under successors, all of which come later in it
   (ResultClosed).  Every node of an edge is a node of the graph, so the
   search reaches nothing the entry point does not know (GraphClosed). *)
SearchInv ==
  /\ GraphClosed
  /\ Reached
  /\ PathIsStack
  /\ PathIsVisiting
  /\ Explored
  /\ ResultIsVisited
  /\ BuildInv
  /\ phase # "ok" => ResultClosed

IInv ==
  /\ TypeOK
  /\ SearchInv
  /\ OrderIsTopological
  /\ CycleIsReal
=============================================================================
