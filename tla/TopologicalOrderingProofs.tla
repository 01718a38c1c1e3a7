----------------------- MODULE TopologicalOrderingProofs -----------------------
(***************************************************************************)
(* Proofs about the depth-first search of mcg/graph, for every graph and   *)
(* every iteration order.                                                  *)
(***************************************************************************)
EXTENDS TopologicalOrdering, TLAPS

-----------------------------------------------------------------------------
(* Facts about the slice operations. *)

(* Cutting the last element off a slice keeps the others in place. *)
LEMMA DropLastFacts ==
  ASSUME NEW S, NEW s \in Seq(S), s # << >>
  PROVE  /\ DropLast(s) \in Seq(S)
         /\ Len(DropLast(s)) = Len(s) - 1
         /\ \A i \in 1..(Len(s) - 1) : DropLast(s)[i] = s[i]
         /\ Len(s) \in Nat \ {0}
         /\ Last(s) \in S
  BY DEF DropLast, Last

(* slices.Insert(result, 0, x) shifts every element by one place. *)
LEMMA PrependFacts ==
  ASSUME NEW S, NEW s \in Seq(S), NEW x \in S
  PROVE  /\ Prepend(x, s) \in Seq(S)
         /\ Len(Prepend(x, s)) = Len(s) + 1
         /\ Prepend(x, s)[1] = x
         /\ \A i \in 1..Len(s) : Prepend(x, s)[i + 1] = s[i]
         /\ \A i \in 2..(Len(s) + 1) : Prepend(x, s)[i] = s[i - 1]
  BY DEF Prepend

(* The slice path[i:] of the path. *)
LEMMA FromFacts ==
  ASSUME NEW S, NEW s \in Seq(S), NEW i \in 1..Len(s)
  PROVE  /\ From(s, i) \in Seq(S)
         /\ Len(From(s, i)) = Len(s) - i + 1
         /\ \A j \in 1..(Len(s) - i + 1) : From(s, i)[j] = s[j + i - 1]
  BY DEF From

(* slices.Reverse: element i comes from the mirrored place. *)
LEMMA ReversedFacts ==
  ASSUME NEW S, NEW s \in Seq(S)
  PROVE  /\ Reversed(s) \in Seq(S)
         /\ Len(Reversed(s)) = Len(s)
         /\ \A i \in 1..Len(s) : /\ Len(s) + 1 - i \in 1..Len(s)
                                 /\ Reversed(s)[i] = s[Len(s) + 1 - i]
                                 /\ Reversed(s)[Len(s) + 1 - i] = s[i]
  BY DEF Reversed

(* append adds one element at the end. *)
LEMMA AppendFacts ==
  ASSUME NEW S, NEW s \in Seq(S), NEW x \in S
  PROVE  /\ Append(s, x) \in Seq(S)
         /\ Len(Append(s, x)) = Len(s) + 1
         /\ \A i \in 1..Len(s) : Append(s, x)[i] = s[i]
         /\ Append(s, x)[Len(s) + 1] = x
         /\ Len(s) \in Nat
  OBVIOUS

(* Taking a neighbor off the list of the innermost call leaves the rest of
   the call stack alone. *)
LEMMA VisitedFacts ==
  ASSUME TypeOK, stack # << >>, NEW to
  PROVE  /\ Visited(to) \in Seq(Frame)
         /\ Len(Visited(to)) = Len(stack)
         /\ Len(stack) \in Nat \ {0}
         /\ \A i \in 1..Len(stack) : Visited(to)[i].from = stack[i].from
         /\ \A i \in 1..Len(stack) : i < Len(stack) => Visited(to)[i].rest = stack[i].rest
         /\ Visited(to)[Len(stack)].rest = stack[Len(stack)].rest \ {to}
  <1> DEFINE n == Len(stack)
  <1>1. stack \in Seq(Frame) /\ n \in Nat \ {0} /\ n \in 1..Len(stack)
    BY DEF TypeOK
  <1>2. stack[n] \in Frame
    BY <1>1
  <1>3. [stack[n] EXCEPT !.rest = @ \ {to}] \in Frame
    BY <1>2 DEF Frame
  <1>4. Visited(to) = [stack EXCEPT ![n] = [stack[n] EXCEPT !.rest = @ \ {to}]]
    BY <1>1 DEF Visited
  <1>6. Visited(to) \in Seq(Frame) /\ Len(Visited(to)) = Len(stack)
    BY <1>1, <1>3, <1>4
  <1>7. /\ Visited(to)[n].from = stack[n].from
        /\ Visited(to)[n].rest = stack[n].rest \ {to}
    BY <1>1, <1>2, <1>4 DEF Frame
  <1>8. \A i \in 1..Len(stack) : i # n => Visited(to)[i] = stack[i]
    BY <1>1, <1>4
  <1> QED
    BY <1>1, <1>6, <1>7, <1>8

-----------------------------------------------------------------------------
(* NewGraph respects the types. *)
LEMMA TypeInit == Init => TypeOK
<1> SUFFICES ASSUME Init PROVE TypeOK
  OBVIOUS
<1>1. stable \in BOOLEAN /\ reverse \in BOOLEAN
  BY Zenon DEF Init
<1>2. << >> \in Seq(Nodes) /\ << >> \in Seq(Frame)
  OBVIOUS
<1> QED
  BY <1>1, <1>2 DEF Init, TypeOK

(* Every step of the search respects the types. *)
LEMMA TypeStep == TypeOK /\ [Next]_vars => TypeOK'
<1> SUFFICES ASSUME TypeOK, [Next]_vars PROVE TypeOK'
  OBVIOUS
<1>1. CASE UNCHANGED vars
  BY <1>1 DEF TypeOK, vars, graphVars, callVars
<1>2. ASSUME NEW n \in Nodes, AddNode(n) PROVE TypeOK'
  BY <1>2 DEF TypeOK, AddNode, callVars
<1>3. ASSUME NEW n \in Nodes, NEW m \in Nodes, AddEdge(n, m) PROVE TypeOK'
  BY <1>3 DEF TypeOK, AddEdge, callVars
<1>4. ASSUME NEW s \in BOOLEAN, NEW r \in BOOLEAN, Order(s, r) PROVE TypeOK'
  BY <1>4 DEF TypeOK, Order, graphVars
<1>5. ASSUME NEW n \in Nodes, NEW calls \in Seq(Frame), Enter(n, calls)
      PROVE  /\ states' \in [Nodes -> {"unvisited", "visiting", "visited"}]
             /\ path' \in Seq(Nodes)
             /\ stack' \in Seq(Frame)
  <2>1. [from |-> n, rest |-> neighbors[n]] \in Frame
    BY DEF Frame, TypeOK
  <2> QED
    BY <1>5, <2>1, AppendFacts DEF Enter, TypeOK
<1>6. ASSUME NEW n \in Nodes, NextRoot(n) PROVE TypeOK'
  BY <1>5, <1>6 DEF TypeOK, NextRoot, graphVars, callVars
<1>7. ASSUME NEW n \in Nodes, VisitUnvisited(n) PROVE TypeOK'
  <2>1. Visited(n) \in Seq(Frame)
    BY <1>7, VisitedFacts DEF VisitUnvisited, Comes
  <2> QED
    BY <1>5, <1>7, <2>1 DEF TypeOK, VisitUnvisited, graphVars, callVars
<1>8. ASSUME NEW n \in Nodes, VisitVisiting(n) PROVE TypeOK'
  <2>1. cycle' \in Seq(Nodes)
    BY <1>8, FromFacts DEF TypeOK, VisitVisiting
  <2> QED
    BY <1>8, <2>1 DEF TypeOK, VisitVisiting, graphVars, callVars
<1>9. ASSUME NEW n \in Nodes, VisitVisited(n) PROVE TypeOK'
  <2>1. Visited(n) \in Seq(Frame)
    BY <1>9, VisitedFacts DEF VisitVisited, Comes
  <2> QED
    BY <1>9, <2>1 DEF TypeOK, VisitVisited, graphVars, callVars
<1>10. CASE Exit
  <2>1. Last(stack) \in Frame /\ DropLast(stack) \in Seq(Frame)
    BY <1>10, DropLastFacts DEF TypeOK, Exit
  <2>2. Last(stack).from \in Nodes
    BY <2>1 DEF Frame
  <2>3. Prepend(Last(stack).from, result) \in Seq(Nodes)
    BY <2>2, PrependFacts DEF TypeOK
  <2>4. DropLast(path) \in Seq(Nodes)
    BY DEF TypeOK, DropLast
  <2> QED
    BY <1>10, <2>1, <2>2, <2>3, <2>4 DEF TypeOK, Exit, graphVars, callVars
<1>11. CASE Finish
  <2>1. Reversed(result) \in Seq(Nodes)
    BY ReversedFacts DEF TypeOK
  <2> QED
    BY <1>11, <2>1 DEF TypeOK, Finish, graphVars, callVars
<1> QED
  BY <1>1, <1>2, <1>3, <1>4, <1>6, <1>7, <1>8, <1>9, <1>10, <1>11 DEF Next, Step

(* The variables of the search keep their types. *)
THEOREM TypeCorrect == Spec => []TypeOK
<1>1. Init => TypeOK
  BY TypeInit
<1>2. TypeOK /\ [Next]_vars => TypeOK'
  BY TypeStep
<1> QED
  BY <1>1, <1>2, PTL DEF Spec

-----------------------------------------------------------------------------
(* NewGraph satisfies the inductive invariant. *)
LEMMA InvInit == Init => IInv
<1> SUFFICES ASSUME Init PROVE IInv
  OBVIOUS
<1>1. TypeOK
  BY TypeInit
<1>2. Len(path) = 0 /\ Len(stack) = 0 /\ Len(result) = 0
  BY DEF Init
<1>3. \A n \in Nodes : states[n] = "unvisited" /\ neighbors[n] = {}
  BY DEF Init
<1>4. SearchInv
  BY <1>2, <1>3 DEF Init, SearchInv, GraphClosed, Reached, PathIsStack, PathIsVisiting,
         Explored, ResultIsVisited, BuildInv, ResultClosed
<1>5. OrderIsTopological /\ CycleIsReal
  BY DEF Init, OrderIsTopological, CycleIsReal
<1> QED
  BY <1>1, <1>4, <1>5 DEF IInv

(* Building the graph and calling an entry point: nothing is visited yet. *)
LEMMA BuildStep ==
  ASSUME IInv,
         \/ \E n \in Nodes : AddNode(n)
         \/ \E n, m \in Nodes : AddEdge(n, m)
         \/ \E s, r \in BOOLEAN : Order(s, r)
  PROVE  SearchInv' /\ OrderIsTopological' /\ CycleIsReal'
<1>1. /\ phase = "build" /\ phase' \in {"build", "search"}
      /\ states' = states /\ path' = path /\ stack' = stack /\ result' = result
  BY DEF AddNode, AddEdge, Order, graphVars, callVars
<1>2. path = << >> /\ result = << >> /\ Len(path) = 0 /\ Len(stack) = 0 /\ Len(result) = 0
  BY <1>1 DEF IInv, SearchInv, BuildInv, PathIsStack
<1>3. \A n \in Nodes : states[n] = "unvisited"
  <2>1. \A n \in Nodes : states[n] \in {"unvisited", "visiting", "visited"}
    BY DEF IInv, TypeOK
  <2>2. ~\E i \in 1..Len(path) : TRUE
    BY <1>2
  <2>3. ~\E i \in 1..Len(result) : TRUE
    BY <1>2
  <2>4. \A n \in Nodes : states[n] # "visiting"
    BY <2>2, Zenon DEF IInv, SearchInv, PathIsVisiting
  <2>5. \A n \in Nodes : states[n] # "visited"
    BY <2>3, Zenon DEF IInv, SearchInv, ResultIsVisited
  <2> QED
    BY <2>1, <2>4, <2>5
<1>4. GraphClosed'
  BY DEF AddNode, AddEdge, Order, graphVars, callVars, IInv, TypeOK, SearchInv, GraphClosed
<1>5. Reached'
  BY <1>1, <1>3 DEF AddNode, AddEdge, Order, graphVars, callVars, IInv, TypeOK, SearchInv, Reached
<1>6. PathIsStack' /\ PathIsVisiting' /\ Explored' /\ ResultIsVisited' /\ BuildInv' /\ ResultClosed'
  BY <1>1, <1>2, <1>3 DEF PathIsStack, PathIsVisiting, Explored, ResultIsVisited, BuildInv, ResultClosed
<1> QED
  BY <1>1, <1>4, <1>5, <1>6 DEF SearchInv, OrderIsTopological, CycleIsReal

(* A new call, for the first time on an unvisited node: it extends the path
   and leaves the result alone. *)
LEMMA EnterStep ==
  ASSUME IInv, phase = "search", phase' = phase, UNCHANGED <<graphVars, result>>,
         NEW n \in nodes, states[n] = "unvisited",
         NEW calls \in Seq(Frame), Enter(n, calls),
         Len(calls) = Len(stack),
         \A i \in 1..Len(stack) : calls[i].from = stack[i].from,
         \A i \in 1..Len(stack) : i < Len(stack) => calls[i].rest = stack[i].rest,
         stack # << >> => /\ n \in stack[Len(stack)].rest
                          /\ calls[Len(stack)].rest = stack[Len(stack)].rest \ {n}
  PROVE  PathIsStack' /\ PathIsVisiting' /\ Explored' /\ ResultIsVisited' /\ ResultClosed'
<1> DEFINE k == Len(stack)
<1>1. /\ n \in Nodes /\ stack \in Seq(Frame) /\ path \in Seq(Nodes) /\ k \in Nat
      /\ Len(path) = k
  BY DEF IInv, TypeOK, SearchInv, PathIsStack
<1>2. [from |-> n, rest |-> neighbors[n]] \in Frame
  BY <1>1 DEF IInv, TypeOK, Frame
<1>3. /\ path' = Append(path, n) /\ Len(path') = k + 1
      /\ \A i \in 1..k : path'[i] = path[i]
      /\ path'[k + 1] = n
  BY <1>1, AppendFacts DEF Enter
<1>4. /\ Len(stack') = k + 1
      /\ \A i \in 1..k : stack'[i] = calls[i]
      /\ stack'[k + 1] = [from |-> n, rest |-> neighbors[n]]
  BY <1>1, <1>2, AppendFacts DEF Enter
<1>5. states' = [states EXCEPT ![n] = "visiting"] /\ states \in [Nodes -> {"unvisited", "visiting", "visited"}]
  BY DEF Enter, IInv, TypeOK
<1>6. PathIsStack'
  BY <1>1, <1>3, <1>4 DEF IInv, SearchInv, PathIsStack
<1>7. PathIsVisiting'
  <2>1. \A i \in 1..k : path[i] \in Nodes /\ states[path[i]] = "visiting" /\ path[i] # n
    BY <1>1 DEF IInv, SearchInv, PathIsVisiting
  <2>2. \A m \in Nodes : states'[m] = "visiting" <=> \E i \in 1..Len(path') : path'[i] = m
    BY <1>1, <1>3, <1>5, <2>1 DEF IInv, SearchInv, PathIsVisiting
  <2>3. \A i, j \in 1..Len(path') : path'[i] = path'[j] => i = j
    BY <1>1, <1>3, <2>1 DEF IInv, SearchInv, PathIsVisiting
  <2> QED
    BY <2>2, <2>3 DEF PathIsVisiting
<1>8. Explored'
  <2> SUFFICES ASSUME NEW i \in 1..(k + 1)
               PROVE  /\ stack'[i].rest \subseteq neighbors[path'[i]]
                      /\ \A to \in neighbors[path'[i]] \ stack'[i].rest :
                           states'[to] = "visited" \/ (i < k + 1 /\ path'[i + 1] = to)
                      /\ i < k + 1 => path'[i + 1] \in neighbors[path'[i]]
    BY <1>3, <1>4 DEF Explored, graphVars
  <2>1. CASE i = k + 1
    BY <1>1, <1>3, <1>4, <2>1
  <2>2. CASE i \in 1..k
    <3>1. /\ path'[i] = path[i] /\ stack'[i].rest = calls[i].rest
          /\ stack[i].rest \subseteq neighbors[path[i]]
          /\ path[i] \in Nodes /\ neighbors[path[i]] \subseteq Nodes
          /\ \A to \in neighbors[path[i]] \ stack[i].rest :
               states[to] = "visited" \/ (i < k /\ path[i + 1] = to)
          /\ i < k => path[i + 1] \in neighbors[path[i]]
      BY <1>1, <1>3, <1>4, <2>2 DEF IInv, TypeOK, SearchInv, Explored
    <3>2. \A to \in Nodes : states[to] = "visited" => states'[to] = "visited"
      BY <1>5
    <3>3. CASE i < k
      <4>1. calls[i].rest = stack[i].rest /\ path'[i + 1] = path[i + 1]
        BY <1>1, <1>3, <2>2, <3>3
      <4> QED
        BY <1>1, <3>1, <3>2, <3>3, <4>1
    <3>4. CASE i = k
      <4>1. stack # << >> /\ n \in stack[i].rest /\ calls[i].rest = stack[i].rest \ {n}
        BY <1>1, <2>2, <3>4
      <4> QED
        BY <1>1, <1>3, <3>1, <3>2, <3>4, <4>1
    <3> QED
      BY <1>1, <2>2, <3>3, <3>4
  <2> QED
    BY <1>1, <2>1, <2>2
<1>9. ResultIsVisited' /\ ResultClosed'
  BY <1>5 DEF IInv, SearchInv, ResultIsVisited, ResultClosed, graphVars
<1> QED
  BY <1>6, <1>7, <1>8, <1>9

(* The loop of the entry point keeps the invariant. *)
LEMMA NextRootStep ==
  ASSUME IInv, NEW n \in Nodes, NextRoot(n)
  PROVE  SearchInv' /\ OrderIsTopological' /\ CycleIsReal'
<1>1. /\ phase = "search" /\ phase' = phase /\ UNCHANGED <<graphVars, result>>
      /\ todo' = todo \ {n} /\ n \in todo /\ stack = << >>
  BY DEF NextRoot, NextOf
<1>2. OrderIsTopological' /\ CycleIsReal' /\ GraphClosed' /\ BuildInv'
  BY <1>1 DEF OrderIsTopological, CycleIsReal, IInv, SearchInv, GraphClosed, BuildInv, graphVars
<1>3. CASE states[n] = "unvisited" /\ n \in nodes
  <2>1. Enter(n, stack)
    BY <1>3 DEF NextRoot
  <2>2. PathIsStack' /\ PathIsVisiting' /\ Explored' /\ ResultIsVisited' /\ ResultClosed'
    BY <1>1, <1>3, <2>1, EnterStep DEF IInv, TypeOK
  <2>3. Reached'
    BY <1>1, <1>3, <2>1 DEF Enter, IInv, TypeOK, SearchInv, Reached, graphVars
  <2> QED
    BY <1>2, <2>2, <2>3 DEF SearchInv
<1>4. CASE states[n] # "unvisited"
  <2>1. UNCHANGED <<states, path, stack>>
    BY <1>4 DEF NextRoot
  <2>2. Reached'
    BY <1>1, <1>4, <2>1 DEF IInv, SearchInv, Reached, graphVars
  <2> QED
    BY <1>1, <1>2, <2>1, <2>2 DEF IInv, SearchInv, PathIsStack, PathIsVisiting, Explored,
       ResultIsVisited, ResultClosed, graphVars
<1> QED
  BY <1>1, <1>3, <1>4 DEF IInv, SearchInv, Reached

(* A neighbor that was not reached before is entered. *)
LEMMA VisitUnvisitedStep ==
  ASSUME IInv, NEW n \in Nodes, VisitUnvisited(n)
  PROVE  SearchInv' /\ OrderIsTopological' /\ CycleIsReal'
<1>1. /\ phase = "search" /\ phase' = phase /\ UNCHANGED <<graphVars, result, todo>>
      /\ n \in stack[Len(stack)].rest /\ stack # << >>
      /\ states[n] = "unvisited" /\ Enter(n, Visited(n))
  BY DEF VisitUnvisited, Comes, NextOf, Last
<1>2. OrderIsTopological' /\ CycleIsReal' /\ GraphClosed' /\ BuildInv'
  BY <1>1 DEF OrderIsTopological, CycleIsReal, IInv, SearchInv, GraphClosed, BuildInv, graphVars
<1>3. n \in nodes
  <2>1. Len(stack) \in 1..Len(stack) /\ Len(stack) \in 1..Len(path)
    BY <1>1, VisitedFacts DEF IInv, SearchInv, PathIsStack
  <2>2. path[Len(stack)] \in Nodes /\ n \in neighbors[path[Len(stack)]]
    BY <1>1, <2>1 DEF IInv, TypeOK, SearchInv, Explored
  <2> QED
    BY <2>2 DEF IInv, SearchInv, GraphClosed
<1>4. /\ Visited(n) \in Seq(Frame) /\ Len(Visited(n)) = Len(stack)
      /\ \A i \in 1..Len(stack) : Visited(n)[i].from = stack[i].from
      /\ \A i \in 1..Len(stack) : i < Len(stack) => Visited(n)[i].rest = stack[i].rest
      /\ Visited(n)[Len(stack)].rest = stack[Len(stack)].rest \ {n}
  BY <1>1, VisitedFacts DEF IInv
<1>5. PathIsStack' /\ PathIsVisiting' /\ Explored' /\ ResultIsVisited' /\ ResultClosed'
  BY <1>1, <1>3, <1>4, EnterStep
<1>6. Reached'
  BY <1>1, <1>3 DEF Enter, IInv, TypeOK, SearchInv, Reached, graphVars
<1> QED
  BY <1>2, <1>5, <1>6 DEF SearchInv

(* A neighbor on the path closes a cycle: the path from it to the innermost
   call, and the edge back. *)
LEMMA VisitVisitingStep ==
  ASSUME IInv, NEW n \in Nodes, VisitVisiting(n)
  PROVE  SearchInv' /\ OrderIsTopological' /\ CycleIsReal'
<1>1. /\ phase = "search" /\ phase' = "cycle"
      /\ UNCHANGED <<graphVars, states, path, stack, result>>
      /\ n \in stack[Len(stack)].rest /\ stack # << >>
  BY DEF VisitVisiting, Comes, NextOf, Last
<1>2. SearchInv'
  <2>1. GraphClosed' /\ Reached' /\ BuildInv'
    BY <1>1 DEF VisitVisiting, IInv, SearchInv, GraphClosed, Reached, BuildInv, graphVars
  <2>2. PathIsStack' /\ PathIsVisiting' /\ Explored'
    BY <1>1 DEF IInv, SearchInv, PathIsStack, PathIsVisiting, Explored, graphVars
  <2>3. ResultIsVisited' /\ ResultClosed'
    BY <1>1 DEF IInv, SearchInv, ResultIsVisited, ResultClosed, graphVars
  <2> QED
    BY <2>1, <2>2, <2>3 DEF SearchInv
<1>3. CycleIsReal'
  <2>1. PICK i \in 1..Len(path) : path[i] = n /\ cycle' = From(path, i)
    BY DEF VisitVisiting
  <2> DEFINE k == Len(path)
  <2>2. path \in Seq(Nodes) /\ k \in Nat /\ Len(stack) = k /\ i \in 1..k /\ k \in 1..k
    BY DEF IInv, TypeOK, SearchInv, PathIsStack
  <2>3. Len(cycle') = k - i + 1 /\ \A j \in 1..(k - i + 1) : cycle'[j] = path[j + i - 1]
    BY <2>1, <2>2, FromFacts
  <2>4. n \in neighbors[path[k]]
    BY <1>1, <2>2 DEF IInv, SearchInv, Explored
  <2>5. \A j \in 1..(k - 1) : path[j + 1] \in neighbors[path[j]]
    BY <2>2 DEF IInv, SearchInv, Explored
  <2>6. \A j, l \in 1..k : path[j] = path[l] => j = l
    BY DEF IInv, SearchInv, PathIsVisiting
  <2>7. Len(cycle') > 0 /\ cycle'[1] = n /\ cycle'[Len(cycle')] = path[k]
    BY <2>1, <2>2, <2>3
  <2>8. \A j \in 1..(Len(cycle') - 1) : cycle'[j + 1] \in neighbors[cycle'[j]]
    <3> SUFFICES ASSUME NEW j \in 1..(Len(cycle') - 1)
                 PROVE  cycle'[j + 1] \in neighbors[cycle'[j]]
      OBVIOUS
    <3>1. cycle'[j] = path[j + i - 1] /\ cycle'[j + 1] = path[(j + i - 1) + 1]
      BY <2>2, <2>3
    <3>2. j + i - 1 \in 1..(k - 1)
      BY <2>2, <2>3
    <3> QED
      BY <2>5, <3>1, <3>2
  <2>9. \A j, l \in 1..Len(cycle') : cycle'[j] = cycle'[l] => j = l
    <3> SUFFICES ASSUME NEW j \in 1..Len(cycle'), NEW l \in 1..Len(cycle'), cycle'[j] = cycle'[l]
                 PROVE  j = l
      OBVIOUS
    <3>1. /\ path[j + i - 1] = path[l + i - 1]
          /\ j + i - 1 \in 1..k /\ l + i - 1 \in 1..k
      BY <2>2, <2>3
    <3>2. j + i - 1 = l + i - 1
      BY <2>6, <3>1
    <3> QED
      BY <2>2, <2>3, <3>2
  <2> QED
    BY <1>1, <2>4, <2>7, <2>8, <2>9 DEF CycleIsReal, graphVars
<1> QED
  BY <1>1, <1>2, <1>3 DEF OrderIsTopological

(* A finished neighbor is taken off the list. *)
LEMMA VisitVisitedStep ==
  ASSUME IInv, NEW n \in Nodes, VisitVisited(n)
  PROVE  SearchInv' /\ OrderIsTopological' /\ CycleIsReal'
<1>1. /\ phase = "search" /\ phase' = phase
      /\ UNCHANGED <<graphVars, todo, states, path, result>>
      /\ stack # << >> /\ states[n] = "visited" /\ stack' = Visited(n)
  BY DEF VisitVisited, Comes
<1>2. /\ Len(stack') = Len(stack)
      /\ \A i \in 1..Len(stack) : stack'[i].from = stack[i].from
      /\ \A i \in 1..Len(stack) : /\ stack'[i].rest \subseteq stack[i].rest
                                   /\ stack[i].rest \subseteq stack'[i].rest \cup {n}
  BY <1>1, VisitedFacts DEF IInv
<1>3. PathIsStack'
  BY <1>1, <1>2 DEF IInv, SearchInv, PathIsStack
<1>4. Explored'
  BY <1>1, <1>2 DEF IInv, SearchInv, Explored, graphVars
<1> QED
  BY <1>1, <1>3, <1>4 DEF IInv, SearchInv, GraphClosed, Reached, PathIsVisiting,
     ResultIsVisited, BuildInv, ResultClosed, OrderIsTopological, CycleIsReal, graphVars

(* A call that ends moves its node from the path to the front of the result;
   all neighbors of the node are in the result already. *)
LEMMA ExitStep ==
  ASSUME IInv, Exit
  PROVE  SearchInv' /\ OrderIsTopological' /\ CycleIsReal'
<1> DEFINE k == Len(stack)
           f == path[k]
           r == Len(result)
<1>1. /\ phase = "search" /\ phase' = phase /\ UNCHANGED <<graphVars, todo>>
      /\ stack # << >> /\ stack[k].rest = {}
  BY DEF Exit, Last
<1>2. /\ k \in Nat \ {0} /\ k \in 1..k /\ Len(path) = k /\ path # << >>
      /\ path \in Seq(Nodes) /\ f \in Nodes /\ f = Last(stack).from
      /\ r \in Nat /\ result \in Seq(Nodes)
  BY <1>1 DEF IInv, TypeOK, SearchInv, PathIsStack, Last
<1>3. /\ Len(stack') = k - 1 /\ \A i \in 1..(k - 1) : stack'[i] = stack[i]
      /\ Len(path') = k - 1 /\ \A i \in 1..(k - 1) : path'[i] = path[i]
  <2>1. stack \in Seq(Frame) /\ stack' = DropLast(stack) /\ path' = DropLast(path)
    BY DEF Exit, IInv, TypeOK
  <2>2. Len(stack') = k - 1 /\ \A i \in 1..(k - 1) : stack'[i] = stack[i]
    BY <1>1, <2>1, DropLastFacts
  <2>3. Len(path') = k - 1 /\ \A i \in 1..(k - 1) : path'[i] = path[i]
    BY <1>2, <2>1, DropLastFacts
  <2> QED
    BY <2>2, <2>3
<1>4. /\ Len(result') = r + 1 /\ result'[1] = f
      /\ \A i \in 1..r : result'[i + 1] = result[i]
      /\ \A i \in 2..(r + 1) : result'[i] = result[i - 1]
  <2>1. result' = Prepend(f, result)
    BY <1>2 DEF Exit
  <2> QED
    BY <1>2, <2>1 DEF Prepend
<1>5. /\ states' = [states EXCEPT ![f] = "visited"]
      /\ states \in [Nodes -> {"unvisited", "visiting", "visited"}]
      /\ states[f] = "visiting"
  BY <1>2 DEF Exit, IInv, TypeOK, SearchInv, PathIsVisiting
<1>6. \A i, j \in 1..k : path[i] = path[j] => i = j
  BY <1>2 DEF IInv, SearchInv, PathIsVisiting
<1>7. PathIsStack'
  BY <1>2, <1>3 DEF IInv, SearchInv, PathIsStack
<1>8. PathIsVisiting'
  <2>1. \A i \in 1..(k - 1) : path[i] # f
    BY <1>2, <1>6
  <2>2. \A n \in Nodes : states'[n] = "visiting" <=> \E i \in 1..(k - 1) : path[i] = n
    <3> SUFFICES ASSUME NEW n \in Nodes
                 PROVE  states'[n] = "visiting" <=> \E i \in 1..(k - 1) : path[i] = n
      OBVIOUS
    <3>1. states[n] = "visiting" <=> \E i \in 1..k : path[i] = n
      BY <1>2 DEF IInv, SearchInv, PathIsVisiting
    <3>2. CASE n = f
      BY <1>5, <2>1, <3>2
    <3>3. CASE n # f
      BY <1>2, <1>5, <3>1, <3>3
    <3> QED
      BY <3>2, <3>3
  <2>3. \A i, j \in 1..(k - 1) : path'[i] = path'[j] => i = j
    BY <1>2, <1>3, <1>6
  <2>4. \A n \in Nodes : states'[n] = "visiting" <=> \E i \in 1..(k - 1) : path'[i] = n
    BY <1>3, <2>2
  <2> QED
    BY <1>3, <2>3, <2>4 DEF PathIsVisiting
<1>9. Explored'
  <2> SUFFICES ASSUME NEW i \in 1..(k - 1)
               PROVE  /\ stack'[i].rest \subseteq neighbors[path'[i]]
                      /\ \A to \in neighbors[path'[i]] \ stack'[i].rest :
                           states'[to] = "visited" \/ (i < k - 1 /\ path'[i + 1] = to)
                      /\ i < k - 1 => path'[i + 1] \in neighbors[path'[i]]
    BY <1>1, <1>3 DEF Explored, graphVars
  <2>1. /\ path'[i] = path[i] /\ stack'[i] = stack[i] /\ i < k
        /\ i < k - 1 => path'[i + 1] = path[i + 1]
        /\ i = k - 1 => path[i + 1] = f
    BY <1>2, <1>3
  <2>2. /\ stack[i].rest \subseteq neighbors[path[i]]
        /\ path[i] \in Nodes /\ neighbors[path[i]] \subseteq Nodes
        /\ \A to \in neighbors[path[i]] \ stack[i].rest :
             states[to] = "visited" \/ path[i + 1] = to
        /\ path[i + 1] \in neighbors[path[i]]
    BY <1>2, <2>1 DEF IInv, TypeOK, SearchInv, Explored
  <2>3. \A to \in Nodes : states[to] = "visited" \/ to = f => states'[to] = "visited"
    BY <1>5
  <2> QED
    BY <1>2, <2>1, <2>2, <2>3
<1>10. ResultIsVisited'
  <2>1. \A i \in 1..r : result[i] \in Nodes /\ states[result[i]] = "visited" /\ result[i] # f
    BY <1>2, <1>5 DEF IInv, SearchInv, ResultIsVisited
  <2>2. \A n \in Nodes : states'[n] = "visited" <=> \E i \in 1..(r + 1) : result'[i] = n
    <3> SUFFICES ASSUME NEW n \in Nodes
                 PROVE  states'[n] = "visited" <=> \E i \in 1..(r + 1) : result'[i] = n
      OBVIOUS
    <3>1. states[n] = "visited" <=> \E i \in 1..r : result[i] = n
      BY DEF IInv, SearchInv, ResultIsVisited
    <3>2. CASE n = f
      BY <1>2, <1>4, <1>5, <3>2
    <3>3. CASE n # f
      <4>1. states'[n] = states[n]
        BY <1>5, <3>3
      <4>2. (\E i \in 1..(r + 1) : result'[i] = n) <=> \E i \in 1..r : result[i] = n
        <5>1. ASSUME NEW i \in 1..(r + 1), result'[i] = n
              PROVE  \E j \in 1..r : result[j] = n
          <6>1. i \in 2..(r + 1) /\ i - 1 \in 1..r
            BY <1>2, <1>4, <3>3, <5>1
          <6> QED
            BY <1>4, <5>1, <6>1
        <5>2. ASSUME NEW i \in 1..r, result[i] = n
              PROVE  \E j \in 1..(r + 1) : result'[j] = n
          <6>1. i + 1 \in 1..(r + 1)
            BY <1>2
          <6> QED
            BY <1>4, <5>2, <6>1
        <5> QED
          BY <5>1, <5>2
      <4> QED
        BY <3>1, <4>1, <4>2
    <3> QED
      BY <3>2, <3>3
  <2>3. \A i, j \in 1..r : result[i] = result[j] => i = j
    BY DEF IInv, SearchInv, ResultIsVisited
  <2>4. \A i, j \in 1..(r + 1) : result'[i] = result'[j] => i = j
    <3> SUFFICES ASSUME NEW i \in 1..(r + 1), NEW j \in 1..(r + 1), result'[i] = result'[j]
                 PROVE  i = j
      OBVIOUS
    <3>1. CASE i = 1 \/ j = 1
      <4>1. \A l \in 2..(r + 1) : l - 1 \in 1..r /\ result'[l] # f
        BY <1>2, <1>4, <2>1
      <4> QED
        BY <1>2, <1>4, <3>1, <4>1
    <3>2. CASE i # 1 /\ j # 1
      <4>1. /\ i \in 2..(r + 1) /\ j \in 2..(r + 1)
            /\ i - 1 \in 1..r /\ j - 1 \in 1..r
        BY <1>2, <3>2
      <4>2. i - 1 = j - 1
        BY <1>4, <2>3, <4>1
      <4> QED
        BY <4>1, <4>2
    <3> QED
      BY <3>1, <3>2
  <2> QED
    BY <1>4, <2>2, <2>4 DEF ResultIsVisited
<1>11. ResultClosed'
  <2> SUFFICES ASSUME NEW i \in 1..(r + 1), NEW m \in neighbors[result'[i]]
               PROVE  \E j \in 1..(r + 1) : i < j /\ result'[j] = m
    BY <1>1, <1>4 DEF ResultClosed, graphVars
  <2>1. CASE i = 1
    <3>1. m \in neighbors[f] /\ m \in Nodes
      BY <1>2, <1>4, <2>1 DEF IInv, TypeOK
    <3>2. states[m] = "visited"
      BY <1>1, <1>2, <3>1 DEF IInv, SearchInv, Explored
    <3>3. PICK j \in 1..r : result[j] = m
      BY <3>1, <3>2 DEF IInv, SearchInv, ResultIsVisited
    <3> QED
      BY <1>2, <1>4, <2>1, <3>3
  <2>2. CASE i # 1
    <3>1. i - 1 \in 1..r /\ result'[i] = result[i - 1]
      BY <1>2, <1>4, <2>2
    <3>2. PICK j \in 1..r : i - 1 < j /\ result[j] = m
      BY <1>1, <3>1 DEF IInv, SearchInv, ResultClosed
    <3> QED
      BY <1>2, <1>4, <3>2
  <2> QED
    BY <2>1, <2>2
<1>12. GraphClosed' /\ Reached' /\ BuildInv' /\ OrderIsTopological' /\ CycleIsReal'
  BY <1>1, <1>2, <1>5 DEF IInv, SearchInv, GraphClosed, Reached, BuildInv, OrderIsTopological,
     CycleIsReal, graphVars
<1> QED
  BY <1>7, <1>8, <1>9, <1>10, <1>11, <1>12 DEF SearchInv

(* The search is over: every node is in the result, which is in order. *)
LEMMA FinishStep ==
  ASSUME IInv, Finish
  PROVE  SearchInv' /\ OrderIsTopological' /\ CycleIsReal'
<1> DEFINE r == Len(result)
<1>1. /\ phase = "search" /\ phase' = "ok" /\ stack = << >> /\ todo = {} /\ todo' = todo
      /\ UNCHANGED <<graphVars, states, path, stack, reverse>>
      /\ result \in Seq(Nodes) /\ r \in Nat
  BY DEF Finish, callVars, IInv, TypeOK
<1>2. ~\E i \in 1..Len(path) : TRUE
  <2>1. Len(stack) = 0
    BY <1>1
  <2> QED
    BY <2>1 DEF IInv, SearchInv, PathIsStack
<1>3. \A n \in Nodes : n \in nodes <=> states[n] = "visited"
  <2>1. \A n \in Nodes : states[n] \in {"unvisited", "visiting", "visited"}
    BY DEF IInv, TypeOK
  <2>2. \A n \in Nodes : states[n] # "visiting"
    BY <1>2, Zenon DEF IInv, SearchInv, PathIsVisiting
  <2>3. \A n \in nodes : states[n] # "unvisited"
    BY <1>1 DEF IInv, SearchInv, Reached
  <2>4. \A n \in Nodes : states[n] # "unvisited" => n \in nodes
    BY DEF IInv, SearchInv, Reached
  <2> QED
    BY <2>1, <2>2, <2>3, <2>4
<1>4. \A n \in Nodes : n \in nodes <=> \E i \in 1..r : result[i] = n
  BY <1>3 DEF IInv, SearchInv, ResultIsVisited
<1>5. /\ nodes \subseteq Nodes
      /\ \A i \in 1..r : result[i] \in Nodes
      /\ \A i, j \in 1..r : result[i] = result[j] => i = j
  BY <1>1 DEF IInv, TypeOK, SearchInv, ResultIsVisited
<1>6. ASSUME NEW a \in nodes, NEW b \in neighbors[a]
      PROVE  \E i, j \in 1..r : i < j /\ result[i] = a /\ result[j] = b
  <2>1. PICK i \in 1..r : result[i] = a
    BY <1>4, <1>5
  <2>2. PICK j \in 1..r : i < j /\ result[j] = b
    BY <1>1, <2>1 DEF IInv, SearchInv, ResultClosed
  <2> QED
    BY <2>1, <2>2
<1>7. /\ Len(result') = r
      /\ {result'[i] : i \in 1..r} = nodes
      /\ \A i, j \in 1..r : result'[i] = result'[j] => i = j
      /\ \A a \in nodes : \A b \in neighbors[a] :
           IF reverse THEN Before(result', b, a) ELSE Before(result', a, b)
  <2>1. CASE ~reverse
    <3>1. result' = result
      BY <2>1 DEF Finish
    <3>2. {result[i] : i \in 1..r} = nodes
      BY <1>4, <1>5
    <3> QED
      BY <1>5, <1>6, <2>1, <3>1, <3>2 DEF Before
  <2>2. CASE reverse
    <3>1. result' = Reversed(result)
      BY <2>2 DEF Finish
    <3>2. /\ Len(result') = r
          /\ \A i \in 1..r : /\ r + 1 - i \in 1..r
                             /\ result'[i] = result[r + 1 - i]
                             /\ result'[r + 1 - i] = result[i]
      BY <1>1, <3>1, ReversedFacts
    <3>3. {result'[i] : i \in 1..r} = nodes
      <4>1. ASSUME NEW n \in nodes PROVE \E i \in 1..r : result'[i] = n
        <5>1. PICK i \in 1..r : result[i] = n
          BY <1>4, <1>5
        <5> QED
          BY <3>2, <5>1
      <4>2. \A i \in 1..r : result'[i] \in nodes
        BY <1>4, <1>5, <3>2
      <4> QED
        BY <4>1, <4>2
    <3>4. \A i, j \in 1..r : result'[i] = result'[j] => i = j
      <4> SUFFICES ASSUME NEW i \in 1..r, NEW j \in 1..r, result'[i] = result'[j]
                   PROVE  i = j
        OBVIOUS
      <4>1. r + 1 - i = r + 1 - j
        BY <1>5, <3>2
      <4> QED
        BY <1>1, <4>1
    <3>5. ASSUME NEW a \in nodes, NEW b \in neighbors[a]
          PROVE  Before(result', b, a)
      <4>1. PICK i, j \in 1..r : i < j /\ result[i] = a /\ result[j] = b
        BY <1>6
      <4>2. /\ r + 1 - j \in 1..r /\ r + 1 - i \in 1..r /\ r + 1 - j < r + 1 - i
            /\ result'[r + 1 - j] = b /\ result'[r + 1 - i] = a
        BY <1>1, <3>2, <4>1
      <4> QED
        BY <3>2, <4>2 DEF Before
    <3> QED
      BY <2>2, <3>2, <3>3, <3>4, <3>5
  <2> QED
    BY <2>1, <2>2
<1>8. OrderIsTopological'
  BY <1>1, <1>7 DEF OrderIsTopological, Before, graphVars
<1>9. ResultIsVisited'
  <2>1. \A n \in Nodes : states[n] = "visited" <=> \E i \in 1..r : result'[i] = n
    BY <1>3, <1>7
  <2> QED
    BY <1>1, <1>7, <2>1 DEF ResultIsVisited
<1>10. GraphClosed' /\ Reached' /\ BuildInv' /\ CycleIsReal'
  BY <1>1 DEF IInv, SearchInv, GraphClosed, Reached, BuildInv, CycleIsReal, graphVars
<1>11. PathIsStack' /\ PathIsVisiting' /\ Explored'
  BY <1>1 DEF IInv, SearchInv, PathIsStack, PathIsVisiting, Explored, graphVars
<1> QED
  BY <1>1, <1>8, <1>9, <1>10, <1>11 DEF SearchInv

(* Every step keeps the inductive invariant. *)
LEMMA InvStep == IInv /\ [Next]_vars => IInv'
<1> SUFFICES ASSUME IInv, [Next]_vars PROVE IInv'
  OBVIOUS
<1>1. TypeOK'
  BY TypeStep DEF IInv
<1>2. CASE UNCHANGED vars
  <2>1. SearchInv'
    BY <1>2 DEF vars, graphVars, callVars, IInv, SearchInv, GraphClosed, Reached, PathIsStack,
       PathIsVisiting, Explored, ResultIsVisited, BuildInv, ResultClosed
  <2>2. OrderIsTopological' /\ CycleIsReal'
    BY <1>2 DEF vars, graphVars, callVars, IInv, OrderIsTopological, Before, CycleIsReal
  <2> QED
    BY <1>1, <2>1, <2>2 DEF IInv
<1>3. CASE Next
  <2>1. SearchInv' /\ OrderIsTopological' /\ CycleIsReal'
    BY <1>3, BuildStep, NextRootStep, VisitUnvisitedStep, VisitVisitingStep, VisitVisitedStep,
       ExitStep, FinishStep DEF Next, Step
  <2> QED
    BY <1>1, <2>1 DEF IInv
<1> QED
  BY <1>2, <1>3

(* The invariant of the depth-first search holds throughout: the path is the
   chain of calls and the result is closed under successors. *)
THEOREM SearchCorrect == Spec => []SearchInv
<1>1. Init => IInv
  BY InvInit
<1>2. IInv /\ [Next]_vars => IInv'
  BY InvStep
<1>3. IInv => SearchInv
  BY DEF IInv
<1> QED
  BY <1>1, <1>2, <1>3, PTL DEF Spec

(* What TopologicalOrdering and its variants return is an order of all nodes
   in which every edge leads forward (backward for the reverse variants), for
   every graph and every iteration order of Go's maps. *)
THEOREM OrderCorrect == Spec => []OrderIsTopological
<1>1. Init => IInv
  BY InvInit
<1>2. IInv /\ [Next]_vars => IInv'
  BY InvStep
<1>3. IInv => OrderIsTopological
  BY DEF IInv
<1> QED
  BY <1>1, <1>2, <1>3, PTL DEF Spec

(* A CyclicGraphError always carries a real, simple cycle of the graph. *)
THEOREM CycleCorrect == Spec => []CycleIsReal
<1>1. Init => IInv
  BY InvInit
<1>2. IInv /\ [Next]_vars => IInv'
  BY InvStep
<1>3. IInv => CycleIsReal
  BY DEF IInv
<1> QED
  BY <1>1, <1>2, <1>3, PTL DEF Spec
=============================================================================
