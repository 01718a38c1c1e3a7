------------------------ MODULE ExpressionParserProofs ------------------------
(***************************************************************************)
(* Proofs about ExpressionParser, for every session of expressions, well   *)
(* formed or not, of any length and nesting, and every option.             *)
(*                                                                         *)
(* The stacks of compileTokens are followed token by token and operator by *)
(* operator: every index on the operand stack is one of the list of nodes, *)
(* and every node of the list is still to be used - it is on the operand   *)
(* stack, or referred to by another node, by an open builder, by a token   *)
(* that waits, or by the mapping.                                          *)
(***************************************************************************)
EXTENDS ExpressionParser, SequenceTheorems, WellFoundedInduction, TLAPS

IsSeq(s) == s \in Seq(ToSet(s))

NarrowestType(n) ==
  /\ n.type = "int32" => n.value \in -(MaxInt32 + 1) .. MaxInt32
  /\ n.type = "int64" => \/ n.value \in MaxInt32 + 1 .. MaxInt64
                         \/ n.value \in -(MaxInt64 + 1) .. -(MaxInt32 + 2)

\* A node that refers to the first k nodes only.
NodeGood(n, k) ==
  /\ n = Node(n.type, n.name, n.names, n.args, n.value)
  /\ n.type \in NodeTypes
  /\ n.value \in Int
  /\ NarrowestType(n)
  /\ IsSeq(n.args)
  /\ \A a \in DOMAIN n.args : n.args[a] \in 1 .. k

NodesGood(ns) ==
  /\ IsSeq(ns)
  /\ \A i \in DOMAIN ns : NodeGood(ns[i], i - 1)
  /\ \A i, j \in DOMAIN ns : ns[i] = ns[j] => i = j

\* Only the node of a builder refers to others before it is in the list.
TokenGood(t, k) ==
  t.op = "" => NodeGood(t.node, k) /\ (t.node.type = "field" => t.node.args = <<>>)

TokenArgs(t) == IF t.op = "" THEN ToSet(t.node.args) ELSE {}

OperandGood(o, k) ==
  /\ o = [index |-> o.index, comparison |-> o.comparison, parenthesized |-> o.parenthesized]
  /\ o.index \in 1 .. k

\* No node is left over: it is an operand, an argument of another, or in C.
Covered(ns, operands, C) ==
  \A i \in DOMAIN ns :
    \/ i \in C
    \/ \E o \in DOMAIN operands : operands[o].index = i
    \/ \E j \in DOMAIN ns : i \in ToSet(ns[j].args)

\* The two stacks and the nodes, of which there are at least m.
StacksGood(ps, m) ==
  /\ ps = [operands |-> ps.operands, operators |-> ps.operators, nodes |-> ps.nodes, ok |-> ps.ok]
  /\ ps.ok \in BOOLEAN
  /\ IsSeq(ps.operators)
  /\ NodesGood(ps.nodes)
  /\ m <= Len(ps.nodes)
  /\ IsSeq(ps.operands)
  /\ \A o \in DOMAIN ps.operands : OperandGood(ps.operands[o], Len(ps.nodes))

PSGood(ps, m, C) == StacksGood(ps, m) /\ (ps.ok => Covered(ps.nodes, ps.operands, C))

\* What a step leaves that does not change the operators.
Becomes(new, ps, m, C) == PSGood(new, m, C) /\ new.operators = ps.operators

FrameGood(f, k) ==
  /\ f = [type |-> f.type, names |-> f.names, args |-> f.args, reading |-> f.reading,
          tokens |-> f.tokens, open |-> f.open]
  /\ IsSeq(f.names) /\ IsSeq(f.args) /\ IsSeq(f.tokens) /\ IsSeq(f.open)
  /\ \A a \in DOMAIN f.args : f.args[a] \in 1 .. k
  /\ \A t \in DOMAIN f.tokens : TokenGood(f.tokens[t], k)

\* Where a builder is: between two fields, or in the expression of one.
InField(f) ==
  \/ f.reading = "field" /\ Len(f.names) = Len(f.args) /\ f.tokens = <<>>
  \/ f.reading = "value" /\ Len(f.names) = Len(f.args) + 1

FrameArgs(f) == ToSet(f.args) \cup UNION {TokenArgs(f.tokens[t]) : t \in DOMAIN f.tokens}

HeldIn(fs) == UNION {FrameArgs(fs[k]) : k \in DOMAIN fs}

Held == ToSet(mapping) \cup HeldIn(frames)

Reading ==
  /\ IsSeq(session) /\ session # <<>>
  /\ \A i \in DOMAIN session : session[i].tokens \in Seq(LexerToken)
  /\ outcome \in {"parsing", "ok", "error"}
  /\ current \in DOMAIN session
  /\ pos \in 1 .. Len(Tokens) + 1

\* Only the last frame may be between two fields, and it is not the first.
FramesOk(fs, k) ==
  /\ IsSeq(fs) /\ fs # <<>>
  /\ \A i \in DOMAIN fs : FrameGood(fs[i], k)
  /\ \A i \in DOMAIN fs : i > 1 => InField(fs[i])
  /\ \A i \in DOMAIN fs : i < Len(fs) => fs[i].reading = "value"
  /\ fs[1].reading = "value" /\ fs[1].names = <<>> /\ fs[1].args = <<>>

FramesGood ==
  /\ FramesOk(frames, Len(nodes))
  /\ outcome = "ok" => frames = <<Frame(<<>>, "value")>>

MappingGood ==
  /\ IsSeq(mapping)
  /\ \A i \in DOMAIN mapping : mapping[i] \in 1 .. Len(nodes)
  /\ Len(mapping) = IF outcome = "ok" THEN Len(session) ELSE current - 1
  /\ outcome = "ok" => current = Len(session)

IInv ==
  /\ Reading
  /\ NodesGood(nodes)
  /\ FramesGood
  /\ MappingGood
  /\ outcome # "error" => Covered(nodes, <<>>, Held)

-----------------------------------------------------------------------------
(* Induction over the natural numbers, for sets of them. *)

LEMMA LeastElement ==
  ASSUME NEW T \in SUBSET Nat, T # {}
  PROVE  \E x \in T : \A y \in T : ~(y < x)
<1> DEFINE R == {ss \in Nat \X Nat : ss[1] < ss[2]}
<1>1. IsWellFoundedOn(R, Nat)
  BY NatLessThanWellFounded, Zenon DEF OpToRel
<1>2. \A x, y \in Nat : y < x => <<y, x>> \in R
  OBVIOUS
<1> HIDE DEF R
<1>3. PICK x \in T : \A y \in T : ~(<<y, x>> \in R)
  BY <1>1, WFMin, Zenon
<1> QED
  BY <1>2, <1>3

(* A set with 0 that is closed under the successor below n reaches n. *)
LEMMA InductionUpTo ==
  ASSUME NEW n \in Nat, NEW T, 0 \in T, \A k \in 0 .. n - 1 : k \in T => k + 1 \in T
  PROVE  \A k \in 0 .. n : k \in T
<1> SUFFICES ASSUME \E k \in 0 .. n : k \notin T PROVE FALSE
  OBVIOUS
<1> DEFINE U == {k \in 0 .. n : k \notin T}
<1>1. U \in SUBSET Nat /\ U # {}
  OBVIOUS
<1> HIDE DEF U
<1>2. PICK x \in U : \A y \in U : ~(y < x)
  BY <1>1, LeastElement
<1>3. x \in 0 .. n /\ x \notin T
  BY <1>2 DEF U
<1>4. x # 0 /\ x - 1 \in 0 .. n - 1 /\ (x - 1) + 1 = x
  BY <1>3
<1>5. x - 1 \in T
  BY <1>2, <1>3, <1>4 DEF U
<1> QED
  BY <1>3, <1>4, <1>5

(* The largest of some numbers up to n. *)
LEMMA LargestUpTo ==
  ASSUME NEW n \in Nat, NEW S, S \subseteq 0 .. n, 0 \in S
  PROVE  Max(S) \in S
<1> DEFINE B == {b \in Nat : \A y \in S : b >= y}
<1>1. n \in B
  OBVIOUS
<1>2. PICK b \in B : \A y \in B : ~(y < b)
  <2>1. B \in SUBSET Nat /\ B # {}
    BY <1>1
  <2> HIDE DEF B
  <2> QED
    BY <2>1, LeastElement
<1>3. b \in S
  <2> SUFFICES ASSUME b \notin S PROVE FALSE
    OBVIOUS
  <2>1. b \in Nat /\ b # 0 /\ \A y \in S : b > y
    OBVIOUS
  <2>2. b - 1 \in B
    BY <2>1
  <2> QED
    BY <1>2, <2>1, <2>2
<1>4. b \in S /\ \A y \in S : b >= y
  BY <1>3
<1> QED
  BY <1>4 DEF Max

-----------------------------------------------------------------------------
(* Sequences. *)

LEMMA SeqFacts ==
  ASSUME NEW s, IsSeq(s)
  PROVE  /\ Len(s) \in Nat /\ DOMAIN s = 1 .. Len(s)
         /\ s = [i \in 1 .. Len(s) |-> s[i]]
         /\ \A i \in 1 .. Len(s) : s[i] \in ToSet(s)
  BY DEF IsSeq, ToSet

(* What is in Seq of any set is a sequence. *)
LEMMA SeqIsSeq == ASSUME NEW S, NEW s \in Seq(S) PROVE IsSeq(s)
<1>1. s = [i \in 1 .. Len(s) |-> s[i]] /\ Len(s) \in Nat /\ DOMAIN s = 1 .. Len(s)
  OBVIOUS
<1>2. \A i \in 1 .. Len(s) : s[i] \in ToSet(s)
  BY <1>1 DEF ToSet
<1> QED
  BY <1>1, <1>2, IsASeq DEF IsSeq

LEMMA AppendFacts ==
  ASSUME NEW s, IsSeq(s), NEW x
  PROVE  /\ IsSeq(Append(s, x))
         /\ Len(Append(s, x)) = Len(s) + 1
         /\ DOMAIN Append(s, x) = 1 .. Len(s) + 1
         /\ \A i \in 1 .. Len(s) : Append(s, x)[i] = s[i]
         /\ Append(s, x)[Len(s) + 1] = x
<1> DEFINE S == ToSet(s) \cup {x}
<1>1. s \in Seq(S) /\ x \in S
  <2>1. s \in Seq(ToSet(s)) /\ ToSet(s) \subseteq S
    BY DEF IsSeq
  <2> HIDE DEF S
  <2>2. s \in Seq(S)
    BY <2>1
  <2> QED
    BY <2>2 DEF S
<1> HIDE DEF S
<1>2. Append(s, x) \in Seq(S)
  BY <1>1
<1>3. IsSeq(Append(s, x))
  BY <1>2, SeqIsSeq
<1> QED
  BY <1>1, <1>2, <1>3

LEMMA PrefixFacts ==
  ASSUME NEW s, IsSeq(s), NEW n \in 0 .. Len(s)
  PROVE  /\ IsSeq(SubSeq(s, 1, n))
         /\ Len(SubSeq(s, 1, n)) = n
         /\ \A i \in 1 .. n : SubSeq(s, 1, n)[i] = s[i]
<1>1. s \in Seq(ToSet(s)) /\ Len(s) \in Nat
  BY DEF IsSeq
<1>2. \A i \in 1 .. n : s[i] \in ToSet(s)
  BY <1>1
<1>3. /\ SubSeq(s, 1, n) \in Seq(ToSet(s))
      /\ Len(SubSeq(s, 1, n)) = IF 1 <= n THEN n - 1 + 1 ELSE 0
      /\ \A i \in 1 .. n - 1 + 1 : SubSeq(s, 1, n)[i] = s[1 + i - 1]
  BY <1>1, <1>2, SubSeqProperties
<1>4. IsSeq(SubSeq(s, 1, n))
  BY <1>3, SeqIsSeq
<1> QED
  BY <1>1, <1>3, <1>4

LEMMA ExceptFacts ==
  ASSUME NEW s, IsSeq(s), NEW k \in 1 .. Len(s), NEW x
  PROVE  /\ IsSeq([s EXCEPT ![k] = x])
         /\ Len([s EXCEPT ![k] = x]) = Len(s)
         /\ \A i \in 1 .. Len(s) : [s EXCEPT ![k] = x][i] = IF i = k THEN x ELSE s[i]
<1> DEFINE S == ToSet(s) \cup {x}
<1>1. s \in Seq(S) /\ x \in S
  <2>1. s \in Seq(ToSet(s)) /\ ToSet(s) \subseteq S
    BY DEF IsSeq
  <2> HIDE DEF S
  <2>2. s \in Seq(S)
    BY <2>1
  <2> QED
    BY <2>2 DEF S
<1> HIDE DEF S
<1>2. /\ [s EXCEPT ![k] = x] \in Seq(S)
      /\ Len([s EXCEPT ![k] = x]) = Len(s)
      /\ \A i \in 1 .. Len(s) : [s EXCEPT ![k] = x][i] = IF i = k THEN x ELSE s[i]
  BY <1>1, ExceptSeq
<1>3. IsSeq([s EXCEPT ![k] = x])
  BY <1>2, SeqIsSeq
<1> QED
  BY <1>2, <1>3

LEMMA EmptyFacts == IsSeq(<<>>) /\ Len(<<>>) = 0 /\ DOMAIN <<>> = {} /\ ToSet(<<>>) = {}
<1>1. <<>> \in Seq({})
  OBVIOUS
<1>2. IsSeq(<<>>)
  BY <1>1, SeqIsSeq
<1> QED
  BY <1>2 DEF ToSet

LEMMA SingletonFacts ==
  ASSUME NEW x
  PROVE  /\ IsSeq(<<x>>) /\ Len(<<x>>) = 1 /\ DOMAIN <<x>> = {1} /\ <<x>>[1] = x
         /\ ToSet(<<x>>) = {x}
<1>1. <<x>> \in Seq({x})
  OBVIOUS
<1>2. IsSeq(<<x>>)
  BY <1>1, SeqIsSeq
<1>3. DOMAIN <<x>> = {1} /\ <<x>>[1] = x
  OBVIOUS
<1> QED
  BY <1>2, <1>3 DEF ToSet

-----------------------------------------------------------------------------
(* Nodes. *)

LEMMA NodeFields ==
  ASSUME NEW type, NEW name, NEW names, NEW args, NEW value
  PROVE  LET n == Node(type, name, names, args, value)
         IN  /\ n = Node(n.type, n.name, n.names, n.args, n.value)
             /\ n.type = type /\ n.name = name /\ n.names = names
             /\ n.args = args /\ n.value = value
  BY DEF Node

LEMMA NodeGrows ==
  ASSUME NEW n, NEW k \in Nat, NEW m \in Nat, k <= m, NodeGood(n, k)
  PROVE  NodeGood(n, m)
  BY DEF NodeGood

(* A node that is not a literal. *)
LEMMA PlainNodeGood ==
  ASSUME NEW type \in {"field", "timestamp", "combination", "builder"}, NEW name, NEW names,
         NEW args, IsSeq(args), NEW k, \A a \in DOMAIN args : args[a] \in 1 .. k
  PROVE  NodeGood(Node(type, name, names, args, 0), k)
<1> DEFINE n == Node(type, name, names, args, 0)
<1>1. /\ n = Node(n.type, n.name, n.names, n.args, n.value)
      /\ n.type = type /\ n.args = args /\ n.value = 0
  BY NodeFields
<1> HIDE DEF n
<1>2. NodeGood(n, k)
  BY <1>1 DEF NodeGood, NodeTypes, NarrowestType
<1> QED
  BY <1>2 DEF n

LEMMA NodesAppend ==
  ASSUME NEW ns, NodesGood(ns), NEW n, NodeGood(n, Len(ns)), \A i \in DOMAIN ns : ns[i] # n
  PROVE  NodesGood(Append(ns, n))
<1> DEFINE new == Append(ns, n)
<1>1. IsSeq(ns) /\ Len(ns) \in Nat /\ DOMAIN ns = 1 .. Len(ns)
  BY SeqFacts DEF NodesGood
<1>2. /\ IsSeq(new) /\ DOMAIN new = 1 .. Len(ns) + 1
      /\ \A i \in 1 .. Len(ns) : new[i] = ns[i]
      /\ new[Len(ns) + 1] = n
  BY <1>1, AppendFacts
<1> HIDE DEF new
<1>3. ASSUME NEW i \in DOMAIN new PROVE NodeGood(new[i], i - 1)
  <2>1. CASE i \in 1 .. Len(ns)
    BY <1>1, <1>2, <2>1 DEF NodesGood
  <2>2. CASE i = Len(ns) + 1
    <3>1. i - 1 = Len(ns)
      BY <1>1, <2>2
    <3> QED
      BY <1>2, <2>2, <3>1
  <2> QED
    BY <1>1, <1>2, <2>1, <2>2
<1>4. ASSUME NEW i \in DOMAIN new, NEW j \in DOMAIN new, new[i] = new[j] PROVE i = j
  BY <1>1, <1>2, <1>4 DEF NodesGood
<1>5. NodesGood(new)
  BY <1>2, <1>3, <1>4 DEF NodesGood
<1> QED
  BY <1>5 DEF new

-----------------------------------------------------------------------------
(* The two stacks. *)

LEMMA StackParts ==
  ASSUME NEW ps, NEW m \in Nat, StacksGood(ps, m)
  PROVE  /\ Len(ps.operators) \in Nat /\ Len(ps.nodes) \in Nat /\ Len(ps.operands) \in Nat
         /\ DOMAIN ps.nodes = 1 .. Len(ps.nodes)
         /\ DOMAIN ps.operands = 1 .. Len(ps.operands)
         /\ DOMAIN ps.operators = 1 .. Len(ps.operators)
         /\ IsSeq(ps.nodes) /\ IsSeq(ps.operands) /\ IsSeq(ps.operators)
  BY SeqFacts DEF StacksGood, NodesGood

LEMMA OkSet ==
  ASSUME NEW ps, NEW m \in Nat, StacksGood(ps, m), NEW b
  PROVE  LET new == [ps EXCEPT !.ok = b]
         IN  /\ new = [operands |-> new.operands, operators |-> new.operators,
                       nodes |-> new.nodes, ok |-> new.ok]
             /\ new.operands = ps.operands /\ new.operators = ps.operators
             /\ new.nodes = ps.nodes /\ new.ok = b
  BY DEF StacksGood

LEMMA FailGood ==
  ASSUME NEW ps, NEW m \in Nat, StacksGood(ps, m)
  PROVE  \A C : PSGood(Fail(ps), m, C)
<1> DEFINE new == Fail(ps)
<1>1. /\ new = [operands |-> new.operands, operators |-> new.operators, nodes |-> new.nodes,
                ok |-> new.ok]
      /\ new.operands = ps.operands /\ new.operators = ps.operators
      /\ new.nodes = ps.nodes /\ new.ok = FALSE
  BY OkSet, Zenon DEF Fail
<1> HIDE DEF new
<1>2. \A C : PSGood(new, m, C)
  BY <1>1 DEF PSGood, StacksGood
<1> QED
  BY <1>2 DEF new

LEMMA OperatorsSet ==
  ASSUME NEW ps, NEW m \in Nat, NEW C, PSGood(ps, m, C), NEW s, IsSeq(s)
  PROVE  /\ PSGood([ps EXCEPT !.operators = s], m, C)
         /\ [ps EXCEPT !.operators = s].operators = s
<1> DEFINE new == [ps EXCEPT !.operators = s]
<1>1. /\ new = [operands |-> new.operands, operators |-> new.operators, nodes |-> new.nodes,
                ok |-> new.ok]
      /\ new.operands = ps.operands /\ new.operators = s
      /\ new.nodes = ps.nodes /\ new.ok = ps.ok
  BY DEF PSGood, StacksGood
<1> HIDE DEF new
<1>2. PSGood(new, m, C)
  BY <1>1 DEF PSGood, StacksGood
<1> QED
  BY <1>1, <1>2 DEF new

WithOperands(ps, os) ==
  [operands |-> os, operators |-> ps.operators, nodes |-> ps.nodes, ok |-> ps.ok]

LEMMA OperandsSet ==
  ASSUME NEW ps, NEW m \in Nat, StacksGood(ps, m), NEW os
  PROVE  [ps EXCEPT !.operands = os] = WithOperands(ps, os)
  BY DEF StacksGood, WithOperands

(* The operands that are left, after some were taken from the stack. *)
LEMMA OperandsTaken ==
  ASSUME NEW ps, NEW m \in Nat, StacksGood(ps, m), NEW n \in 0 .. Len(ps.operands)
  PROVE  LET new == WithOperands(ps, SubSeq(ps.operands, 1, n))
         IN  /\ StacksGood(new, m)
             /\ new.operands = SubSeq(ps.operands, 1, n)
             /\ new.nodes = ps.nodes /\ new.operators = ps.operators /\ new.ok = ps.ok
<1> DEFINE os  == SubSeq(ps.operands, 1, n)
           new == WithOperands(ps, os)
<1>1. IsSeq(os) /\ Len(os) = n /\ \A i \in 1 .. n : os[i] = ps.operands[i]
  BY StackParts, PrefixFacts
<1>2. \A o \in DOMAIN os : OperandGood(os[o], Len(ps.nodes))
  BY <1>1, StackParts, SeqFacts DEF StacksGood
<1> HIDE DEF os
<1>4. /\ new = [operands |-> new.operands, operators |-> new.operators, nodes |-> new.nodes,
                ok |-> new.ok]
      /\ new.operands = os /\ new.operators = ps.operators
      /\ new.nodes = ps.nodes /\ new.ok = ps.ok
  BY DEF WithOperands
<1> HIDE DEF new
<1>5. StacksGood(new, m)
  BY <1>1, <1>2, <1>4, Zenon DEF StacksGood
<1> QED
  BY <1>4, <1>5 DEF os, new

LEMMA NodesAndOperandsSet ==
  ASSUME NEW ps, NEW m \in Nat, StacksGood(ps, m), NEW ns, NEW os
  PROVE  [ps EXCEPT !.nodes = ns, !.operands = os] =
           [operands |-> os, operators |-> ps.operators, nodes |-> ns, ok |-> ps.ok]
<1> DEFINE mid == [ps EXCEPT !.nodes = ns]
<1>1. mid = [operands |-> ps.operands, operators |-> ps.operators, nodes |-> ns, ok |-> ps.ok]
  BY DEF StacksGood
<1> HIDE DEF mid
<1>2. [mid EXCEPT !.operands = os] =
        [operands |-> os, operators |-> ps.operators, nodes |-> ns, ok |-> ps.ok]
  BY <1>1
<1> QED
  BY <1>2 DEF mid

(* pushNode: the node becomes an operand, and takes over the nodes it refers
   to. *)
LEMMA PushNodeGood ==
  ASSUME NEW ps, NEW m \in Nat, StacksGood(ps, m), NEW node, NodeGood(node, Len(ps.nodes)), NEW cmp, NEW C,
         Covered(ps.nodes, ps.operands, C \cup ToSet(node.args))
  PROVE  Becomes(pushNode(ps, node, cmp), ps, m, C)
<1> DEFINE known == {i \in DOMAIN ps.nodes : ps.nodes[i] = node}
           index == IF known = {} THEN Len(ps.nodes) + 1 ELSE CHOOSE i \in known : TRUE
           ns == IF known = {} THEN Append(ps.nodes, node) ELSE ps.nodes
           operand == [index |-> index, comparison |-> cmp, parenthesized |-> FALSE]
           os == Append(ps.operands, operand)
           new == [ps EXCEPT !.nodes = ns, !.operands = os]
<1>0. new = pushNode(ps, node, cmp)
  BY DEF pushNode
<1>1. /\ Len(ps.nodes) \in Nat /\ DOMAIN ps.nodes = 1 .. Len(ps.nodes) /\ IsSeq(ps.nodes)
      /\ Len(ps.operands) \in Nat /\ DOMAIN ps.operands = 1 .. Len(ps.operands)
      /\ IsSeq(ps.operands)
  BY StackParts
<1>2. known = {} => /\ Len(ns) = Len(ps.nodes) + 1
                    /\ \A i \in 1 .. Len(ps.nodes) : ns[i] = ps.nodes[i]
                    /\ ns[Len(ps.nodes) + 1] = node
                    /\ NodesGood(ns)
  <2> HAVE known = {}
  <2>1. \A i \in DOMAIN ps.nodes : ps.nodes[i] # node
    OBVIOUS
  <2>2. NodesGood(Append(ps.nodes, node))
    BY <2>1, NodesAppend DEF StacksGood
  <2> QED
    BY <1>1, <2>2, AppendFacts
<1>3. known # {} => ns = ps.nodes /\ index \in DOMAIN ps.nodes /\ ps.nodes[index] = node
  OBVIOUS
<1>4. known = {} => index = Len(ps.nodes) + 1
  OBVIOUS
<1> HIDE DEF known, index, ns
<1>5. /\ NodesGood(ns) /\ Len(ns) \in Nat /\ Len(ps.nodes) <= Len(ns)
      /\ DOMAIN ns = 1 .. Len(ns) /\ index \in 1 .. Len(ns) /\ ns[index] = node
      /\ \A i \in DOMAIN ps.nodes : i \in DOMAIN ns /\ ns[i] = ps.nodes[i]
  <2>1. CASE known = {}
    <3>1. DOMAIN ns = 1 .. Len(ns)
      BY <1>2, <2>1, SeqFacts DEF NodesGood
    <3>2. /\ Len(ns) = Len(ps.nodes) + 1 /\ index = Len(ns) /\ NodesGood(ns)
          /\ ns[Len(ps.nodes) + 1] = node
          /\ \A i \in 1 .. Len(ps.nodes) : ns[i] = ps.nodes[i]
      BY <1>2, <1>4, <2>1
    <3>3. Len(ns) \in Nat /\ Len(ps.nodes) <= Len(ns) /\ index \in 1 .. Len(ns)
      BY <1>1, <3>2
    <3>4. ns[index] = node
      BY <3>2
    <3>5. \A i \in DOMAIN ps.nodes : i \in DOMAIN ns /\ ns[i] = ps.nodes[i]
      BY <1>1, <3>1, <3>2
    <3> QED
      BY <3>1, <3>2, <3>3, <3>4, <3>5
  <2>2. CASE known # {}
    BY <1>1, <1>3, <2>2 DEF StacksGood
  <2> QED
    BY <2>1, <2>2
<1>6. OperandGood(operand, Len(ns)) /\ operand.index = index
  <2>1. /\ operand = [index |-> operand.index, comparison |-> operand.comparison,
                      parenthesized |-> operand.parenthesized]
        /\ operand.index = index
    BY Zenon
  <2> HIDE DEF operand
  <2> QED
    BY <1>5, <2>1 DEF OperandGood
<1> HIDE DEF operand
<1>7. /\ IsSeq(os) /\ DOMAIN os = 1 .. Len(ps.operands) + 1
      /\ \A o \in 1 .. Len(ps.operands) : os[o] = ps.operands[o]
      /\ os[Len(ps.operands) + 1] = operand
  BY <1>1, AppendFacts
<1> HIDE DEF os
<1>8. \A o \in DOMAIN os : OperandGood(os[o], Len(ns))
  <2> SUFFICES ASSUME NEW o \in DOMAIN os PROVE OperandGood(os[o], Len(ns))
    OBVIOUS
  <2>1. CASE o \in 1 .. Len(ps.operands)
    <3>1. OperandGood(ps.operands[o], Len(ps.nodes))
      BY <1>1, <2>1 DEF StacksGood
    <3> QED
      BY <1>1, <1>5, <1>7, <2>1, <3>1 DEF OperandGood
  <2>2. CASE o = Len(ps.operands) + 1
    BY <1>6, <1>7, <2>2
  <2> QED
    BY <1>1, <1>7, <2>1, <2>2
<1>9. Covered(ns, os, C)
  <2> SUFFICES ASSUME NEW i \in DOMAIN ns, i \notin C,
                      \A j \in DOMAIN ns : i \notin ToSet(ns[j].args)
               PROVE  \E o \in DOMAIN os : os[o].index = i
    BY DEF Covered
  <2>1. CASE i = index
    BY <1>1, <1>6, <1>7, <2>1
  <2>2. CASE i # index
    <3>1. i \in DOMAIN ps.nodes
      <4>1. CASE known = {}
        <5>1. Len(ns) = Len(ps.nodes) + 1 /\ index = Len(ps.nodes) + 1
          BY <1>2, <1>4, <4>1
        <5> QED
          BY <1>1, <1>5, <2>2, <5>1
      <4>2. CASE known # {}
        BY <1>3, <4>2
      <4> QED
        BY <4>1, <4>2
    <3>2. i \notin ToSet(node.args)
      BY <1>5
    <3>3. \A j \in DOMAIN ps.nodes : i \notin ToSet(ps.nodes[j].args)
      BY <1>5
    <3>4. PICK o \in DOMAIN ps.operands : ps.operands[o].index = i
      BY <3>1, <3>2, <3>3 DEF Covered
    <3> QED
      BY <1>1, <1>7, <3>4
  <2> QED
    BY <2>1, <2>2
<1>10. new = [operands |-> os, operators |-> ps.operators, nodes |-> ns, ok |-> ps.ok]
  BY NodesAndOperandsSet, Zenon
<1>11. m <= Len(ps.nodes) => m <= Len(ns)
  BY <1>1, <1>5
<1> HIDE DEF new
<1>12. /\ new = [operands |-> new.operands, operators |-> new.operators, nodes |-> new.nodes,
                 ok |-> new.ok]
       /\ new.operands = os /\ new.operators = ps.operators
       /\ new.nodes = ns /\ new.ok = ps.ok
  BY <1>10
<1>13. StacksGood(new, m)
  <2>1. m <= Len(ns) /\ IsSeq(ps.operators) /\ ps.ok \in BOOLEAN
    BY <1>11 DEF StacksGood
  <2> QED
    BY <1>5, <1>7, <1>8, <1>12, <2>1, Zenon DEF StacksGood
<1>14. PSGood(new, m, C)
  BY <1>9, <1>12, <1>13 DEF PSGood
<1> QED
  BY <1>0, <1>12, <1>14 DEF Becomes

(* The last operands of the stack. *)
LEMMA LastOperands ==
  ASSUME NEW s, IsSeq(s), NEW rest \in Nat, NEW arity \in Nat, rest + arity = Len(s)
  PROVE  LET args == SubSeq(s, rest + 1, Len(s))
         IN  DOMAIN args = 1 .. arity /\ \A i \in 1 .. arity : args[i] = s[rest + i]
<1> DEFINE args == SubSeq(s, rest + 1, Len(s))
<1>1. s \in Seq(ToSet(s)) /\ Len(s) \in Nat
  BY DEF IsSeq
<1>2. \A i \in rest + 1 .. Len(s) : s[i] \in ToSet(s)
  BY SeqFacts
<1>3. /\ args \in Seq(ToSet(s))
      /\ Len(args) = IF rest + 1 <= Len(s) THEN Len(s) - (rest + 1) + 1 ELSE 0
      /\ \A i \in 1 .. Len(s) - (rest + 1) + 1 : args[i] = s[rest + 1 + i - 1]
  BY <1>1, <1>2, SubSeqProperties
<1> HIDE DEF args
<1>4. Len(args) = arity
  BY <1>1, <1>3
<1>5. Len(s) - (rest + 1) + 1 = arity /\ \A i \in 1 .. arity : rest + 1 + i - 1 = rest + i
  BY <1>1
<1>6. DOMAIN args = 1 .. arity
  BY <1>3, <1>4
<1>7. \A i \in 1 .. arity : args[i] = s[rest + i]
  BY <1>3, <1>5
<1> QED
  BY <1>6, <1>7 DEF args

\* The operands are those of os and then the ones refs lists.
Splits(operands, os, refs) ==
  \E rest, arity \in Nat :
    /\ rest + arity = Len(operands)
    /\ os = SubSeq(operands, 1, rest)
    /\ IsSeq(refs) /\ DOMAIN refs = 1 .. arity
    /\ \A i \in 1 .. arity : refs[i] = operands[rest + i].index

(* A node takes over the last operands of the stack, which it refers to. *)
LEMMA TakeOverGood ==
  ASSUME NEW ps, NEW m \in Nat, NEW C, StacksGood(ps, m), Covered(ps.nodes, ps.operands, C),
         NEW os, NEW refs, Splits(ps.operands, os, refs), NEW cmp,
         NEW node, NodeGood(node, Len(ps.nodes)), node.args = refs
  PROVE  Becomes(pushNode(WithOperands(ps, os), node, cmp), ps, m, C)
<1> DEFINE left == WithOperands(ps, os)
<1>0. PICK rest \in Nat, arity \in Nat :
           /\ rest + arity = Len(ps.operands)
           /\ os = SubSeq(ps.operands, 1, rest)
           /\ IsSeq(refs) /\ DOMAIN refs = 1 .. arity
           /\ \A i \in 1 .. arity : refs[i] = ps.operands[rest + i].index
  BY DEF Splits
<1>1. StacksGood(ps, m)
  OBVIOUS
<1>2. /\ Len(ps.operands) \in Nat /\ DOMAIN ps.operands = 1 .. Len(ps.operands)
      /\ IsSeq(ps.operands) /\ Len(ps.nodes) \in Nat /\ rest \in 0 .. Len(ps.operands)
  BY <1>0, <1>1, StackParts
<1>3. IsSeq(os) /\ Len(os) = rest /\ \A i \in 1 .. rest : os[i] = ps.operands[i]
  BY <1>0, <1>2, PrefixFacts
<1>4. DOMAIN os = 1 .. rest
  BY <1>3, SeqFacts
<1>5. /\ StacksGood(left, m) /\ left.operands = os
      /\ left.nodes = ps.nodes /\ left.operators = ps.operators
  BY <1>0, <1>1, <1>2, OperandsTaken
<1> HIDE DEF left
<1>6. Covered(ps.nodes, os, C \cup ToSet(refs))
  <2> SUFFICES ASSUME NEW i \in DOMAIN ps.nodes, i \notin C, i \notin ToSet(refs),
                      \A j \in DOMAIN ps.nodes : i \notin ToSet(ps.nodes[j].args)
               PROVE  \E o \in DOMAIN os : os[o].index = i
    BY DEF Covered
  <2>1. PICK o \in DOMAIN ps.operands : ps.operands[o].index = i
    BY DEF Covered
  <2>2. o \in 1 .. rest
    <3> SUFFICES ASSUME o \notin 1 .. rest PROVE FALSE
      OBVIOUS
    <3>1. o - rest \in 1 .. arity /\ rest + (o - rest) = o
      BY <1>0, <1>2, <2>1
    <3>2. refs[o - rest] = i
      BY <1>0, <2>1, <3>1
    <3> QED
      BY <1>0, <3>1, <3>2 DEF ToSet
  <2> QED
    BY <1>3, <1>4, <2>1, <2>2
<1>7. Covered(left.nodes, left.operands, C \cup ToSet(node.args))
  BY <1>5, <1>6
<1>8. NodeGood(node, Len(left.nodes))
  BY <1>5
<1>9. Becomes(pushNode(left, node, cmp), left, m, C)
  BY <1>5, <1>7, <1>8, PushNodeGood, Zenon
<1> QED
  BY <1>5, <1>9, Zenon DEF left, Becomes

LEMMA SplitIndices ==
  ASSUME NEW ps, NEW m \in Nat, StacksGood(ps, m), NEW os, NEW refs, Splits(ps.operands, os, refs)
  PROVE  IsSeq(refs) /\ \A i \in DOMAIN refs : refs[i] \in 1 .. Len(ps.nodes)
<1>1. PICK rest \in Nat, arity \in Nat :
           /\ rest + arity = Len(ps.operands)
           /\ os = SubSeq(ps.operands, 1, rest)
           /\ IsSeq(refs) /\ DOMAIN refs = 1 .. arity
           /\ \A i \in 1 .. arity : refs[i] = ps.operands[rest + i].index
  BY DEF Splits
<1>2. Len(ps.operands) \in Nat /\ DOMAIN ps.operands = 1 .. Len(ps.operands)
  BY StackParts
<1>3. \A i \in 1 .. arity : rest + i \in DOMAIN ps.operands
  BY <1>1, <1>2
<1> QED
  BY <1>1, <1>3 DEF StacksGood, OperandGood

LEMMA CombineGood ==
  ASSUME NEW ps, NEW m \in Nat, NEW C, StacksGood(ps, m), Covered(ps.nodes, ps.operands, C),
         NEW os, NEW refs, Splits(ps.operands, os, refs), NEW name, NEW cmp
  PROVE  Becomes(pushNode(WithOperands(ps, os), Node("combination", name, <<>>, refs, 0), cmp),
                 ps, m, C)
<1> DEFINE node == Node("combination", name, <<>>, refs, 0)
<1>1. IsSeq(refs) /\ \A i \in DOMAIN refs : refs[i] \in 1 .. Len(ps.nodes)
  BY SplitIndices
<1>2. NodeGood(node, Len(ps.nodes))
  BY <1>1, PlainNodeGood, Zenon
<1>3. node.args = refs
  BY DEF Node
<1> HIDE DEF node
<1>4. Becomes(pushNode(WithOperands(ps, os), node, cmp), ps, m, C)
  BY <1>2, <1>3, TakeOverGood
<1> QED
  BY <1>4, Zenon DEF node

(* buildCombinationNode: the operator's node takes over its operands. *)
LEMMA BuildCombinationGood ==
  ASSUME NEW ps, NEW m \in Nat, NEW C, PSGood(ps, m, C), NEW op
  PROVE  Becomes(buildCombinationNode(ps, op), ps, m, C)
<1> DEFINE arity   == IF op \in Unary THEN 1 ELSE 2
           rest    == Len(ps.operands) - arity
           args    == SubSeq(ps.operands, rest + 1, Len(ps.operands))
           chained == /\ op \in Comparison
                      /\ \E i \in DOMAIN args : args[i].comparison /\ ~args[i].parenthesized
           refs    == [i \in DOMAIN args |-> args[i].index]
           name    == <<operatorToProto(op)>>
           os      == SubSeq(ps.operands, 1, rest)
           left    == [ps EXCEPT !.operands = os]
           fails   == ~ps.ok \/ rest < 0 \/ (chained /\ options.disallowChaining)
           cmp     == op \in Comparison
           new     == pushNode(left, Node("combination", name, <<>>, refs, 0), cmp)
<1>1. StacksGood(ps, m)
  BY DEF PSGood
<1>2. buildCombinationNode(ps, op) = IF fails THEN Fail(ps) ELSE new
  BY DEF buildCombinationNode
<1>3. CASE fails
  <2>1. buildCombinationNode(ps, op) = Fail(ps)
    BY <1>2, <1>3
  <2>2. Fail(ps).operators = ps.operators
    BY <1>1, OkSet, Zenon DEF Fail
  <2> QED
    BY <1>1, <2>1, <2>2, FailGood DEF Becomes
<1>4. CASE ~fails
  <2>1. Len(ps.operands) \in Nat /\ IsSeq(ps.operands)
    BY <1>1, StackParts
  <2>2. arity \in Nat /\ rest \in Nat /\ rest + arity = Len(ps.operands)
    <3>1. arity \in Nat
      OBVIOUS
    <3>2. ~(rest < 0)
      BY <1>4, Zenon
    <3>3. rest = Len(ps.operands) - arity
      OBVIOUS
    <3> HIDE DEF arity, rest
    <3> QED
      BY <2>1, <3>1, <3>2, <3>3
  <2>3. Covered(ps.nodes, ps.operands, C)
    BY <1>4, Zenon DEF PSGood
  <2>4. buildCombinationNode(ps, op) = new
    BY <1>2, <1>4
  <2> HIDE DEF arity, rest, cmp, fails, name
  <2>5. DOMAIN args = 1 .. arity /\ \A i \in 1 .. arity : args[i] = ps.operands[rest + i]
    BY <2>1, <2>2, LastOperands
  <2> HIDE DEF args
  <2>6. /\ DOMAIN refs = 1 .. arity /\ refs = [i \in 1 .. arity |-> refs[i]]
        /\ \A i \in 1 .. arity : refs[i] = ps.operands[rest + i].index
    BY <2>5
  <2> HIDE DEF refs
  <2>7. IsSeq(refs)
    <3>1. \A i \in 1 .. arity : refs[i] \in ToSet(refs)
      BY <2>6 DEF ToSet
    <3> QED
      BY <2>2, <2>6, <3>1, IsASeq DEF IsSeq
  <2>8. Splits(ps.operands, os, refs)
    BY <2>2, <2>6, <2>7 DEF Splits
  <2>9. new = pushNode(WithOperands(ps, os), Node("combination", name, <<>>, refs, 0), cmp)
    BY <1>1, OperandsSet, Zenon
  <2> HIDE DEF os, left, new
  <2>10. Becomes(new, ps, m, C)
    BY <1>1, <2>3, <2>8, <2>9, CombineGood, Zenon
  <2> QED
    BY <2>4, <2>10
<1> QED
  BY <1>3, <1>4

-----------------------------------------------------------------------------
(* Popping operators. *)

LEMMA TopmostFacts ==
  ASSUME NEW ps, NEW m \in Nat, StacksGood(ps, m), NEW S
  PROVE  /\ Topmost(ps, S) \in 0 .. Len(ps.operators)
         /\ Topmost(ps, S) > 0 => ps.operators[Topmost(ps, S)] \in S
<1> DEFINE P == {0} \cup {i \in DOMAIN ps.operators : ps.operators[i] \in S}
<1>1. Len(ps.operators) \in Nat /\ DOMAIN ps.operators = 1 .. Len(ps.operators)
  BY StackParts
<1>2. P \subseteq 0 .. Len(ps.operators) /\ 0 \in P
  BY <1>1
<1>3. \A i \in P : i # 0 => ps.operators[i] \in S
  OBVIOUS
<1>4. Topmost(ps, S) = Max(P)
  BY DEF Topmost
<1> HIDE DEF P
<1>5. Max(P) \in P
  BY <1>1, <1>2, LargestUpTo
<1>6. Max(P) \in 0 .. Len(ps.operators)
  BY <1>2, <1>5
<1>7. Max(P) > 0 => ps.operators[Max(P)] \in S
  BY <1>3, <1>5, <1>6
<1> QED
  BY <1>4, <1>6, <1>7

\* The states while k operators are popped, from the end of ops.
Pops(g, k, first, ops) ==
  /\ g = [i \in 0 .. k |-> g[i]]
  /\ g[0] = first
  /\ \A i \in 1 .. k : g[i] = buildCombinationNode(g[i - 1], ops[Len(ops) - i + 1])

LEMMA PopsExtend ==
  ASSUME NEW k \in Nat, NEW g, NEW first, NEW ops, Pops(g, k, first, ops)
  PROVE  \E h : Pops(h, k + 1, first, ops)
<1> DEFINE x == buildCombinationNode(g[k], ops[Len(ops) - (k + 1) + 1])
<1>0. x = buildCombinationNode(g[k], ops[Len(ops) - (k + 1) + 1])
  OBVIOUS
<1> HIDE DEF x
<1> DEFINE h == [i \in 0 .. k + 1 |-> IF i = k + 1 THEN x ELSE g[i]]
<1>1. h = [i \in 0 .. k + 1 |-> h[i]] /\ h[k + 1] = x /\ \A i \in 0 .. k : h[i] = g[i]
  OBVIOUS
<1> HIDE DEF h
<1>2. h[0] = first
  BY <1>1 DEF Pops
<1>3. ASSUME NEW i \in 1 .. k + 1
      PROVE  h[i] = buildCombinationNode(h[i - 1], ops[Len(ops) - i + 1])
  <2>1. CASE i \in 1 .. k
    <3>1. i \in 0 .. k /\ i - 1 \in 0 .. k
      BY <2>1
    <3> QED
      BY <1>1, <2>1, <3>1 DEF Pops
  <2>2. CASE i = k + 1
    <3>1. i - 1 = k /\ k \in 0 .. k
      BY <2>2
    <3>2. h[i - 1] = g[k] /\ h[i] = x
      BY <1>1, <2>2, <3>1
    <3> QED
      BY <1>0, <2>2, <3>2
  <2> QED
    BY <2>1, <2>2
<1>4. Pops(h, k + 1, first, ops)
  BY <1>1, <1>2, <1>3 DEF Pops
<1> QED
  BY <1>4

LEMMA PopsExist ==
  ASSUME NEW n \in Nat, NEW first, NEW ops
  PROVE  \E g : Pops(g, n, first, ops)
<1> DEFINE T == {k \in Nat : \E g : Pops(g, k, first, ops)}
<1>1. 0 \in T
  <2> DEFINE g == [i \in 0 .. 0 |-> first]
  <2>1. Pops(g, 0, first, ops)
    BY DEF Pops
  <2> QED
    BY <2>1
<1>2. \A k \in 0 .. n - 1 : k \in T => k + 1 \in T
  BY PopsExtend
<1> HIDE DEF T
<1>3. n \in T
  BY <1>1, <1>2, InductionUpTo
<1> QED
  BY <1>3 DEF T

\* What popping the operators above position j leaves.
PoppedTo(new, ps, j, m, C) == PSGood(new, m, C) /\ new.operators = SubSeq(ps.operators, 1, j)

LEMMA PopsGood ==
  ASSUME NEW n \in Nat, NEW first, NEW ops, NEW g, Pops(g, n, first, ops),
         NEW m \in Nat, NEW C, PSGood(first, m, C)
  PROVE  Becomes(g[n], first, m, C)
<1> DEFINE T == {k \in Nat : k <= n => Becomes(g[k], first, m, C)}
<1>1. 0 \in T
  BY DEF Pops, Becomes
<1>2. ASSUME NEW k \in 0 .. n - 1, k \in T PROVE k + 1 \in T
  <2>1. Becomes(g[k], first, m, C)
    BY <1>2
  <2>2. k + 1 \in 1 .. n /\ (k + 1) - 1 = k
    OBVIOUS
  <2>3. g[k + 1] = buildCombinationNode(g[k], ops[Len(ops) - (k + 1) + 1])
    BY <2>2 DEF Pops
  <2>4. Becomes(g[k + 1], g[k], m, C)
    BY <2>1, <2>3, BuildCombinationGood DEF Becomes
  <2> QED
    BY <2>1, <2>4 DEF Becomes
<1> HIDE DEF T
<1>3. n \in T
  BY <1>1, <1>2, InductionUpTo
<1> QED
  BY <1>3 DEF T

\* The same, as PopTo defines it.
PopFunction(g, d, first, ops) ==
  g = [k \in 0 .. d |->
         IF k = 0 THEN first ELSE buildCombinationNode(g[k - 1], ops[Len(ops) - k + 1])]

LEMMA PopsFunction ==
  ASSUME NEW d \in Nat, NEW g, NEW first, NEW ops
  PROVE  Pops(g, d, first, ops) <=> PopFunction(g, d, first, ops)
<1>1. ASSUME Pops(g, d, first, ops)
      PROVE  g = [k \in 0 .. d |-> IF k = 0 THEN first
                                   ELSE buildCombinationNode(g[k - 1], ops[Len(ops) - k + 1])]
  <2>1. \A k \in 0 .. d : g[k] = IF k = 0 THEN first
                                 ELSE buildCombinationNode(g[k - 1], ops[Len(ops) - k + 1])
    <3> TAKE k \in 0 .. d
    <3>1. k = 0 \/ k \in 1 .. d
      OBVIOUS
    <3> QED
      BY <1>1, <3>1 DEF Pops
  <2>2. g = [k \in 0 .. d |-> g[k]]
    BY <1>1 DEF Pops
  <2> QED
    BY <2>1, <2>2, Zenon
<1>2. ASSUME g = [k \in 0 .. d |-> IF k = 0 THEN first
                                   ELSE buildCombinationNode(g[k - 1], ops[Len(ops) - k + 1])]
      PROVE  Pops(g, d, first, ops)
  <2>1. \A k \in 0 .. d : g[k] = IF k = 0 THEN first
                                 ELSE buildCombinationNode(g[k - 1], ops[Len(ops) - k + 1])
    BY <1>2, Zenon
  <2>2. DOMAIN g = 0 .. d
    BY <1>2, Zenon
  <2>3. g = [k \in DOMAIN g |-> g[k]]
    <3> DEFINE e(k) == IF k = 0 THEN first ELSE buildCombinationNode(g[k - 1], ops[Len(ops) - k + 1])
               h == [k \in 0 .. d |-> e(k)]
    <3>1. h = [k \in DOMAIN h |-> h[k]]
      BY Zenon
    <3>2. g = h
      BY <1>2, Zenon
    <3> HIDE DEF h
    <3> QED
      BY <3>1, <3>2
  <2>4. \A k \in 1 .. d : k \in 0 .. d /\ k # 0
    OBVIOUS
  <2>5. 0 \in 0 .. d
    OBVIOUS
  <2> QED
    BY <2>1, <2>2, <2>3, <2>4, <2>5, Zenon DEF Pops
<1> QED
  BY <1>1, <1>2, Zenon DEF PopFunction

LEMMA PopToGood ==
  ASSUME NEW ps, NEW m \in Nat, NEW C, PSGood(ps, m, C), NEW j \in 0 .. Len(ps.operators)
  PROVE  PoppedTo(PopTo(ps, j), ps, j, m, C)
<1> DEFINE n     == Len(ps.operators)
           s     == SubSeq(ps.operators, 1, j)
           first == [ps EXCEPT !.operators = s]
           after[k \in 0 .. (n - j)] ==
             IF k = 0 THEN first ELSE buildCombinationNode(after[k - 1], ps.operators[n - k + 1])
<1>1. n \in Nat /\ n - j \in Nat /\ IsSeq(ps.operators)
  BY StackParts DEF PSGood
<1>2. PopTo(ps, j) = after[n - j]
  BY Zenon DEF PopTo
<1>3. IsSeq(s)
  BY <1>1, PrefixFacts
<1>4. PSGood(first, m, C) /\ first.operators = s
  <2> HIDE DEF s
  <2> QED
    BY <1>3, OperatorsSet
<1> HIDE DEF first
<1>5. Pops(after, n - j, first, ps.operators)
  <2>1. PICK g : Pops(g, n - j, first, ps.operators)
    BY <1>1, PopsExist
  <2>2. PopFunction(g, n - j, first, ps.operators)
    BY <1>1, <2>1, PopsFunction
  <2>3. PopFunction(after, n - j, first, ps.operators)
    BY <2>2, Zenon DEF PopFunction
  <2> HIDE DEF after
  <2> QED
    BY <1>1, <2>3, PopsFunction
<1> HIDE DEF after
<1>6. Becomes(after[n - j], first, m, C)
  BY <1>1, <1>4, <1>5, PopsGood
<1> QED
  BY <1>2, <1>4, <1>6 DEF Becomes, PoppedTo

-----------------------------------------------------------------------------
(* The handlers of compileTokens, one lemma each. *)

LEMMA PushGood ==
  ASSUME NEW ps, NEW m \in Nat, NEW C, PSGood(ps, m, C), NEW op
  PROVE  PSGood(Push(ps, op), m, C)
<1> DEFINE s == Append(ps.operators, op)
<1>1. IsSeq(ps.operators)
  BY StackParts DEF PSGood
<1>2. IsSeq(s)
  BY <1>1, AppendFacts
<1>3. Push(ps, op) = [ps EXCEPT !.operators = s]
  BY DEF Push
<1> HIDE DEF s
<1> QED
  BY <1>2, <1>3, OperatorsSet

LEMMA CollapseGood ==
  ASSUME NEW ps, NEW m \in Nat, NEW C, PSGood(ps, m, C), NEW target
  PROVE  PSGood(collapseOperators(ps, target), m, C)
<1> DEFINE S == {op \in DOMAIN precedence : precedence[op] < target}
<1>1. collapseOperators(ps, target) = PopTo(ps, Topmost(ps, S))
  BY DEF collapseOperators
<1> HIDE DEF S
<1>2. Topmost(ps, S) \in 0 .. Len(ps.operators)
  BY TopmostFacts DEF PSGood
<1> QED
  BY <1>1, <1>2, PopToGood DEF PoppedTo

\* The operand at position k, with parentheses around it.
LEMMA MarkGood ==
  ASSUME NEW ps, NEW m \in Nat, NEW C, PSGood(ps, m, C), NEW k \in DOMAIN ps.operands, NEW b
  PROVE  Becomes([ps EXCEPT !.operands[k].parenthesized = b], ps, m, C)
<1> DEFINE operand == ps.operands[k]
           marked  == [index |-> operand.index, comparison |-> operand.comparison, parenthesized |-> b]
           os      == [ps.operands EXCEPT ![k] = marked]
<1>1. StacksGood(ps, m)
  BY DEF PSGood
<1>2. /\ Len(ps.operands) \in Nat /\ DOMAIN ps.operands = 1 .. Len(ps.operands)
      /\ IsSeq(ps.operands)
  BY <1>1, StackParts
<1>3. OperandGood(operand, Len(ps.nodes))
  BY <1>1 DEF StacksGood
<1>4. [operand EXCEPT !.parenthesized = b] = marked
  <2> HIDE DEF operand
  <2> QED
    BY <1>3 DEF OperandGood
<1>5. [ps EXCEPT !.operands[k].parenthesized = b] = [ps EXCEPT !.operands = os]
  BY <1>4, Zenon
<1>6. OperandGood(marked, Len(ps.nodes)) /\ marked.index = operand.index
  <2> HIDE DEF operand
  <2> QED
    BY <1>3 DEF OperandGood
<1> HIDE DEF marked
<1>7. /\ IsSeq(os) /\ Len(os) = Len(ps.operands)
      /\ \A i \in 1 .. Len(ps.operands) : os[i] = IF i = k THEN marked ELSE ps.operands[i]
  BY <1>2, ExceptFacts
<1>8. DOMAIN os = 1 .. Len(ps.operands)
  BY <1>7, SeqFacts
<1> HIDE DEF os
<1>9. \A i \in DOMAIN os : OperandGood(os[i], Len(ps.nodes)) /\ os[i].index = ps.operands[i].index
  BY <1>1, <1>2, <1>6, <1>7, <1>8 DEF StacksGood
<1>10. Covered(ps.nodes, ps.operands, C) => Covered(ps.nodes, os, C)
  BY <1>2, <1>8, <1>9 DEF Covered
<1> DEFINE new == WithOperands(ps, os)
<1>11. [ps EXCEPT !.operands[k].parenthesized = b] = new
  BY <1>1, <1>5, OperandsSet, Zenon
<1>12. /\ new = [operands |-> new.operands, operators |-> new.operators, nodes |-> new.nodes,
                 ok |-> new.ok]
       /\ new.operands = os /\ new.operators = ps.operators
       /\ new.nodes = ps.nodes /\ new.ok = ps.ok
  BY DEF WithOperands
<1> HIDE DEF new
<1>13. PSGood(new, m, C)
  BY <1>7, <1>9, <1>10, <1>12, Zenon DEF PSGood, StacksGood
<1>14. Becomes(new, ps, m, C)
  BY <1>12, <1>13 DEF Becomes
<1> QED
  BY <1>11, <1>14, Zenon

(* The operators above position i are dropped. *)
LEMMA DropGood ==
  ASSUME NEW ps, NEW m \in Nat, NEW C, PSGood(ps, m, C), NEW i \in 0 .. Len(ps.operators)
  PROVE  PSGood([ps EXCEPT !.operators = SubSeq(@, 1, i)], m, C)
<1> DEFINE s == SubSeq(ps.operators, 1, i)
<1>1. IsSeq(ps.operators)
  BY StackParts DEF PSGood
<1>2. IsSeq(s)
  BY <1>1, PrefixFacts
<1>3. [ps EXCEPT !.operators = SubSeq(@, 1, i)] = [ps EXCEPT !.operators = s]
  BY Zenon
<1> HIDE DEF s
<1>4. PSGood([ps EXCEPT !.operators = s], m, C)
  BY <1>2, OperatorsSet
<1> QED
  BY <1>3, <1>4, Zenon

LEMMA PoppedLength ==
  ASSUME NEW new, NEW ps, NEW m \in Nat, NEW C, PSGood(ps, m, C), NEW j \in 0 .. Len(ps.operators),
         PoppedTo(new, ps, j, m, C)
  PROVE  PSGood(new, m, C) /\ Len(new.operators) = j
<1>1. IsSeq(ps.operators)
  BY StackParts DEF PSGood
<1> QED
  BY <1>1, PrefixFacts DEF PoppedTo

LEMMA CloseParenGood ==
  ASSUME NEW ps, NEW m \in Nat, NEW C, PSGood(ps, m, C), NEW j \in 0 .. Len(ps.operators),
         NEW inner, PoppedTo(inner, ps, j, m, C)
  PROVE  PSGood(closeParen(ps, j, inner), m, C)
<1> DEFINE enclosing == IF j > 1 THEN ps.operators[j - 1] ELSE ""
           operand   == Last(inner.operands)
           builder   == /\ inner.operands # <<>>
                        /\ ~operand.parenthesized
                        /\ inner.nodes[operand.index].type = "builder"
           redundant == /\ j = Len(ps.operators)
                        /\ ~builder
                        /\ enclosing \notin FunctionLike \cup Unary
           marked    == IF inner.operands = <<>> THEN inner
                        ELSE [inner EXCEPT !.operands[Len(inner.operands)].parenthesized = TRUE]
           fails1    == j = 0 \/ ~inner.ok
           fails2    == ps.operators[j] = "[" \/ redundant
           called    == buildCombinationNode([marked EXCEPT !.operators = SubSeq(@, 1, j - 2)], enclosing)
           plain     == [marked EXCEPT !.operators = SubSeq(@, 1, j - 1)]
<1>1. closeParen(ps, j, inner) =
        IF fails1 THEN Fail(ps)
        ELSE IF fails2 THEN Fail(ps)
        ELSE IF enclosing \in FunctionLike THEN called ELSE plain
  BY Zenon DEF closeParen
<1>2. PSGood(Fail(ps), m, C)
  BY FailGood DEF PSGood
<1>3. PSGood(inner, m, C) /\ Len(inner.operators) = j /\ Len(ps.operators) \in Nat
  BY PoppedLength, StackParts DEF PSGood
<1>4. Becomes(marked, inner, m, C)
  <2>1. CASE inner.operands = <<>>
    BY <1>3, <2>1 DEF Becomes
  <2>2. CASE inner.operands # <<>>
    <3>1. /\ Len(inner.operands) \in Nat /\ DOMAIN inner.operands = 1 .. Len(inner.operands)
          /\ IsSeq(inner.operands)
      BY <1>3, StackParts DEF PSGood
    <3>2. Len(inner.operands) # 0
      BY <2>2, <3>1, EmptySeq DEF IsSeq
    <3>3. Len(inner.operands) \in DOMAIN inner.operands
      BY <3>1, <3>2
    <3>4. \A b : Becomes([inner EXCEPT !.operands[Len(inner.operands)].parenthesized = b], inner, m, C)
      BY <1>3, <3>3, MarkGood, Zenon
    <3> QED
      BY <2>2, <3>4, Zenon
  <2> QED
    BY <2>1, <2>2
<1> HIDE DEF marked
<1>5. PSGood(marked, m, C) /\ Len(marked.operators) = j
  BY <1>3, <1>4 DEF Becomes
<1>6. CASE fails1 \/ fails2
  BY <1>1, <1>2, <1>6, Zenon
<1>7. CASE ~fails1 /\ ~fails2
  <2>1. j # 0
    BY <1>7, Zenon
  <2>2. CASE enclosing \in FunctionLike
    <3>1. j > 1
      BY <2>2 DEF FunctionLike
    <3>2. j - 2 \in 0 .. Len(marked.operators)
      BY <1>3, <1>5, <3>1
    <3>3. PSGood([marked EXCEPT !.operators = SubSeq(@, 1, j - 2)], m, C)
      BY <1>5, <3>2, DropGood, Zenon
    <3>4. PSGood(called, m, C)
      BY <3>3, BuildCombinationGood, Zenon DEF Becomes
    <3> QED
      BY <1>1, <1>7, <2>2, <3>4, Zenon
  <2>3. CASE enclosing \notin FunctionLike
    <3>1. j - 1 \in 0 .. Len(marked.operators)
      BY <1>3, <1>5, <2>1
    <3>2. PSGood(plain, m, C)
      BY <1>5, <3>1, DropGood, Zenon
    <3> QED
      BY <1>1, <1>7, <2>3, <3>2, Zenon
  <2> QED
    BY <2>2, <2>3
<1> QED
  BY <1>6, <1>7

LEMMA RightParenGood ==
  ASSUME NEW ps, NEW m \in Nat, NEW C, PSGood(ps, m, C)
  PROVE  PSGood(handleRightParen(ps), m, C)
<1> DEFINE j == Topmost(ps, {"(", "["})
<1>1. j \in 0 .. Len(ps.operators)
  BY TopmostFacts DEF PSGood
<1>2. handleRightParen(ps) = closeParen(ps, j, PopTo(ps, j))
  BY DEF handleRightParen
<1> HIDE DEF j
<1> QED
  BY <1>1, <1>2, PopToGood, CloseParenGood

LEMMA RightSquareBracketGood ==
  ASSUME NEW ps, NEW m \in Nat, NEW C, PSGood(ps, m, C)
  PROVE  PSGood(handleRightSquareBracket(ps), m, C)
<1> DEFINE j == Topmost(ps, {"(", "["})
           closed == [PopTo(ps, j) EXCEPT !.operators = SubSeq(@, 1, j - 1)]
           fails == ps.operators[j] = "(" \/ ps.operators[j - 1] # "subscript"
<1>1. j \in 0 .. Len(ps.operators)
  BY TopmostFacts DEF PSGood
<1>2. handleRightSquareBracket(ps) =
        IF j < 2 THEN Fail(ps) ELSE IF fails THEN Fail(ps) ELSE closed
  BY Zenon DEF handleRightSquareBracket
<1>3. PSGood(Fail(ps), m, C) /\ Len(ps.operators) \in Nat
  BY FailGood, StackParts DEF PSGood
<1> HIDE DEF j
<1>4. PSGood(PopTo(ps, j), m, C) /\ Len(PopTo(ps, j).operators) = j
  <2>1. PoppedTo(PopTo(ps, j), ps, j, m, C)
    BY <1>1, PopToGood
  <2> QED
    BY <1>1, <2>1, PoppedLength, Zenon
<1>5. CASE j < 2
  BY <1>2, <1>3, <1>5
<1>6. CASE ~(j < 2)
  <2>1. j - 1 \in 0 .. Len(PopTo(ps, j).operators)
    BY <1>1, <1>3, <1>4, <1>6
  <2>2. PSGood(closed, m, C)
    BY <1>4, <2>1, DropGood, Zenon
  <2> QED
    BY <1>2, <1>3, <2>2, Zenon
<1> QED
  BY <1>5, <1>6

LEMMA CommaGood ==
  ASSUME NEW ps, NEW m \in Nat, NEW C, PSGood(ps, m, C), NEW before
  PROVE  PSGood(handleComma(ps, before), m, C)
<1> DEFINE j == Topmost(ps, {"(", "["})
<1>1. j \in 0 .. Len(ps.operators)
  BY TopmostFacts DEF PSGood
<1>2. PSGood(Fail(ps), m, C)
  BY FailGood DEF PSGood
<1>3. handleComma(ps, before) = Fail(ps) \/ handleComma(ps, before) = PopTo(ps, j)
  BY Zenon DEF handleComma
<1> HIDE DEF j
<1>4. PSGood(PopTo(ps, j), m, C)
  BY <1>1, PopToGood DEF PoppedTo
<1> QED
  BY <1>2, <1>3, <1>4

LEMMA FrontFacts ==
  ASSUME NEW s, IsSeq(s), s # <<>>
  PROVE  /\ Len(s) - 1 \in Nat
         /\ Front(s) = SubSeq(s, 1, Len(s) - 1)
         /\ Last(s) = s[Len(s)]
<1>1. s \in Seq(ToSet(s)) /\ Len(s) \in Nat
  BY DEF IsSeq
<1>2. Len(s) # 0
  BY <1>1, EmptySeq
<1> QED
  BY <1>1, <1>2 DEF Front, Last

(* A leaf with the operand its field is accessed of. *)
LEMMA LeafOf ==
  ASSUME NEW leaf, NEW k, NodeGood(leaf, k), NEW a, IsSeq(a), NEW n, \A i \in DOMAIN a : a[i] \in 1 .. n
  PROVE  NodeGood([leaf EXCEPT !.args = a], n) /\ [leaf EXCEPT !.args = a].args = a
<1> DEFINE new == [leaf EXCEPT !.args = a]
<1>1. new = Node(leaf.type, leaf.name, leaf.names, a, leaf.value)
  BY DEF NodeGood, Node
<1>2. /\ new = Node(new.type, new.name, new.names, new.args, new.value)
      /\ new.type = leaf.type /\ new.args = a /\ new.value = leaf.value
  <2> HIDE DEF new
  <2> QED
    BY <1>1, Zenon DEF Node
<1> HIDE DEF new
<1>3. NodeGood(new, n)
  BY <1>2 DEF NodeGood, NarrowestType
<1> QED
  BY <1>2, <1>3 DEF new

LEMMA AccessFieldGood ==
  ASSUME NEW ps, NEW m \in Nat, NEW C, PSGood(ps, m, C), NEW leaf, NEW k, NodeGood(leaf, k)
  PROVE  PSGood(accessField(ps, leaf), m, C)
<1> DEFINE refs == <<Last(ps.operands).index>>
           os   == Front(ps.operands)
           left == [ps EXCEPT !.operands = os]
           node == [leaf EXCEPT !.args = refs]
<1>1. accessField(ps, leaf) =
        IF ~ps.ok \/ ps.operands = <<>> THEN Fail(ps) ELSE pushNode(left, node, FALSE)
  BY DEF accessField
<1>2. StacksGood(ps, m)
  BY DEF PSGood
<1>3. PSGood(Fail(ps), m, C)
  BY <1>2, FailGood
<1>4. CASE ~ps.ok \/ ps.operands = <<>>
  BY <1>1, <1>3, <1>4
<1>5. CASE ~(~ps.ok \/ ps.operands = <<>>)
  <2>1. accessField(ps, leaf) = pushNode(left, node, FALSE)
    BY <1>1, <1>5, Zenon
  <2>2. Covered(ps.nodes, ps.operands, C)
    BY <1>5, Zenon DEF PSGood
  <2>3. Len(ps.operands) \in Nat /\ IsSeq(ps.operands)
    BY <1>2, StackParts
  <2>4. /\ Len(ps.operands) - 1 \in Nat
        /\ os = SubSeq(ps.operands, 1, Len(ps.operands) - 1)
        /\ refs[1] = ps.operands[Len(ps.operands)].index
    BY <1>5, <2>3, FrontFacts
  <2>5. IsSeq(refs) /\ DOMAIN refs = {1}
    BY SingletonFacts, Zenon
  <2> HIDE DEF refs, os
  <2>6. Splits(ps.operands, os, refs)
    <3>1. 1 \in Nat /\ (Len(ps.operands) - 1) + 1 = Len(ps.operands) /\ 1 .. 1 = {1}
      BY <2>3
    <3>2. \A i \in 1 .. 1 : refs[i] = ps.operands[(Len(ps.operands) - 1) + i].index
      BY <2>3, <2>4
    <3> QED
      BY <2>4, <2>5, <3>1, <3>2 DEF Splits
  <2>7. \A i \in DOMAIN refs : refs[i] \in 1 .. Len(ps.nodes)
    BY <1>2, <2>6, SplitIndices
  <2>8. NodeGood(node, Len(ps.nodes)) /\ node.args = refs
    BY <2>5, <2>7, LeafOf, Zenon
  <2>9. left = WithOperands(ps, os)
    BY <1>2, OperandsSet, Zenon
  <2> HIDE DEF node, left
  <2>10. \A b : Becomes(pushNode(WithOperands(ps, os), node, b), ps, m, C)
    BY <1>2, <2>2, <2>6, <2>8, TakeOverGood
  <2>11. PSGood(pushNode(left, node, FALSE), m, C)
    BY <2>9, <2>10, Zenon DEF Becomes
  <2> QED
    BY <2>1, <2>11, Zenon
<1> QED
  BY <1>4, <1>5

LEMMA PostfixGood ==
  ASSUME NEW ps, NEW m \in Nat, NEW C, PSGood(ps, m, C), NEW before,
         NEW leaf, NEW k, NodeGood(leaf, k)
  PROVE  PSGood(handlePostfix(ps, before, leaf), m, C)
<1> DEFINE collapsed == collapseOperators(ps, precedence["subscript"])
<1>1. PSGood(Fail(ps), m, C)
  BY FailGood DEF PSGood
<1>2. handlePostfix(ps, before, leaf) = Fail(ps)
      \/ handlePostfix(ps, before, leaf) = accessField(collapsed, leaf)
  BY Zenon DEF handlePostfix
<1>3. PSGood(collapsed, m, C)
  BY CollapseGood
<1> HIDE DEF collapsed
<1>4. PSGood(accessField(collapsed, leaf), m, C)
  BY <1>3, AccessFieldGood
<1> QED
  BY <1>1, <1>2, <1>4

-----------------------------------------------------------------------------
(* compileTokens. *)

LEMMA CompileTokenGood ==
  ASSUME NEW ps, NEW m \in Nat, NEW C, NEW tokens, NEW i, TokenGood(tokens[i], m),
         PSGood(ps, m, C \cup TokenArgs(tokens[i]))
  PROVE  PSGood(compileToken(ps, tokens, i), m, C)
<1> DEFINE op     == tokens[i].op
           node   == tokens[i].node
           before == SubSeq(tokens, 1, i - 1)
           target == precedence[op] + (IF options.rightAssociative /\ op = "**" THEN 1 ELSE 0)
           deep   == collapseOperators(ps, precedence["subscript"])
           new    == compileToken(ps, tokens, i)
           operand  == IF node.type = "field" /\ IsPostfix(node.name)
                       THEN handlePostfix(ps, before, node) ELSE pushNode(ps, node, FALSE)
           function == IF i < Len(tokens) /\ tokens[i + 1].op = "(" THEN Push(ps, op) ELSE Fail(ps)
           paren    == IF i > 1 /\ tokens[i - 1].op = "," THEN Fail(ps) ELSE handleRightParen(ps)
           index    == Push(Push(deep, "subscript"), "[")
           binary   == Push(collapseOperators(ps, target), op)
           arms     == CASE op = "" -> operand
                         [] op \in FunctionLike -> function
                         [] op = "," -> handleComma(ps, before)
                         [] op \in {"neg", "!", "("} -> Push(ps, op)
                         [] op = ")" -> paren
                         [] op = "[" -> index
                         [] op = "]" -> handleRightSquareBracket(ps)
                         [] OTHER -> binary
<1>0. new = IF ~ps.ok THEN ps ELSE arms
  BY DEF compileToken
<1>1. StacksGood(ps, m)
  BY DEF PSGood
<1>2. CASE ~ps.ok
  <2>1. new = ps
    BY <1>0, <1>2, Zenon
  <2> QED
    BY <1>2, <2>1 DEF PSGood
<1>3. CASE ps.ok /\ op = ""
  <2>1. \/ node.type = "field" /\ new = handlePostfix(ps, before, node)
        \/ new = pushNode(ps, node, FALSE)
    <3>1. new = arms
      BY <1>0, <1>3, Zenon
    <3> HIDE DEF new, operand, function, paren, index, binary
    <3>2. new = operand
      BY <1>3, <3>1 DEF FunctionLike
    <3> QED
      BY <3>2, Zenon DEF operand
  <2>2. /\ NodeGood(node, m) /\ (node.type = "field" => node.args = <<>>)
        /\ TokenArgs(tokens[i]) = ToSet(node.args)
    BY <1>3 DEF TokenGood, TokenArgs
  <2>3. m <= Len(ps.nodes) /\ Len(ps.nodes) \in Nat
    BY <1>1, StackParts DEF StacksGood
  <2>4. Covered(ps.nodes, ps.operands, C \cup ToSet(node.args))
    BY <1>3, <2>2, Zenon DEF PSGood
  <2> HIDE DEF new, op, node, before
  <2>5. CASE node.type = "field" /\ new = handlePostfix(ps, before, node)
    <3>1. C \cup TokenArgs(tokens[i]) = C
      BY <2>2, <2>5, EmptyFacts
    <3>2. PSGood(ps, m, C)
      BY <3>1
    <3> QED
      BY <2>2, <2>5, <3>2, PostfixGood DEF new
  <2>6. CASE new = pushNode(ps, node, FALSE)
    <3>1. NodeGood(node, Len(ps.nodes))
      BY <2>2, <2>3, NodeGrows
    <3>2. \A b : Becomes(pushNode(ps, node, b), ps, m, C)
      BY <1>1, <2>4, <3>1, PushNodeGood, Zenon
    <3> QED
      BY <2>6, <3>2, Zenon DEF Becomes, new
  <2> QED
    BY <2>1, <2>5, <2>6
<1>4. CASE ps.ok /\ op # ""
  <2>1. PSGood(ps, m, C)
    <3>1. C \cup TokenArgs(tokens[i]) = C
      BY <1>4 DEF TokenArgs
    <3> QED
      BY <3>1
  <2>2. \/ new = Fail(ps) \/ new = Push(ps, op) \/ new = handleComma(ps, before)
        \/ new = handleRightParen(ps) \/ new = handleRightSquareBracket(ps)
        \/ new = Push(Push(deep, "subscript"), "[")
        \/ new = binary
    <3>1. new = arms
      BY <1>0, <1>4, Zenon
    <3> HIDE DEF new, operand, function, paren, index, binary
    <3>2. \/ new = function \/ new = handleComma(ps, before) \/ new = Push(ps, op)
          \/ new = paren \/ new = index \/ new = handleRightSquareBracket(ps) \/ new = binary
      <4> HIDE DEF op, before
      <4>1. op # ""
        BY <1>4
      <4>2. CASE op \in FunctionLike
        <5>1. op \notin {",", "neg", "!", "(", ")", "[", "]"}
          BY <4>2 DEF FunctionLike
        <5>2. new = function
          BY <3>1, <4>1, <4>2, <5>1
        <5> QED
          BY <5>2
      <4>3. CASE op \notin FunctionLike /\ op = ","
        BY <3>1, <4>3
      <4>4. CASE op \notin FunctionLike /\ op \in {"neg", "!", "("}
        BY <3>1, <4>4
      <4>5. CASE op \notin FunctionLike /\ op = ")"
        BY <3>1, <4>5
      <4>6. CASE op \notin FunctionLike /\ op = "["
        BY <3>1, <4>6
      <4>7. CASE op \notin FunctionLike /\ op = "]"
        BY <3>1, <4>7
      <4>8. CASE op \notin FunctionLike /\ op \notin {",", "neg", "!", "(", ")", "[", "]"}
        <5>1. new = binary
          BY <3>1, <4>1, <4>8
        <5> QED
          BY <5>1
      <4> QED
        BY <4>2, <4>3, <4>4, <4>5, <4>6, <4>7, <4>8
    <3>3. function = Push(ps, op) \/ function = Fail(ps)
      BY Zenon DEF function
    <3>4. paren = Fail(ps) \/ paren = handleRightParen(ps)
      BY Zenon DEF paren
    <3> QED
      BY <3>2, <3>3, <3>4, Zenon DEF index
  <2> HIDE DEF new, op, before, target, arms, function, operand
  <2>3. PSGood(Fail(ps), m, C)
    BY <1>1, FailGood
  <2>4. PSGood(Push(ps, op), m, C)
    BY <2>1, PushGood
  <2>5. PSGood(handleComma(ps, before), m, C)
    BY <2>1, CommaGood
  <2>6. PSGood(handleRightParen(ps), m, C) /\ PSGood(handleRightSquareBracket(ps), m, C)
    BY <2>1, RightParenGood, RightSquareBracketGood
  <2>7. PSGood(deep, m, C)
    BY <2>1, CollapseGood
  <2> HIDE DEF deep
  <2>8. PSGood(Push(Push(deep, "subscript"), "["), m, C)
    BY <2>7, PushGood
  <2>9. PSGood(Push(collapseOperators(ps, target), op), m, C)
    BY <2>1, CollapseGood, PushGood
  <2>10. PSGood(new, m, C)
    BY <2>2, <2>3, <2>4, <2>5, <2>6, <2>8, <2>9
  <2> QED
    BY <2>10 DEF new
<1> QED
  BY <1>2, <1>3, <1>4, <1>1 DEF StacksGood

\* The states after each of the first n tokens.
Compiles(g, n, first, tokens) ==
  /\ g = [i \in 0 .. n |-> g[i]]
  /\ g[0] = first
  /\ \A i \in 1 .. n : g[i] = compileToken(g[i - 1], tokens, i)

\* The same, as compileTokens defines it.
CompileFunction(g, n, first, tokens) ==
  g = [i \in 0 .. n |-> IF i = 0 THEN first ELSE compileToken(g[i - 1], tokens, i)]

LEMMA CompilesExtend ==
  ASSUME NEW k \in Nat, NEW g, NEW first, NEW tokens, Compiles(g, k, first, tokens)
  PROVE  \E h : Compiles(h, k + 1, first, tokens)
<1> DEFINE x == compileToken(g[k], tokens, k + 1)
<1>0. x = compileToken(g[k], tokens, k + 1)
  OBVIOUS
<1> HIDE DEF x
<1> DEFINE h == [i \in 0 .. k + 1 |-> IF i = k + 1 THEN x ELSE g[i]]
<1>1. h = [i \in 0 .. k + 1 |-> h[i]] /\ h[k + 1] = x /\ \A i \in 0 .. k : h[i] = g[i]
  OBVIOUS
<1> HIDE DEF h
<1>2. h[0] = first
  <2>1. 0 \in 0 .. k /\ g[0] = first
    BY DEF Compiles
  <2> QED
    BY <1>1, <2>1
<1>3. ASSUME NEW i \in 1 .. k + 1 PROVE h[i] = compileToken(h[i - 1], tokens, i)
  <2>1. CASE i \in 1 .. k
    <3>1. i \in 0 .. k /\ i - 1 \in 0 .. k
      BY <2>1
    <3> QED
      BY <1>1, <2>1, <3>1 DEF Compiles
  <2>2. CASE i = k + 1
    <3>1. i - 1 = k /\ k \in 0 .. k
      BY <2>2
    <3>2. h[i - 1] = g[k] /\ h[i] = x
      BY <1>1, <2>2, <3>1
    <3> QED
      BY <1>0, <2>2, <3>2
  <2> QED
    BY <2>1, <2>2
<1>4. Compiles(h, k + 1, first, tokens)
  BY <1>1, <1>2, <1>3 DEF Compiles
<1> QED
  BY <1>4

LEMMA CompilesExist ==
  ASSUME NEW n \in Nat, NEW first, NEW tokens
  PROVE  \E g : Compiles(g, n, first, tokens)
<1> DEFINE T == {k \in Nat : \E g : Compiles(g, k, first, tokens)}
<1>1. 0 \in T
  <2> DEFINE g == [i \in 0 .. 0 |-> first]
  <2>1. Compiles(g, 0, first, tokens)
    BY DEF Compiles
  <2> QED
    BY <2>1
<1>2. \A k \in 0 .. n - 1 : k \in T => k + 1 \in T
  BY CompilesExtend
<1> HIDE DEF T
<1>3. n \in T
  BY <1>1, <1>2, InductionUpTo
<1> QED
  BY <1>3 DEF T

LEMMA CompilesFunction ==
  ASSUME NEW n \in Nat, NEW g, NEW first, NEW tokens
  PROVE  Compiles(g, n, first, tokens) <=> CompileFunction(g, n, first, tokens)
<1> DEFINE e(i) == IF i = 0 THEN first ELSE compileToken(g[i - 1], tokens, i)
           h == [i \in 0 .. n |-> e(i)]
<1>0. CompileFunction(g, n, first, tokens) <=> g = h
  BY Zenon DEF CompileFunction
<1>1. ASSUME Compiles(g, n, first, tokens) PROVE g = h
  <2>1. \A i \in 0 .. n : g[i] = e(i)
    <3> TAKE i \in 0 .. n
    <3>1. i = 0 \/ i \in 1 .. n
      OBVIOUS
    <3> QED
      BY <1>1, <3>1 DEF Compiles
  <2>2. g = [i \in 0 .. n |-> g[i]]
    BY <1>1 DEF Compiles
  <2> QED
    BY <2>1, <2>2, Zenon
<1>2. ASSUME g = h PROVE Compiles(g, n, first, tokens)
  <2>1. h = [i \in DOMAIN h |-> h[i]] /\ DOMAIN h = 0 .. n /\ \A i \in 0 .. n : h[i] = e(i)
    BY Zenon
  <2>2. g = [i \in DOMAIN g |-> g[i]] /\ DOMAIN g = 0 .. n /\ \A i \in 0 .. n : g[i] = e(i)
    <3> HIDE DEF h
    <3> QED
      BY <1>2, <2>1
  <2>3. \A i \in 1 .. n : i \in 0 .. n /\ i # 0
    OBVIOUS
  <2>4. 0 \in 0 .. n
    OBVIOUS
  <2> QED
    BY <2>2, <2>3, <2>4, Zenon DEF Compiles
<1> QED
  BY <1>0, <1>1, <1>2

\* What the tokens after the first i refer to.
Pending(tokens, i) == UNION {TokenArgs(tokens[t]) : t \in {t \in DOMAIN tokens : t > i}}

LEMMA CompilesGood ==
  ASSUME NEW tokens, IsSeq(tokens), NEW m \in Nat, NEW C, NEW first, NEW g,
         \A t \in DOMAIN tokens : TokenGood(tokens[t], m),
         PSGood(first, m, C \cup Pending(tokens, 0)),
         Compiles(g, Len(tokens), first, tokens)
  PROVE  PSGood(g[Len(tokens)], m, C)
<1> DEFINE n == Len(tokens)
           T == {k \in Nat : k <= n => PSGood(g[k], m, C \cup Pending(tokens, k))}
<1>0. n \in Nat /\ DOMAIN tokens = 1 .. n
  BY SeqFacts
<1> HIDE DEF n
<1>1. 0 \in T
  BY DEF Compiles
<1>2. ASSUME NEW k \in 0 .. n - 1, k \in T PROVE k + 1 \in T
  <2>1. PSGood(g[k], m, C \cup Pending(tokens, k))
    BY <1>0, <1>2
  <2>2. k + 1 \in 1 .. n /\ (k + 1) - 1 = k
    BY <1>0
  <2>3. g[k + 1] = compileToken(g[k], tokens, k + 1)
    BY <2>2 DEF Compiles, n
  <2>4. C \cup Pending(tokens, k) = (C \cup Pending(tokens, k + 1)) \cup TokenArgs(tokens[k + 1])
    <3>1. {t \in DOMAIN tokens : t > k} = {t \in DOMAIN tokens : t > k + 1} \cup {k + 1}
      BY <1>0, <2>2
    <3> QED
      BY <3>1, Zenon DEF Pending
  <2>5. TokenGood(tokens[k + 1], m)
    BY <1>0, <2>2
  <2>6. PSGood(g[k + 1], m, C \cup Pending(tokens, k + 1))
    BY <2>1, <2>3, <2>4, <2>5, CompileTokenGood
  <2> QED
    BY <2>6
<1> HIDE DEF T
<1>3. n \in T
  BY <1>0, <1>1, <1>2, InductionUpTo
<1>4. Pending(tokens, n) = {}
  BY <1>0 DEF Pending
<1>5. PSGood(g[n], m, C \cup Pending(tokens, n))
  BY <1>0, <1>3 DEF T
<1>6. C \cup Pending(tokens, n) = C
  BY <1>4
<1> QED
  BY <1>5, <1>6 DEF n

\* What compileTokens makes of tokens, when it meets no error.
Compiled(r, m, C) ==
  /\ NodesGood(r.nodes)
  /\ m <= Len(r.nodes)
  /\ r.root \in 1 .. Len(r.nodes)
  /\ Covered(r.nodes, <<>>, C \cup {r.root})

LEMMA CompiledToGood ==
  ASSUME NEW ps, NEW m \in Nat, NEW C, PSGood(ps, m, C), compiledTo(ps).ok
  PROVE  Compiled(compiledTo(ps), m, C)
<1>1. Complete(ps)
  BY Zenon DEF compiledTo
<1>2. /\ compiledTo(ps).nodes = ps.nodes
      /\ compiledTo(ps).root = Last(ps.operands).index
  BY <1>1, Zenon DEF compiledTo
<1>3. Len(ps.operands) = 1
  BY <1>1, Zenon DEF Complete
<1>4. Covered(ps.nodes, ps.operands, C)
  BY <1>1, Zenon DEF Complete, PSGood
<1>5. /\ NodesGood(ps.nodes) /\ m <= Len(ps.nodes) /\ Len(ps.nodes) \in Nat
      /\ DOMAIN ps.operands = 1 .. Len(ps.operands)
      /\ \A o \in DOMAIN ps.operands : OperandGood(ps.operands[o], Len(ps.nodes))
  BY StackParts DEF PSGood, StacksGood
<1>6. Last(ps.operands) = ps.operands[1] /\ DOMAIN ps.operands = {1}
  BY <1>3, <1>5 DEF Last
<1>7. ps.operands[1].index \in 1 .. Len(ps.nodes)
  BY <1>5, <1>6 DEF OperandGood
<1>8. Covered(ps.nodes, <<>>, C \cup {ps.operands[1].index})
  BY <1>4, <1>6 DEF Covered
<1> QED
  BY <1>2, <1>5, <1>6, <1>7, <1>8 DEF Compiled

LEMMA PopRestGood ==
  ASSUME NEW ps, NEW m \in Nat, NEW C, PSGood(ps, m, C)
  PROVE  PSGood(popRest(ps), m, C)
<1>1. popRest(ps) = PopTo(ps, 0) \/ popRest(ps) = Fail(ps)
  BY Zenon DEF popRest
<1>2. PSGood(Fail(ps), m, C) /\ Len(ps.operators) \in Nat
  BY FailGood, StackParts DEF PSGood
<1>3. 0 \in 0 .. Len(ps.operators)
  BY <1>2
<1>4. PoppedTo(PopTo(ps, 0), ps, 0, m, C)
  BY <1>3, PopToGood
<1> QED
  BY <1>1, <1>2, <1>4 DEF PoppedTo

LEMMA CompileTokensGood ==
  ASSUME NEW tokens, IsSeq(tokens), NEW C, NodesGood(nodes),
         \A t \in DOMAIN tokens : TokenGood(tokens[t], Len(nodes)),
         Covered(nodes, <<>>, C \cup Pending(tokens, 0)),
         compileTokens(tokens).ok
  PROVE  Compiled(compileTokens(tokens), Len(nodes), C)
<1> DEFINE m == Len(nodes)
           first == [operands |-> <<>>, operators |-> <<>>, nodes |-> nodes, ok |-> TRUE]
           after[i \in 0 .. Len(tokens)] ==
             IF i = 0 THEN first ELSE compileToken(after[i - 1], tokens, i)
           n == Len(tokens)
<1>0. m \in Nat /\ n \in Nat
  BY SeqFacts DEF NodesGood
<1>1. compileTokens(tokens) = compiledTo(popRest(after[n]))
  BY Zenon DEF compileTokens
<1>2. /\ first = [operands |-> first.operands, operators |-> first.operators,
                  nodes |-> first.nodes, ok |-> first.ok]
      /\ first.operands = <<>> /\ first.operators = <<>> /\ first.nodes = nodes
      /\ first.ok = TRUE
  BY Zenon
<1> HIDE DEF first
<1>3. PSGood(first, m, C \cup Pending(tokens, 0))
  <2>1. IsSeq(<<>>) /\ DOMAIN <<>> = {}
    BY EmptyFacts
  <2>2. m <= Len(nodes)
    BY <1>0
  <2>3. StacksGood(first, m)
    BY <1>2, <2>1, <2>2, Zenon DEF StacksGood
  <2> QED
    BY <1>2, <2>3, Zenon DEF PSGood
<1>4. Compiles(after, n, first, tokens)
  <2>1. PICK g : Compiles(g, n, first, tokens)
    BY <1>0, CompilesExist
  <2>2. CompileFunction(g, n, first, tokens)
    BY <1>0, <2>1, CompilesFunction
  <2>3. CompileFunction(after, n, first, tokens)
    BY <2>2, Zenon DEF CompileFunction
  <2> HIDE DEF after
  <2> QED
    BY <1>0, <2>3, CompilesFunction
<1> HIDE DEF after, n, m
<1>5. PSGood(after[n], m, C)
  BY <1>0, <1>3, <1>4, CompilesGood DEF n, m
<1>6. PSGood(popRest(after[n]), m, C)
  BY <1>0, <1>5, PopRestGood
<1>7. Compiled(compiledTo(popRest(after[n])), m, C)
  BY <1>0, <1>1, <1>6, CompiledToGood
<1> QED
  BY <1>1, <1>7 DEF m

-----------------------------------------------------------------------------
(* Frames. *)

\* A sequence whose last element is replaced by f.
TopIs(new, fs, f) ==
  /\ IsSeq(new) /\ Len(new) = Len(fs)
  /\ \A i \in 1 .. Len(fs) : new[i] = IF i = Len(fs) THEN f ELSE fs[i]

\* What the frame may be in place of the last one of fs.
TopOk(f, fs) ==
  /\ Len(fs) > 1 => InField(f)
  /\ Len(fs) = 1 => f.reading = "value" /\ f.names = <<>> /\ f.args = <<>>

LEMMA CoveredMore ==
  ASSUME NEW ns, NEW os, NEW C, NEW D, Covered(ns, os, C), C \subseteq D
  PROVE  Covered(ns, os, D)
  BY DEF Covered

LEMMA HeldMember ==
  ASSUME NEW fs, NEW x PROVE x \in HeldIn(fs) <=> \E i \in DOMAIN fs : x \in FrameArgs(fs[i])
  BY Zenon DEF HeldIn

\* What the frames hold, the last one apart.
Below(fs) == UNION {FrameArgs(fs[i]) : i \in 1 .. Len(fs) - 1}

LEMMA BelowMember ==
  ASSUME NEW fs, NEW x
  PROVE  x \in Below(fs) <=> \E i \in 1 .. Len(fs) - 1 : x \in FrameArgs(fs[i])
  BY Zenon DEF Below

LEMMA FrameArgsMember ==
  ASSUME NEW f, NEW x
  PROVE  x \in FrameArgs(f) <=>
           x \in ToSet(f.args) \/ \E t \in DOMAIN f.tokens : x \in TokenArgs(f.tokens[t])
  BY Zenon DEF FrameArgs

LEMMA TopFacts ==
  ASSUME NEW fs, NEW k, FramesOk(fs, k)
  PROVE  /\ Len(fs) \in Nat /\ Len(fs) > 0 /\ DOMAIN fs = 1 .. Len(fs) /\ IsSeq(fs)
         /\ Len(fs) \in DOMAIN fs /\ 1 \in DOMAIN fs
         /\ Last(fs) = fs[Len(fs)]
         /\ FrameGood(fs[Len(fs)], k)
         /\ TopOk(fs[Len(fs)], fs)
<1>1. IsSeq(fs) /\ fs # <<>> /\ Len(fs) \in Nat /\ DOMAIN fs = 1 .. Len(fs)
  BY SeqFacts DEF FramesOk
<1>2. Len(fs) - 1 \in Nat /\ Last(fs) = fs[Len(fs)]
  BY <1>1, FrontFacts
<1>3. Len(fs) > 0 /\ Len(fs) \in DOMAIN fs /\ 1 \in DOMAIN fs
  BY <1>1, <1>2
<1>4. FrameGood(fs[Len(fs)], k)
  BY <1>3 DEF FramesOk
<1>5. TopOk(fs[Len(fs)], fs)
  BY <1>1, <1>3 DEF FramesOk, TopOk
<1> QED
  BY <1>1, <1>2, <1>3, <1>4, <1>5

LEMMA FrameGrows ==
  ASSUME NEW f, NEW k \in Nat, NEW m \in Nat, k <= m, FrameGood(f, k)
  PROVE  FrameGood(f, m)
<1>1. \A a \in DOMAIN f.args : f.args[a] \in 1 .. m
  BY DEF FrameGood
<1>2. \A t \in DOMAIN f.tokens : TokenGood(f.tokens[t], m)
  BY NodeGrows DEF FrameGood, TokenGood
<1> QED
  BY <1>1, <1>2 DEF FrameGood

(* The last frame is replaced, while the list of nodes may grow. *)
LEMMA TopReplaced ==
  ASSUME NEW fs, NEW k \in Nat, NEW m \in Nat, k <= m, FramesOk(fs, k),
         NEW f, FrameGood(f, m), TopOk(f, fs), NEW new, TopIs(new, fs, f)
  PROVE  /\ FramesOk(new, m)
         /\ HeldIn(new) = Below(fs) \cup FrameArgs(f)
<1>1. Len(fs) \in Nat /\ Len(fs) > 0 /\ DOMAIN fs = 1 .. Len(fs)
  BY TopFacts
<1>2. /\ IsSeq(new) /\ Len(new) = Len(fs) /\ DOMAIN new = 1 .. Len(fs)
      /\ new[Len(fs)] = f
      /\ \A i \in 1 .. Len(fs) - 1 : new[i] = fs[i]
  BY <1>1, SeqFacts DEF TopIs
<1>3. new # <<>>
  BY <1>1, <1>2, EmptyFacts
<1>4. \A i \in DOMAIN new : FrameGood(new[i], m)
  <2> SUFFICES ASSUME NEW i \in DOMAIN new PROVE FrameGood(new[i], m)
    OBVIOUS
  <2>1. CASE i = Len(fs)
    BY <1>2, <2>1
  <2>2. CASE i \in 1 .. Len(fs) - 1
    <3>1. FrameGood(fs[i], k)
      BY <1>1, <2>2 DEF FramesOk
    <3> QED
      BY <1>2, <2>2, <3>1, FrameGrows
  <2> QED
    BY <1>1, <1>2, <2>1, <2>2
<1>5. \A i \in DOMAIN new : i > 1 => InField(new[i])
  BY <1>1, <1>2 DEF FramesOk, TopOk
<1>6. \A i \in DOMAIN new : i < Len(new) => new[i].reading = "value"
  BY <1>1, <1>2 DEF FramesOk
<1>7. new[1].reading = "value" /\ new[1].names = <<>> /\ new[1].args = <<>>
  BY <1>1, <1>2 DEF FramesOk, TopOk
<1>8. HeldIn(new) = Below(fs) \cup FrameArgs(f)
  <2>1. DOMAIN new = (1 .. Len(fs) - 1) \cup {Len(fs)}
    BY <1>1, <1>2
  <2>2. ASSUME NEW x PROVE x \in HeldIn(new) <=> x \in Below(fs) \cup FrameArgs(f)
    BY <1>2, <2>1, HeldMember, BelowMember, Zenon
  <2> QED
    BY <2>2, Zenon
<1> QED
  BY <1>2, <1>3, <1>4, <1>5, <1>6, <1>7, <1>8 DEF FramesOk

LEMMA HeldParts ==
  ASSUME NEW fs, NEW k, FramesOk(fs, k)
  PROVE  HeldIn(fs) = Below(fs) \cup FrameArgs(fs[Len(fs)])
<1>1. DOMAIN fs = (1 .. Len(fs) - 1) \cup {Len(fs)}
  BY TopFacts
<1>2. ASSUME NEW x PROVE x \in HeldIn(fs) <=> x \in Below(fs) \cup FrameArgs(fs[Len(fs)])
  BY <1>1, HeldMember, BelowMember, Zenon
<1> QED
  BY <1>2, Zenon

FrameOf(type, names, args, reading, tokens, open) ==
  [type |-> type, names |-> names, args |-> args, reading |-> reading, tokens |-> tokens,
   open |-> open]

Shaped(f) == f = FrameOf(f.type, f.names, f.args, f.reading, f.tokens, f.open)

LEMMA FrameFields ==
  ASSUME NEW type, NEW names, NEW args, NEW reading, NEW tokens, NEW open,
         NEW f, f = FrameOf(type, names, args, reading, tokens, open)
  PROVE  /\ f.type = type /\ f.names = names /\ f.args = args /\ f.reading = reading
         /\ f.tokens = tokens /\ f.open = open /\ Shaped(f)
  BY DEF FrameOf, Shaped

LEMMA TopExcept ==
  ASSUME NEW fs, IsSeq(fs), NEW n, n = Len(fs), n \in DOMAIN fs, NEW f
  PROVE  TopIs([fs EXCEPT ![n] = f], fs, f)
<1> DEFINE new == [fs EXCEPT ![Len(fs)] = f]
<1>1. Len(fs) \in 1 .. Len(fs)
  BY SeqFacts
<1>2. IsSeq(new)
  BY <1>1, ExceptFacts, Zenon
<1>3. Len(new) = Len(fs)
  BY <1>1, ExceptFacts, Zenon
<1>4. \A i \in 1 .. Len(fs) : new[i] = IF i = Len(fs) THEN f ELSE fs[i]
  BY <1>1, SeqFacts
<1> HIDE DEF new
<1>5. TopIs(new, fs, f)
  BY <1>2, <1>3, <1>4, Zenon DEF TopIs
<1> QED
  BY <1>5, Zenon DEF new

LEMMA TopTwice ==
  ASSUME NEW fs, NEW mid, NEW new, NEW f, NEW g, IsSeq(fs), TopIs(mid, fs, f), TopIs(new, mid, g)
  PROVE  TopIs(new, fs, g)
<1>1. Len(fs) \in Nat
  BY SeqFacts
<1> QED
  BY <1>1 DEF TopIs

LEMMA TokensSet ==
  ASSUME NEW fs, IsSeq(fs), NEW n, n = Len(fs), n \in DOMAIN fs, Shaped(fs[n]), NEW x
  PROVE  LET t == fs[n]
         IN  TopIs([fs EXCEPT ![n].tokens = x], fs,
                   FrameOf(t.type, t.names, t.args, t.reading, x, t.open))
<1> DEFINE t == fs[n]
           f == FrameOf(t.type, t.names, t.args, t.reading, x, t.open)
<1>1. [fs EXCEPT ![n].tokens = x] = [fs EXCEPT ![n] = [t EXCEPT !.tokens = x]]
  BY Zenon
<1>2. [t EXCEPT !.tokens = x] = f
  <2> HIDE DEF t
  <2>1. Shaped(t)
    BY DEF t
  <2> QED
    BY <2>1 DEF Shaped, FrameOf
<1> HIDE DEF f
<1>3. TopIs([fs EXCEPT ![n] = f], fs, f)
  BY TopExcept
<1> QED
  BY <1>1, <1>2, <1>3, Zenon DEF f

LEMMA ArgsSet ==
  ASSUME NEW fs, IsSeq(fs), NEW n, n = Len(fs), n \in DOMAIN fs, Shaped(fs[n]), NEW x
  PROVE  LET t == fs[n]
         IN  TopIs([fs EXCEPT ![n].args = x], fs,
                   FrameOf(t.type, t.names, x, t.reading, t.tokens, t.open))
<1> DEFINE t == fs[n]
           f == FrameOf(t.type, t.names, x, t.reading, t.tokens, t.open)
<1>1. [fs EXCEPT ![n].args = x] = [fs EXCEPT ![n] = [t EXCEPT !.args = x]]
  BY Zenon
<1>2. [t EXCEPT !.args = x] = f
  <2> HIDE DEF t
  <2>1. Shaped(t)
    BY DEF t
  <2> QED
    BY <2>1 DEF Shaped, FrameOf
<1> HIDE DEF f
<1>3. TopIs([fs EXCEPT ![n] = f], fs, f)
  BY TopExcept
<1> QED
  BY <1>1, <1>2, <1>3, Zenon DEF f

LEMMA NamesSet ==
  ASSUME NEW fs, IsSeq(fs), NEW n, n = Len(fs), n \in DOMAIN fs, Shaped(fs[n]), NEW x
  PROVE  LET t == fs[n]
         IN  TopIs([fs EXCEPT ![n].names = x], fs,
                   FrameOf(t.type, x, t.args, t.reading, t.tokens, t.open))
<1> DEFINE t == fs[n]
           f == FrameOf(t.type, x, t.args, t.reading, t.tokens, t.open)
<1>1. [fs EXCEPT ![n].names = x] = [fs EXCEPT ![n] = [t EXCEPT !.names = x]]
  BY Zenon
<1>2. [t EXCEPT !.names = x] = f
  <2> HIDE DEF t
  <2>1. Shaped(t)
    BY DEF t
  <2> QED
    BY <2>1 DEF Shaped, FrameOf
<1> HIDE DEF f
<1>3. TopIs([fs EXCEPT ![n] = f], fs, f)
  BY TopExcept
<1> QED
  BY <1>1, <1>2, <1>3, Zenon DEF f

LEMMA ReadingSet ==
  ASSUME NEW fs, IsSeq(fs), NEW n, n = Len(fs), n \in DOMAIN fs, Shaped(fs[n]), NEW x
  PROVE  LET t == fs[n]
         IN  TopIs([fs EXCEPT ![n].reading = x], fs,
                   FrameOf(t.type, t.names, t.args, x, t.tokens, t.open))
<1> DEFINE t == fs[n]
           f == FrameOf(t.type, t.names, t.args, x, t.tokens, t.open)
<1>1. [fs EXCEPT ![n].reading = x] = [fs EXCEPT ![n] = [t EXCEPT !.reading = x]]
  BY Zenon
<1>2. [t EXCEPT !.reading = x] = f
  <2> HIDE DEF t
  <2>1. Shaped(t)
    BY DEF t
  <2> QED
    BY <2>1 DEF Shaped, FrameOf
<1> HIDE DEF f
<1>3. TopIs([fs EXCEPT ![n] = f], fs, f)
  BY TopExcept
<1> QED
  BY <1>1, <1>2, <1>3, Zenon DEF f

LEMMA OpenSet ==
  ASSUME NEW fs, IsSeq(fs), NEW n, n = Len(fs), n \in DOMAIN fs, Shaped(fs[n]), NEW x
  PROVE  LET t == fs[n]
         IN  TopIs([fs EXCEPT ![n].open = x], fs,
                   FrameOf(t.type, t.names, t.args, t.reading, t.tokens, x))
<1> DEFINE t == fs[n]
           f == FrameOf(t.type, t.names, t.args, t.reading, t.tokens, x)
<1>1. [fs EXCEPT ![n].open = x] = [fs EXCEPT ![n] = [t EXCEPT !.open = x]]
  BY Zenon
<1>2. [t EXCEPT !.open = x] = f
  <2> HIDE DEF t
  <2>1. Shaped(t)
    BY DEF t
  <2> QED
    BY <2>1 DEF Shaped, FrameOf
<1> HIDE DEF f
<1>3. TopIs([fs EXCEPT ![n] = f], fs, f)
  BY TopExcept
<1> QED
  BY <1>1, <1>2, <1>3, Zenon DEF f

-----------------------------------------------------------------------------
(* The actions. *)

LEMMA ReadingFacts ==
  ASSUME IInv
  PROVE  /\ Len(nodes) \in Nat /\ Len(Tokens) \in Nat /\ pos \in Nat /\ pos > 0
         /\ Tokens \in Seq(LexerToken) /\ DOMAIN session = 1 .. Len(session) /\ Len(session) \in Nat
<1>1. Len(nodes) \in Nat
  BY SeqFacts DEF IInv, NodesGood
<1>2. Tokens \in Seq(LexerToken)
  BY DEF IInv, Reading, Tokens
<1>3. Len(Tokens) \in Nat
  BY <1>2
<1>4. pos \in Nat /\ pos > 0
  BY <1>3 DEF IInv, Reading
<1>5. DOMAIN session = 1 .. Len(session) /\ Len(session) \in Nat
  BY SeqFacts DEF IInv, Reading
<1> QED
  BY <1>1, <1>2, <1>3, <1>4, <1>5

(* What the stream gives, and how far it may be read. *)
LEMMA TokenFacts ==
  ASSUME IInv, NEW n \in Nat
  PROVE  /\ Token(n).value \in Int
         /\ Token(n).parts \in Seq(STRING)
         /\ Token(n).kind # "eof" => pos + n + 1 \in 1 .. Len(Tokens) + 1
<1>1. /\ Len(Tokens) \in Nat /\ pos \in Nat /\ pos > 0 /\ Tokens \in Seq(LexerToken)
  BY ReadingFacts
<1> DEFINE eof == [kind |-> "eof", parts |-> <<>>, value |-> 0]
<1>2. eof.kind = "eof" /\ eof.parts \in Seq(STRING) /\ eof.value \in Int
  OBVIOUS
<1>3. Token(n) = IF pos + n <= Len(Tokens) THEN Tokens[pos + n] ELSE eof
  BY DEF Token
<1> HIDE DEF eof
<1>4. CASE pos + n <= Len(Tokens)
  <2>1. pos + n \in 1 .. Len(Tokens) /\ pos + n + 1 \in 1 .. Len(Tokens) + 1
    BY <1>1, <1>4
  <2>2. Tokens[pos + n] \in LexerToken
    BY <1>1, <2>1
  <2> QED
    BY <1>3, <1>4, <2>1, <2>2 DEF LexerToken
<1>5. CASE ~(pos + n <= Len(Tokens))
  BY <1>2, <1>3, <1>5
<1> QED
  BY <1>4, <1>5

(* A step that changes the frames only. *)
LEMMA FrameStep ==
  ASSUME IInv, outcome = "parsing", UNCHANGED <<session, options, current, nodes, mapping, outcome>>,
         pos' \in 1 .. Len(Tokens) + 1, FramesOk(frames', Len(nodes)),
         HeldIn(frames) \subseteq HeldIn(frames')
  PROVE  IInv'
<1>1. Tokens' = Tokens
  BY DEF Tokens
<1>2. Reading'
  BY <1>1 DEF IInv, Reading
<1>3. FramesGood' /\ NodesGood(nodes)'
  BY DEF IInv, FramesGood
<1>4. MappingGood'
  BY DEF IInv, MappingGood
<1>5. Covered(nodes, <<>>, Held)
  BY DEF IInv
<1>6. Held \subseteq ToSet(mapping) \cup HeldIn(frames')
  BY DEF Held
<1>7. Covered(nodes, <<>>, ToSet(mapping) \cup HeldIn(frames'))
  BY <1>5, <1>6, CoveredMore
<1>8. (Covered(nodes, <<>>, Held))'
  BY <1>7 DEF Held
<1> QED
  BY <1>2, <1>3, <1>4, <1>8 DEF IInv

LEMMA RejectKeeps ==
  ASSUME IInv, outcome = "parsing", Reject
  PROVE  IInv'
<1>1. Tokens' = Tokens
  BY DEF Tokens, Reject
<1>2. Reading'
  BY <1>1 DEF IInv, Reading, Reject
<1>3. FramesGood' /\ NodesGood(nodes)'
  BY DEF IInv, FramesGood, Reject
<1>4. MappingGood'
  BY DEF IInv, MappingGood, Reject
<1> QED
  BY <1>2, <1>3, <1>4 DEF IInv, Reject

Appended(f, t, k, token) ==
  /\ FrameGood(f, k)
  /\ FrameArgs(t) \subseteq FrameArgs(f) /\ TokenArgs(token) \subseteq FrameArgs(f)
  /\ t.reading = "value" => (InField(t) => InField(f))

(* A token more in the last frame, which keeps all else. *)
LEMMA AppendedFrame ==
  ASSUME NEW t, NEW k, FrameGood(t, k), NEW token, TokenGood(token, k), NEW open, IsSeq(open),
         NEW f, f = FrameOf(t.type, t.names, t.args, t.reading, Append(t.tokens, token), open)
  PROVE  Appended(f, t, k, token)
<1> DEFINE ts == Append(t.tokens, token)
<1>1. IsSeq(t.tokens) /\ Len(t.tokens) \in Nat /\ DOMAIN t.tokens = 1 .. Len(t.tokens)
  BY SeqFacts DEF FrameGood
<1>2. /\ IsSeq(ts) /\ DOMAIN ts = 1 .. Len(t.tokens) + 1
      /\ \A i \in 1 .. Len(t.tokens) : ts[i] = t.tokens[i]
      /\ ts[Len(t.tokens) + 1] = token
  BY <1>1, AppendFacts
<1> HIDE DEF ts
<1>3. /\ f.type = t.type /\ f.names = t.names /\ f.args = t.args /\ f.reading = t.reading
      /\ f.tokens = ts /\ f.open = open /\ Shaped(f)
  BY DEF FrameOf, Shaped, ts
<1>4. \A i \in DOMAIN ts : TokenGood(ts[i], k)
  BY <1>1, <1>2 DEF FrameGood
<1>5. FrameGood(f, k)
  BY <1>2, <1>3, <1>4 DEF FrameGood, Shaped, FrameOf
<1>6. FrameArgs(t) \subseteq FrameArgs(f) /\ TokenArgs(token) \subseteq FrameArgs(f)
  <2>1. \A i \in DOMAIN t.tokens : i \in DOMAIN ts /\ ts[i] = t.tokens[i]
    BY <1>1, <1>2
  <2>2. Len(t.tokens) + 1 \in DOMAIN ts
    BY <1>1, <1>2
  <2>3. ToSet(t.args) = ToSet(f.args)
    BY <1>3
  <2>4. ASSUME NEW y \in FrameArgs(t) PROVE y \in FrameArgs(f)
    <3>1. CASE y \in ToSet(t.args)
      BY <2>3, <3>1, FrameArgsMember, Zenon
    <3>2. CASE \E i \in DOMAIN t.tokens : y \in TokenArgs(t.tokens[i])
      <4>1. \E i \in DOMAIN f.tokens : y \in TokenArgs(f.tokens[i])
        BY <1>3, <2>1, <3>2, Zenon
      <4> QED
        BY <4>1, FrameArgsMember, Zenon
    <3> QED
      BY <2>4, <3>1, <3>2, FrameArgsMember, Zenon
  <2>5. ASSUME NEW y \in TokenArgs(token) PROVE y \in FrameArgs(f)
    <3>1. \E i \in DOMAIN f.tokens : y \in TokenArgs(f.tokens[i])
      BY <1>2, <1>3, <2>2, <2>5, Zenon
    <3> QED
      BY <3>1, FrameArgsMember, Zenon
  <2> QED
    BY <2>4, <2>5, Zenon
<1>7. t.reading = "value" => (InField(t) => InField(f))
  BY <1>3 DEF InField
<1> QED
  BY <1>5, <1>6, <1>7 DEF Appended

(* A token is added to the expression that is being read. *)
LEMMA TokenAdded ==
  ASSUME IInv, ReadingValue, UNCHANGED <<session, options, current, nodes, mapping, outcome>>,
         pos' \in 1 .. Len(Tokens) + 1, NEW token, TokenGood(token, Len(nodes)),
         NEW open, IsSeq(open),
         TopIs(frames', frames, FrameOf(top.type, top.names, top.args, top.reading,
                                        Append(top.tokens, token), open))
  PROVE  IInv'
<1> DEFINE f == FrameOf(top.type, top.names, top.args, top.reading, Append(top.tokens, token), open)
           k == Len(nodes)
<1>1. FramesOk(frames, k) /\ k \in Nat
  BY ReadingFacts DEF IInv, FramesGood
<1>2. /\ top = frames[Len(frames)] /\ FrameGood(top, k) /\ TopOk(top, frames)
  BY <1>1, TopFacts DEF top
<1>3. top.reading = "value" /\ outcome = "parsing"
  BY DEF ReadingValue
<1>4. f = FrameOf(top.type, top.names, top.args, top.reading, Append(top.tokens, token), open)
  OBVIOUS
<1> HIDE DEF f, k
<1>5. /\ FrameGood(f, k) /\ FrameArgs(top) \subseteq FrameArgs(f)
      /\ InField(top) => InField(f)
  <2>1. Appended(f, top, k, token)
    BY <1>2, <1>4, AppendedFrame, Zenon DEF k
  <2> QED
    BY <1>3, <2>1, Zenon DEF Appended
<1>6. TopOk(f, frames)
  <2>1. f.reading = top.reading /\ f.names = top.names /\ f.args = top.args
    BY <1>4 DEF FrameOf
  <2> QED
    BY <1>2, <1>5, <2>1 DEF TopOk
<1>7. TopIs(frames', frames, f)
  BY <1>4, Zenon
<1>8. FramesOk(frames', k) /\ HeldIn(frames') = Below(frames) \cup FrameArgs(f)
  BY <1>1, <1>5, <1>6, <1>7, TopReplaced
<1>9. HeldIn(frames) = Below(frames) \cup FrameArgs(top)
  BY <1>1, <1>2, HeldParts
<1>10. HeldIn(frames) \subseteq HeldIn(frames')
  BY <1>5, <1>8, <1>9
<1> QED
  BY <1>3, <1>8, <1>10, FrameStep DEF k

LEMMA TakeKeeps ==
  ASSUME IInv, ReadingValue, NEW n \in Nat, pos + n \in 1 .. Len(Tokens) + 1,
         NEW token, TokenGood(token, Len(nodes)), Take(n, token)
  PROVE  IInv'
<1> DEFINE x == Append(frames[Len(frames)].tokens, token)
<1>1. FramesOk(frames, Len(nodes))
  BY DEF IInv, FramesGood
<1>2. /\ IsSeq(frames) /\ Len(frames) \in DOMAIN frames
      /\ top = frames[Len(frames)] /\ FrameGood(top, Len(nodes))
  BY <1>1, TopFacts DEF top
<1>3. Shaped(top) /\ IsSeq(top.open)
  BY <1>2 DEF FrameGood, Shaped, FrameOf
<1>4. frames' = [frames EXCEPT ![Len(frames)].tokens = x]
  BY Zenon DEF Take
<1>5. TopIs(frames', frames, FrameOf(top.type, top.names, top.args, top.reading, x, top.open))
  <2> HIDE DEF x
  <2> QED
    BY <1>2, <1>3, <1>4, TokensSet, Zenon
<1>6. x = Append(top.tokens, token)
  BY <1>2
<1>7. /\ UNCHANGED <<session, options, current, nodes, mapping, outcome>>
      /\ pos' \in 1 .. Len(Tokens) + 1
  BY DEF Take
<1> HIDE DEF x
<1> QED
  BY <1>3, <1>5, <1>6, <1>7, TokenAdded

LEMMA LiteralGood ==
  ASSUME NEW token, token.kind \in {"bool", "number", "float"}, NEW v \in Int, NEW k,
         Literal(token, v).type # "none"
  PROVE  TokenGood(Operand(Literal(token, v)), k)
<1> DEFINE type == CASE token.kind = "bool" -> "bool"
                     [] token.kind = "float" -> "double"
                     [] token.kind = "number" -> resolveBigInt(v)
           n == Literal(token, v)
<1>1. n = Node(type, <<>>, <<>>, <<>>, v)
  BY DEF Literal
<1>2. /\ token.kind = "bool" => type = "bool"
      /\ token.kind = "float" => type = "double"
      /\ token.kind = "number" => type = resolveBigInt(v)
  OBVIOUS
<1> HIDE DEF type, n
<1>3. /\ n = Node(n.type, n.name, n.names, n.args, n.value)
      /\ n.type = type /\ n.args = <<>> /\ n.value = v
  BY <1>1, Zenon DEF Node
<1>4. type # "none"
  BY <1>3 DEF n
<1>5. /\ resolveBigInt(v) \in {"int32", "int64", "double", "none"}
      /\ resolveBigInt(v) = "int32" => v \in -(MaxInt32 + 1) .. MaxInt32
      /\ resolveBigInt(v) = "int64" => \/ v \in MaxInt32 + 1 .. MaxInt64
                                       \/ v \in -(MaxInt64 + 1) .. -(MaxInt32 + 2)
  BY NumericBounds DEF resolveBigInt
<1>6. type \in {"bool", "int32", "int64", "double"}
  BY <1>2, <1>4, <1>5
<1>7. /\ type = "int32" => v \in -(MaxInt32 + 1) .. MaxInt32
      /\ type = "int64" => \/ v \in MaxInt32 + 1 .. MaxInt64
                           \/ v \in -(MaxInt64 + 1) .. -(MaxInt32 + 2)
  BY <1>2, <1>5
<1>8. NarrowestType(n)
  BY <1>3, <1>7, Zenon DEF NarrowestType
<1>9. NodeGood(n, k)
  <2>1. n.type \in NodeTypes
    BY <1>3, <1>6 DEF NodeTypes
  <2>2. IsSeq(n.args) /\ DOMAIN n.args = {}
    BY <1>3, EmptyFacts
  <2> QED
    BY <1>3, <1>8, <2>1, <2>2 DEF NodeGood
<1>10. Operand(n).node = n
  BY DEF Operand
<1> QED
  BY <1>3, <1>9, <1>10 DEF TokenGood, n

LEMMA TakeLiteralKeeps ==
  ASSUME IInv, ReadingValue, NEW n \in Nat, pos + n \in 1 .. Len(Tokens) + 1,
         NEW token, token.kind \in {"bool", "number", "float"}, NEW v \in Int,
         TakeLiteral(n, Literal(token, v))
  PROVE  IInv'
<1>1. CASE Literal(token, v).type = "none"
  BY <1>1, RejectKeeps DEF TakeLiteral, ReadingValue
<1>2. CASE Literal(token, v).type # "none"
  <2>1. TokenGood(Operand(Literal(token, v)), Len(nodes))
    BY <1>2, LiteralGood
  <2>2. Take(n, Operand(Literal(token, v)))
    BY <1>2 DEF TakeLiteral
  <2> QED
    BY <2>1, <2>2, TakeKeeps
<1> QED
  BY <1>1, <1>2

LEMMA ReadLiteralKeeps == ASSUME IInv, ReadLiteral PROVE IInv'
<1>1. /\ ReadingValue /\ Token(0).kind \in {"bool", "number", "float"}
      /\ TakeLiteral(1, Literal(Token(0), Token(0).value))
  BY DEF ReadLiteral
<1>2. Token(0).kind # "eof"
  BY <1>1
<1>3. pos \in Nat
  BY ReadingFacts
<1>4. Token(0).value \in Int /\ pos + 0 + 1 \in 1 .. Len(Tokens) + 1
  BY <1>2, TokenFacts
<1>5. pos + 1 \in 1 .. Len(Tokens) + 1
  BY <1>3, <1>4
<1> QED
  BY <1>1, <1>4, <1>5, TakeLiteralKeeps

LEMMA OperatorGood ==
  ASSUME NEW op, op # "", NEW k PROVE TokenGood(Operator(op), k)
  BY DEF TokenGood, Operator

LEMMA ReadMinusKeeps == ASSUME IInv, ReadMinus PROVE IInv'
<1>1. ReadingValue /\ Token(0).kind = "-"
  BY DEF ReadMinus
<1>2. pos \in Nat /\ Len(Tokens) \in Nat
  BY ReadingFacts
<1>3. pos + 1 \in 1 .. Len(Tokens) + 1
  <2>1. pos + 0 + 1 \in 1 .. Len(Tokens) + 1
    BY <1>1, TokenFacts
  <2> QED
    BY <1>2, <2>1
<1>4. CASE Take(1, Operator("-"))
  BY <1>1, <1>3, <1>4, OperatorGood, TakeKeeps
<1>5. CASE Take(1, Operator("neg"))
  BY <1>1, <1>3, <1>5, OperatorGood, TakeKeeps
<1>6. CASE Token(1).kind \in {"number", "float"} /\ TakeLiteral(2, Literal(Token(1), -Token(1).value))
  <2>1. Token(1).value \in Int /\ pos + 1 + 1 \in 1 .. Len(Tokens) + 1
    BY <1>6, TokenFacts
  <2>2. -Token(1).value \in Int /\ pos + 2 \in 1 .. Len(Tokens) + 1
    BY <1>2, <2>1
  <2>3. Token(1).kind \in {"bool", "number", "float"}
    BY <1>6
  <2> QED
    BY <1>1, <1>6, <2>2, <2>3, TakeLiteralKeeps
<1> QED
  BY <1>4, <1>5, <1>6 DEF ReadMinus

(* A leaf or a timestamp: a node that refers to no other. *)
LEMMA LeafGood ==
  ASSUME NEW type \in {"field", "timestamp"}, NEW name, NEW names, NEW k
  PROVE  TokenGood(Operand(Node(type, name, names, <<>>, 0)), k)
<1> DEFINE n == Node(type, name, names, <<>>, 0)
<1>1. IsSeq(<<>>) /\ DOMAIN <<>> = {}
  BY EmptyFacts
<1>2. type \in {"field", "timestamp", "combination", "builder"}
  OBVIOUS
<1>3. NodeGood(n, k)
  BY <1>1, <1>2, PlainNodeGood
<1>4. n.args = <<>>
  BY DEF Node
<1> HIDE DEF n
<1>5. Operand(n).node = n
  BY DEF Operand
<1>6. TokenGood(Operand(n), k)
  BY <1>3, <1>4, <1>5 DEF TokenGood
<1> QED
  BY <1>6 DEF n

LEMMA ReadIdentifierKeeps == ASSUME IInv, ReadIdentifier PROVE IInv'
<1> DEFINE parts == Token(0).parts
<1>1. ReadingValue /\ Token(0).kind = "identifier"
  BY DEF ReadIdentifier
<1>2. pos \in Nat /\ Len(Tokens) \in Nat
  BY ReadingFacts
<1>3. pos + 1 \in 1 .. Len(Tokens) + 1
  <2>1. pos + 0 + 1 \in 1 .. Len(Tokens) + 1
    BY <1>1, TokenFacts
  <2> QED
    BY <1>2, <2>1
<1>4. CASE Reject
  BY <1>1, <1>4, RejectKeeps DEF ReadingValue
<1>5. CASE Take(1, parseValue(parts))
  <2>1. TokenGood(parseValue(parts), Len(nodes))
    <3> HIDE DEF parts
    <3>1. CASE Len(parts) = 1 /\ parts[1] \in FunctionLike
      <4>1. parts[1] # ""
        BY <3>1 DEF FunctionLike
      <4>2. parseValue(parts) = Operator(parts[1])
        BY <3>1 DEF parseValue
      <4> QED
        BY <4>1, <4>2, OperatorGood
    <3>2. CASE ~(Len(parts) = 1 /\ parts[1] \in FunctionLike)
      <4>1. parseValue(parts) = Operand(Node("field", <<parts[1]>>, Tail(parts), <<>>, 0))
        BY <3>2, Zenon DEF parseValue
      <4> QED
        BY <4>1, LeafGood, Zenon
    <3> QED
      BY <3>1, <3>2
  <2> QED
    BY <1>1, <1>3, <1>5, <2>1, TakeKeeps
<1> QED
  BY <1>4, <1>5 DEF ReadIdentifier

LEMMA TimestampKeeps == ASSUME IInv, parseTimestampFunction PROVE IInv'
<1> DEFINE name == Token(2).parts
           t == Operand(Node("timestamp", name, <<>>, <<>>, 0))
<1>1. ReadingValue
  BY DEF parseTimestampFunction
<1>2. pos \in Nat /\ Len(Tokens) \in Nat
  BY ReadingFacts
<1>3. CASE Reject
  BY <1>1, <1>3, RejectKeeps DEF ReadingValue
<1>4. CASE Token(3).kind = ")" /\ Take(4, t)
  <2>1. pos + 3 + 1 \in 1 .. Len(Tokens) + 1
    BY <1>4, TokenFacts
  <2>2. pos + 4 \in 1 .. Len(Tokens) + 1
    BY <1>2, <2>1
  <2>3. TokenGood(t, Len(nodes))
    BY LeafGood, Zenon
  <2> HIDE DEF t
  <2> QED
    BY <1>1, <1>4, <2>2, <2>3, TakeKeeps
<1> QED
  BY <1>3, <1>4, Zenon DEF parseTimestampFunction

LEMMA NewFrame ==
  ASSUME NEW type, NEW reading, NEW k
  PROVE  LET f == Frame(type, reading)
         IN  /\ FrameGood(f, k) /\ FrameArgs(f) = {}
             /\ f.reading = reading /\ f.names = <<>> /\ f.args = <<>>
             /\ reading = "field" => InField(f)
<1> DEFINE f == Frame(type, reading)
<1>1. f = FrameOf(type, <<>>, <<>>, reading, <<>>, <<>>)
  BY DEF Frame, FrameOf
<1> HIDE DEF f
<1>2. /\ f.type = type /\ f.names = <<>> /\ f.args = <<>> /\ f.reading = reading
      /\ f.tokens = <<>> /\ f.open = <<>> /\ Shaped(f)
  BY <1>1, FrameFields
<1>3. IsSeq(<<>>) /\ Len(<<>>) = 0 /\ DOMAIN <<>> = {} /\ ToSet(<<>>) = {}
  BY EmptyFacts
<1>4. FrameGood(f, k)
  BY <1>2, <1>3 DEF FrameGood, Shaped, FrameOf
<1>5. FrameArgs(f) = {}
  BY <1>2, <1>3 DEF FrameArgs
<1>6. reading = "field" => InField(f)
  BY <1>2, <1>3 DEF InField
<1> QED
  BY <1>2, <1>4, <1>5, <1>6 DEF f

LEMMA OpenBuilderKeeps == ASSUME IInv, OpenBuilder PROVE IInv'
<1> DEFINE f == Frame(IF Token(0).kind = "{" THEN <<>> ELSE Token(1).parts, "field")
           k == Len(nodes)
           n == Len(frames)
<1>1. /\ ReadingValue /\ frames' = Append(frames, f)
      /\ UNCHANGED <<session, options, current, nodes, mapping, outcome>>
  BY DEF OpenBuilder
<1>2. pos \in Nat /\ Len(Tokens) \in Nat
  BY ReadingFacts
<1>3. pos' \in 1 .. Len(Tokens) + 1
  <2>1. CASE Token(0).kind = "{"
    <3>1. pos + 0 + 1 \in 1 .. Len(Tokens) + 1 /\ pos' = pos + 1
      BY <2>1, TokenFacts DEF OpenBuilder
    <3> QED
      BY <1>2, <3>1
  <2>2. CASE Token(0).kind # "{"
    <3>1. Token(2).kind = "{"
      BY <2>2 DEF OpenBuilder, StartsBuilder
    <3>2. pos + 2 + 1 \in 1 .. Len(Tokens) + 1 /\ pos' = pos + 3
      BY <2>2, <3>1, TokenFacts DEF OpenBuilder
    <3> QED
      BY <1>2, <3>2
  <2> QED
    BY <2>1, <2>2
<1>4. FrameGood(f, k) /\ FrameArgs(f) = {} /\ InField(f)
  BY NewFrame
<1> HIDE DEF f
<1>5. FramesOk(frames, k)
  BY DEF IInv, FramesGood
<1>6. /\ n \in Nat /\ n > 0 /\ DOMAIN frames = 1 .. n /\ IsSeq(frames)
      /\ frames[n].reading = "value"
  BY <1>1, <1>5, TopFacts DEF ReadingValue, top
<1> HIDE DEF n, k
<1>7. /\ IsSeq(frames') /\ Len(frames') = n + 1 /\ DOMAIN frames' = 1 .. n + 1
      /\ \A i \in 1 .. n : frames'[i] = frames[i]
      /\ frames'[n + 1] = f
  BY <1>1, <1>6, AppendFacts DEF n
<1>8. FramesOk(frames', k)
  <2>1. frames' # <<>>
    BY <1>6, <1>7, EmptyFacts
  <2>2. \A i \in DOMAIN frames' : FrameGood(frames'[i], k)
    BY <1>4, <1>5, <1>6, <1>7 DEF FramesOk
  <2>3. \A i \in DOMAIN frames' : i > 1 => InField(frames'[i])
    BY <1>4, <1>5, <1>6, <1>7 DEF FramesOk
  <2>4. \A i \in DOMAIN frames' : i < Len(frames') => frames'[i].reading = "value"
    <3> SUFFICES ASSUME NEW i \in DOMAIN frames', i < Len(frames') PROVE frames'[i].reading = "value"
      OBVIOUS
    <3>1. i \in 1 .. n /\ frames'[i] = frames[i]
      BY <1>6, <1>7
    <3>2. i = n \/ i < n
      BY <1>6, <3>1
    <3> QED
      BY <1>5, <1>6, <3>1, <3>2 DEF FramesOk, n
  <2>5. frames'[1] = frames[1]
    BY <1>6, <1>7
  <2> QED
    BY <1>5, <1>7, <2>1, <2>2, <2>3, <2>4, <2>5 DEF FramesOk
<1>9. HeldIn(frames) \subseteq HeldIn(frames')
  <2>1. \A i \in DOMAIN frames : i \in DOMAIN frames' /\ frames'[i] = frames[i]
    BY <1>6, <1>7
  <2> QED
    BY <2>1, HeldMember, Zenon
<1> QED
  BY <1>1, <1>3, <1>8, <1>9, FrameStep DEF k, ReadingValue

LEMMA UnexpectedKeeps == ASSUME IInv, Unexpected PROVE IInv'
  BY RejectKeeps DEF Unexpected, ReadingValue

(* Between two fields the builder's frame is not the expression itself. *)
LEMMA BuilderTop ==
  ASSUME IInv, top.reading = "field"
  PROVE  /\ Len(frames) > 1 /\ InField(top)
         /\ Len(top.names) = Len(top.args) /\ top.tokens = <<>>
<1>1. FramesOk(frames, Len(nodes))
  BY DEF IInv, FramesGood
<1>2. top = frames[Len(frames)] /\ Len(frames) \in Nat /\ Len(frames) > 0 /\ TopOk(top, frames)
  BY <1>1, TopFacts DEF top
<1>3. Len(frames) # 1
  BY <1>2 DEF TopOk
<1>4. Len(frames) > 1
  <2>1. ASSUME NEW n \in Nat, n > 0, n # 1 PROVE n > 1
    BY <2>1
  <2>2. Len(frames) \in Nat /\ Len(frames) > 0
    BY <1>1, TopFacts
  <2> QED
    BY <1>3, <2>1, <2>2
<1>5. InField(top)
  BY <1>2, <1>4 DEF TopOk
<1> QED
  BY <1>4, <1>5 DEF InField

LEMMA ReadFieldKeeps == ASSUME IInv, ReadField PROVE IInv'
<1> DEFINE n == Len(frames)
           k == Len(nodes)
           name == Token(0).parts[1]
           x == Append(frames[n].names, name)
           mid == [frames EXCEPT ![n].names = x]
           new == [frames EXCEPT ![n].names = Append(@, name), ![n].reading = "value"]
<1>1. outcome = "parsing" /\ top.reading = "field"
  BY DEF ReadField
<1>2. CASE Reject
  BY <1>1, <1>2, RejectKeeps
<1>3. CASE /\ Token(1).kind = ":" /\ frames' = new /\ pos' = pos + 2
           /\ UNCHANGED <<session, options, current, nodes, mapping, outcome>>
  <2>1. pos' \in 1 .. Len(Tokens) + 1
    <3>1. pos + 1 + 1 \in 1 .. Len(Tokens) + 1 /\ pos \in Nat
      BY <1>3, TokenFacts, ReadingFacts
    <3> QED
      BY <1>3, <3>1
  <2>2. FramesOk(frames, k) /\ k \in Nat
    BY ReadingFacts DEF IInv, FramesGood
  <2>3. /\ IsSeq(frames) /\ n \in DOMAIN frames /\ n = Len(frames) /\ DOMAIN frames = 1 .. Len(frames)
        /\ top = frames[n] /\ FrameGood(frames[n], k)
    BY <2>2, TopFacts DEF top
  <2>4. Shaped(frames[n])
    BY <2>3 DEF FrameGood, Shaped, FrameOf
  <2>5. frames' = [mid EXCEPT ![n].reading = "value"]
    BY <1>3, Zenon
  <2>6. x = Append(frames[n].names, name)
    OBVIOUS
  <2> HIDE DEF x, new
  <2> DEFINE f1 == FrameOf(frames[n].type, x, frames[n].args, frames[n].reading, frames[n].tokens,
                           frames[n].open)
  <2>7. TopIs(mid, frames, f1)
    BY <2>3, <2>4, NamesSet, Zenon
  <2>8. /\ f1.type = frames[n].type /\ f1.names = x /\ f1.args = frames[n].args
        /\ f1.reading = frames[n].reading /\ f1.tokens = frames[n].tokens
        /\ f1.open = frames[n].open /\ Shaped(f1)
    BY DEF FrameOf, Shaped
  <2> HIDE DEF f1, mid, n
  <2>9. IsSeq(mid) /\ n = Len(mid) /\ n \in DOMAIN mid /\ mid[n] = f1
    BY <2>3, <2>7, SeqFacts DEF TopIs
  <2> DEFINE f == FrameOf(f1.type, f1.names, f1.args, "value", f1.tokens, f1.open)
  <2>10. TopIs(frames', mid, f)
    BY <2>5, <2>8, <2>9, ReadingSet, Zenon
  <2>11. /\ f.type = f1.type /\ f.names = f1.names /\ f.args = f1.args /\ f.reading = "value"
         /\ f.tokens = f1.tokens /\ f.open = f1.open /\ Shaped(f)
    BY DEF FrameOf, Shaped
  <2> HIDE DEF f
  <2>12. TopIs(frames', frames, f)
    BY <2>3, <2>7, <2>10, TopTwice
  <2>13. IsSeq(x) /\ Len(x) = Len(frames[n].names) + 1
    BY <2>3, <2>6, AppendFacts DEF FrameGood
  <2>14. FrameGood(f, k)
    BY <2>3, <2>8, <2>11, <2>13 DEF FrameGood, Shaped, FrameOf
  <2>15. TopOk(f, frames)
    <3>1. Len(frames) > 1 /\ Len(frames[n].names) = Len(frames[n].args)
      BY <1>1, <2>3, BuilderTop
    <3>2. InField(f)
      BY <2>8, <2>11, <2>13, <3>1 DEF InField
    <3> QED
      BY <2>3, <3>1, <3>2, SeqFacts DEF TopOk
  <2>16. FramesOk(frames', k) /\ HeldIn(frames') = Below(frames) \cup FrameArgs(f)
    BY <2>2, <2>12, <2>14, <2>15, TopReplaced
  <2>17. FrameArgs(f) = FrameArgs(frames[n])
    BY <2>8, <2>11, Zenon DEF FrameArgs
  <2>18. HeldIn(frames') = HeldIn(frames)
    BY <2>2, <2>3, <2>16, <2>17, HeldParts
  <2> QED
    BY <1>1, <1>3, <2>1, <2>16, <2>18, FrameStep
<1> QED
  BY <1>2, <1>3, Zenon DEF ReadField

LEMMA OperatorKinds == "" \notin Operators /\ "eof" \notin Operators
<1>1. DOMAIN precedence = AllOperators
  BY DEF precedence
<1>2. "" \notin AllOperators /\ "eof" \notin AllOperators
  BY DEF AllOperators, Delimiters, Comparison, Unary, FunctionLike
<1> QED
  BY <1>1, <1>2 DEF Operators

LEMMA ReadOperatorKeeps == ASSUME IInv, ReadOperator PROVE IInv'
<1> DEFINE n    == Len(frames)
           k    == Len(nodes)
           kind == Token(0).kind
           matches == top.open # <<>> /\ MatchingDelimiter[Last(top.open)] = kind
           open == IF kind \in {"(", "["} THEN Append(top.open, kind)
                   ELSE IF kind \in {")", "]"} /\ InBuilder THEN Front(top.open)
                   ELSE top.open
           mismatch == InBuilder /\ kind \in {")", "]"} /\ ~matches
           x    == Append(frames[n].tokens, Operator(kind))
           o    == IF InBuilder THEN open ELSE frames[n].open
           mid  == [frames EXCEPT ![n].tokens = x]
           new  == [frames EXCEPT ![n].tokens = Append(@, Operator(kind)),
                                  ![n].open   = IF InBuilder THEN open ELSE @]
<1>1. ReadingValue /\ kind \in Operators
  BY DEF ReadOperator
<1>2. CASE Reject
  BY <1>1, <1>2, RejectKeeps DEF ReadingValue
<1>3. CASE /\ ~mismatch /\ frames' = new /\ pos' = pos + 1
           /\ UNCHANGED <<session, options, current, nodes, mapping, outcome>>
  <2>1. kind # "" /\ kind # "eof"
    BY <1>1, OperatorKinds
  <2>2. pos' \in 1 .. Len(Tokens) + 1
    <3>1. pos + 0 + 1 \in 1 .. Len(Tokens) + 1 /\ pos \in Nat
      BY <2>1, TokenFacts, ReadingFacts
    <3> QED
      BY <1>3, <3>1
  <2>3. FramesOk(frames, k)
    BY DEF IInv, FramesGood
  <2>4. /\ IsSeq(frames) /\ n \in DOMAIN frames /\ n = Len(frames) /\ DOMAIN frames = 1 .. Len(frames)
        /\ top = frames[n] /\ FrameGood(frames[n], k)
    BY <2>3, TopFacts DEF top
  <2>5. Shaped(frames[n]) /\ IsSeq(frames[n].open)
    BY <2>4 DEF FrameGood, Shaped, FrameOf
  <2>6. IsSeq(o)
    <3>1. IsSeq(Append(top.open, kind))
      BY <2>4, <2>5, AppendFacts
    <3>2. top.open # <<>> => IsSeq(Front(top.open))
      <4> HAVE top.open # <<>>
      <4>1. /\ Len(top.open) - 1 \in Nat /\ Front(top.open) = SubSeq(top.open, 1, Len(top.open) - 1)
            /\ IsSeq(top.open) /\ Len(top.open) \in Nat
        BY <2>4, <2>5, FrontFacts, SeqFacts
      <4>2. Len(top.open) - 1 \in 0 .. Len(top.open)
        BY <4>1
      <4> QED
        BY <4>1, <4>2, PrefixFacts
    <3>3. kind \in {")", "]"} /\ InBuilder => top.open # <<>>
      BY <1>3, Zenon
    <3> QED
      BY <2>4, <2>5, <3>1, <3>2, <3>3
  <2>7. frames' = [mid EXCEPT ![n].open = o]
    <3> DEFINE y == IF InBuilder THEN open ELSE mid[n].open
    <3>1. frames' = [mid EXCEPT ![n].open = y]
      BY <1>3, Zenon
    <3>2. mid[n].open = frames[n].open
      <4> HIDE DEF x
      <4>1. mid = [frames EXCEPT ![n] = [frames[n] EXCEPT !.tokens = x]]
        BY Zenon
      <4>2. mid[n] = [frames[n] EXCEPT !.tokens = x]
        BY <2>4, <4>1, Zenon
      <4>3. [frames[n] EXCEPT !.tokens = x].open = frames[n].open
        BY <2>5 DEF Shaped, FrameOf
      <4> QED
        BY <4>2, <4>3, Zenon
    <3>3. y = o
      BY <3>2, Zenon
    <3> QED
      BY <3>1, <3>3, Zenon
  <2>8. x = Append(top.tokens, Operator(kind))
    BY <2>4
  <2> HIDE DEF x, new, o
  <2> DEFINE f1 == FrameOf(frames[n].type, frames[n].names, frames[n].args, frames[n].reading, x,
                           frames[n].open)
  <2>9. TopIs(mid, frames, f1)
    BY <2>4, <2>5, TokensSet, Zenon
  <2>10. /\ f1.type = frames[n].type /\ f1.names = frames[n].names /\ f1.args = frames[n].args
         /\ f1.reading = frames[n].reading /\ f1.tokens = x
         /\ f1.open = frames[n].open /\ Shaped(f1)
    BY DEF FrameOf, Shaped
  <2> HIDE DEF f1, mid, n
  <2>11. IsSeq(mid) /\ n = Len(mid) /\ n \in DOMAIN mid /\ mid[n] = f1
    BY <2>4, <2>9, SeqFacts DEF TopIs
  <2>12. TopIs(frames', mid, FrameOf(f1.type, f1.names, f1.args, f1.reading, f1.tokens, o))
    BY <2>7, <2>10, <2>11, OpenSet, Zenon
  <2>13. TopIs(frames', frames, FrameOf(f1.type, f1.names, f1.args, f1.reading, f1.tokens, o))
    BY <2>4, <2>9, <2>12, TopTwice
  <2>14. TopIs(frames', frames, FrameOf(top.type, top.names, top.args, top.reading,
                                        Append(top.tokens, Operator(kind)), o))
    BY <2>4, <2>8, <2>10, <2>13
  <2>15. TokenGood(Operator(kind), Len(nodes))
    BY <2>1, OperatorGood
  <2> QED
    BY <1>1, <1>3, <2>2, <2>6, <2>14, <2>15, TokenAdded
<1> QED
  BY <1>2, <1>3, Zenon DEF ReadOperator

LEMMA ToSetAppend ==
  ASSUME NEW s, IsSeq(s), NEW x
  PROVE  ToSet(Append(s, x)) = ToSet(s) \cup {x}
<1>1. Len(s) \in Nat /\ DOMAIN s = 1 .. Len(s)
  BY SeqFacts
<1> DEFINE new == Append(s, x)
<1>2. /\ DOMAIN new = 1 .. Len(s) + 1
      /\ \A i \in 1 .. Len(s) : new[i] = s[i]
      /\ new[Len(s) + 1] = x
  BY AppendFacts
<1> HIDE DEF new
<1>3. DOMAIN new = DOMAIN s \cup {Len(s) + 1}
  BY <1>1, <1>2
<1>4. \A i \in DOMAIN s : new[i] = s[i]
  BY <1>1, <1>2
<1>5. ToSet(new) = ToSet(s) \cup {x}
  BY <1>2, <1>3, <1>4, Zenon DEF ToSet
<1> QED
  BY <1>5 DEF new

(* The frames without the last one, which becomes a token of the one below. *)
LEMMA FrontFramesOk ==
  ASSUME NEW fs, NEW k, FramesOk(fs, k), Len(fs) > 1
  PROVE  /\ FramesOk(Front(fs), k) /\ Len(Front(fs)) = Len(fs) - 1
         /\ Front(fs)[Len(fs) - 1].reading = "value"
         /\ HeldIn(Front(fs)) = Below(fs)
<1>1. /\ Len(fs) \in Nat /\ DOMAIN fs = 1 .. Len(fs) /\ IsSeq(fs)
  BY TopFacts
<1>2. fs # <<>>
  BY DEF FramesOk
<1>3. Front(fs) = SubSeq(fs, 1, Len(fs) - 1)
  BY <1>1, <1>2, FrontFacts
<1>4. Len(fs) - 1 \in 0 .. Len(fs) /\ Len(fs) - 1 \in Nat /\ Len(fs) - 1 > 0
  BY <1>1
<1>5. /\ IsSeq(Front(fs)) /\ Len(Front(fs)) = Len(fs) - 1
      /\ \A i \in 1 .. Len(fs) - 1 : Front(fs)[i] = fs[i]
  BY <1>1, <1>3, <1>4, PrefixFacts
<1>6. DOMAIN Front(fs) = 1 .. Len(fs) - 1
  BY <1>5, SeqFacts
<1>7. Front(fs) # <<>>
  BY <1>4, <1>5, EmptyFacts
<1>8. \A i \in DOMAIN Front(fs) : i \in DOMAIN fs /\ i < Len(fs) /\ Front(fs)[i] = fs[i]
  BY <1>1, <1>4, <1>5, <1>6
<1>9. 1 \in DOMAIN Front(fs) /\ Len(fs) - 1 \in DOMAIN Front(fs)
  BY <1>4, <1>6
<1>10. FramesOk(Front(fs), k)
  BY <1>5, <1>7, <1>8, <1>9 DEF FramesOk
<1>11. Front(fs)[Len(fs) - 1].reading = "value"
  BY <1>8, <1>9 DEF FramesOk
<1>12. ASSUME NEW x PROVE x \in HeldIn(Front(fs)) <=> x \in Below(fs)
  BY <1>6, <1>8, HeldMember, BelowMember, Zenon
<1>13. HeldIn(Front(fs)) = Below(fs)
  BY <1>12, Zenon
<1> QED
  BY <1>5, <1>10, <1>11, <1>13

LEMMA CloseBuilderKeeps == ASSUME IInv, CloseBuilder PROVE IInv'
<1> DEFINE k    == Len(nodes)
           n    == Len(frames) - 1
           node == Node("builder", top.type, top.names, top.args, 0)
           fs   == Front(frames)
           token == Operand(node)
           x    == Append(fs[n].tokens, token)
           new  == [fs EXCEPT ![n].tokens = Append(@, token)]
<1>1. outcome = "parsing" /\ top.reading = "field" /\ Token(0).kind = "}"
  BY DEF CloseBuilder
<1>2. CASE Reject
  BY <1>1, <1>2, RejectKeeps
<1>3. CASE /\ frames' = new /\ pos' = pos + 1
           /\ UNCHANGED <<session, options, current, nodes, mapping, outcome>>
  <2>1. pos' \in 1 .. Len(Tokens) + 1
    <3>1. pos + 0 + 1 \in 1 .. Len(Tokens) + 1 /\ pos \in Nat
      BY <1>1, TokenFacts, ReadingFacts
    <3> QED
      BY <1>3, <3>1
  <2>2. FramesOk(frames, k) /\ k \in Nat
    BY ReadingFacts DEF IInv, FramesGood
  <2>3. Len(frames) > 1 /\ top.tokens = <<>>
    BY <1>1, BuilderTop
  <2>4. /\ FramesOk(fs, k) /\ Len(fs) = n /\ fs[n].reading = "value"
        /\ HeldIn(fs) = Below(frames)
    BY <2>2, <2>3, FrontFramesOk
  <2>5. top = frames[Len(frames)] /\ FrameGood(top, k)
    BY <2>2, TopFacts DEF top
  <2>6. frames' = [fs EXCEPT ![n].tokens = x]
    BY <1>3, Zenon
  <2>7. TokenGood(token, k) /\ TokenArgs(token) = ToSet(top.args)
    <3>1. NodeGood(node, k)
      BY <2>5, PlainNodeGood DEF FrameGood
    <3>2. node.args = top.args /\ node.type = "builder"
      BY DEF Node
    <3> HIDE DEF node
    <3>3. token.node = node /\ token.op = ""
      BY DEF Operand
    <3> QED
      BY <3>1, <3>2, <3>3 DEF TokenGood, TokenArgs
  <2>8. FrameArgs(top) = ToSet(top.args)
    BY <2>3, EmptyFacts DEF FrameArgs
  <2> HIDE DEF node, token, fs, n, k, new
  <2>9. /\ IsSeq(fs) /\ n \in DOMAIN fs /\ FrameGood(fs[n], k) /\ TopOk(fs[n], fs)
    BY <2>4, TopFacts
  <2>10. Shaped(fs[n]) /\ IsSeq(fs[n].open)
    BY <2>9 DEF FrameGood, Shaped, FrameOf
  <2> DEFINE t == fs[n]
             f == FrameOf(t.type, t.names, t.args, t.reading, x, t.open)
  <2>11. TopIs(frames', fs, f)
    <3> HIDE DEF x
    <3> QED
      BY <2>4, <2>6, <2>9, <2>10, TokensSet, Zenon
  <2>12. f = FrameOf(t.type, t.names, t.args, t.reading, Append(t.tokens, token), t.open)
    OBVIOUS
  <2> HIDE DEF f, x
  <2>13. Appended(f, t, k, token)
    BY <2>7, <2>9, <2>10, <2>12, AppendedFrame, Zenon
  <2>14. TopOk(f, fs)
    <3>1. f.reading = t.reading /\ f.names = t.names /\ f.args = t.args
      BY <2>12 DEF FrameOf
    <3> QED
      BY <2>4, <2>9, <2>13, <3>1 DEF TopOk, Appended
  <2>15. FramesOk(frames', k) /\ HeldIn(frames') = Below(fs) \cup FrameArgs(f)
    <3>1. FrameGood(f, k) /\ k <= k
      BY <2>2, <2>13 DEF Appended
    <3> HIDE DEF t
    <3> QED
      BY <2>2, <2>4, <2>11, <2>14, <3>1, TopReplaced
  <2>16. HeldIn(fs) = Below(fs) \cup FrameArgs(t)
    BY <2>4, HeldParts
  <2>17. HeldIn(frames) = Below(frames) \cup FrameArgs(top)
    BY <2>2, <2>5, HeldParts
  <2>18. FrameArgs(t) \subseteq FrameArgs(f) /\ TokenArgs(token) \subseteq FrameArgs(f)
    BY <2>13, Zenon DEF Appended
  <2> HIDE DEF t
  <2>19. HeldIn(frames) \subseteq HeldIn(frames')
    BY <2>4, <2>7, <2>8, <2>15, <2>16, <2>17, <2>18
  <2> QED
    BY <1>1, <1>3, <2>1, <2>15, <2>19, FrameStep DEF k
<1> QED
  BY <1>2, <1>3, Zenon DEF CloseBuilder

LEMMA ArgsAndPending ==
  ASSUME NEW f, IsSeq(f.tokens)
  PROVE  FrameArgs(f) = ToSet(f.args) \cup Pending(f.tokens, 0)
<1>1. {t \in DOMAIN f.tokens : t > 0} = DOMAIN f.tokens
  BY SeqFacts
<1>2. Pending(f.tokens, 0) = UNION {TokenArgs(f.tokens[t]) : t \in DOMAIN f.tokens}
  BY <1>1, Zenon DEF Pending
<1> QED
  BY <1>2, Zenon DEF FrameArgs

(* What the compilation of the expression that is being read leaves. *)
LEMMA TopCompiled ==
  ASSUME IInv, outcome = "parsing", compileTokens(top.tokens).ok
  PROVE  Compiled(compileTokens(top.tokens), Len(nodes),
                  ToSet(mapping) \cup Below(frames) \cup ToSet(top.args))
<1> DEFINE C == ToSet(mapping) \cup Below(frames) \cup ToSet(top.args)
<1>1. FramesOk(frames, Len(nodes)) /\ NodesGood(nodes)
  BY DEF IInv, FramesGood
<1>2. top = frames[Len(frames)] /\ FrameGood(top, Len(nodes))
  BY <1>1, TopFacts DEF top
<1>3. IsSeq(top.tokens) /\ \A t \in DOMAIN top.tokens : TokenGood(top.tokens[t], Len(nodes))
  BY <1>2 DEF FrameGood
<1>4. HeldIn(frames) = Below(frames) \cup FrameArgs(top)
  BY <1>1, <1>2, HeldParts
<1>5. FrameArgs(top) = ToSet(top.args) \cup Pending(top.tokens, 0)
  BY <1>3, ArgsAndPending
<1>6. Covered(nodes, <<>>, Held)
  BY DEF IInv
<1>7. Held \subseteq C \cup Pending(top.tokens, 0)
  BY <1>4, <1>5 DEF Held
<1>8. Covered(nodes, <<>>, C \cup Pending(top.tokens, 0))
  BY <1>6, <1>7, CoveredMore
<1> HIDE DEF C
<1>9. Compiled(compileTokens(top.tokens), Len(nodes), C)
  BY <1>1, <1>3, <1>8, CompileTokensGood
<1> QED
  BY <1>9 DEF C

FieldTaken(new, fs, t, m, root) ==
  FramesOk(new, m) /\ HeldIn(new) = Below(fs) \cup ToSet(t.args) \cup {root}

(* The same step, for the frame whose field has been compiled. *)
LEMMA FieldCompiled ==
  ASSUME NEW fs, NEW k \in Nat, NEW m \in Nat, FramesOk(fs, k), k <= m, Len(fs) > 1,
         NEW t, FrameGood(t, k), TopOk(t, fs), t.reading = "value", NEW root \in 1 .. m,
         NEW new, TopIs(new, fs, FrameOf(t.type, t.names, Append(t.args, root), "field", <<>>, t.open))
  PROVE  FieldTaken(new, fs, t, m, root)
<1> DEFINE a == Append(t.args, root)
           f == FrameOf(t.type, t.names, a, "field", <<>>, t.open)
<1>1. FrameGood(t, k) /\ TopOk(t, fs)
  OBVIOUS
<1>2. /\ IsSeq(t.args) /\ Len(t.args) \in Nat /\ DOMAIN t.args = 1 .. Len(t.args)
      /\ IsSeq(t.names) /\ IsSeq(t.open) /\ \A i \in DOMAIN t.args : t.args[i] \in 1 .. k
  BY <1>1, SeqFacts DEF FrameGood
<1>3. Len(t.names) = Len(t.args) + 1
  BY <1>1 DEF TopOk, InField
<1>4. /\ IsSeq(a) /\ Len(a) = Len(t.args) + 1 /\ DOMAIN a = 1 .. Len(t.args) + 1
      /\ \A i \in 1 .. Len(t.args) : a[i] = t.args[i]
      /\ a[Len(t.args) + 1] = root
  BY <1>2, AppendFacts
<1>5. ToSet(a) = ToSet(t.args) \cup {root}
  BY <1>2, ToSetAppend
<1>6. TopIs(new, fs, f)
  OBVIOUS
<1> HIDE DEF a
<1>7. /\ f.type = t.type /\ f.names = t.names /\ f.args = a /\ f.reading = "field"
      /\ f.tokens = <<>> /\ f.open = t.open /\ Shaped(f)
  BY DEF FrameOf, Shaped
<1> HIDE DEF f
<1>8. ASSUME NEW i \in DOMAIN a PROVE a[i] \in 1 .. m
  <2>1. i \in 1 .. Len(t.args) \/ i = Len(t.args) + 1
    BY <1>2, <1>4
  <2>2. CASE i \in 1 .. Len(t.args)
    <3>1. a[i] = t.args[i] /\ t.args[i] \in 1 .. k
      BY <1>2, <1>4, <2>2, Zenon
    <3>2. 1 .. k \subseteq 1 .. m
      OBVIOUS
    <3> QED
      BY <3>1, <3>2, Zenon
  <2>3. CASE i = Len(t.args) + 1
    BY <1>4, <2>3, Zenon
  <2> QED
    BY <2>1, <2>2, <2>3
<1>9. FrameGood(f, m)
  BY <1>2, <1>4, <1>7, <1>8, EmptyFacts DEF FrameGood, Shaped, FrameOf
<1>10. TopOk(f, fs)
  <2>1. InField(f)
    BY <1>3, <1>4, <1>7 DEF InField
  <2>2. Len(fs) # 1
    BY TopFacts
  <2> QED
    BY <2>1, <2>2 DEF TopOk
<1>11. FramesOk(new, m) /\ HeldIn(new) = Below(fs) \cup FrameArgs(f)
  BY <1>6, <1>9, <1>10, TopReplaced
<1>12. FrameArgs(f) = ToSet(a)
  BY <1>7, EmptyFacts DEF FrameArgs
<1> QED
  BY <1>5, <1>11, <1>12 DEF FieldTaken

LEMMA FieldSet ==
  ASSUME NEW fs, IsSeq(fs), NEW n, n = Len(fs), n \in DOMAIN fs, Shaped(fs[n]), NEW x
  PROVE  LET t == fs[n]
         IN  TopIs([fs EXCEPT ![n].args = x, ![n].tokens = <<>>, ![n].reading = "field"], fs,
                   FrameOf(t.type, t.names, x, "field", <<>>, t.open))
<1> DEFINE t == fs[n]
           new == [fs EXCEPT ![n].args = x, ![n].tokens = <<>>, ![n].reading = "field"]
           mid1 == [fs EXCEPT ![n].args = x]
           mid2 == [mid1 EXCEPT ![n].tokens = <<>>]
           f1 == FrameOf(t.type, t.names, x, t.reading, t.tokens, t.open)
           f2 == FrameOf(f1.type, f1.names, f1.args, f1.reading, <<>>, f1.open)
           f  == FrameOf(f2.type, f2.names, f2.args, "field", f2.tokens, f2.open)
<1>1. new = [mid2 EXCEPT ![n].reading = "field"]
  BY Zenon
<1>2. TopIs(mid1, fs, f1)
  BY ArgsSet, Zenon
<1> HIDE DEF new, mid1
<1>3. /\ f1.type = t.type /\ f1.names = t.names /\ f1.args = x /\ f1.reading = t.reading
      /\ f1.tokens = t.tokens /\ f1.open = t.open /\ Shaped(f1)
  BY DEF FrameOf, Shaped
<1> HIDE DEF f1
<1>4. IsSeq(mid1) /\ n = Len(mid1) /\ n \in DOMAIN mid1 /\ mid1[n] = f1
  BY <1>2, SeqFacts DEF TopIs
<1>5. TopIs(mid2, mid1, f2)
  BY <1>3, <1>4, TokensSet, Zenon
<1> HIDE DEF mid2
<1>6. /\ f2.type = f1.type /\ f2.names = f1.names /\ f2.args = f1.args /\ f2.reading = f1.reading
      /\ f2.tokens = <<>> /\ f2.open = f1.open /\ Shaped(f2)
  BY DEF FrameOf, Shaped
<1> HIDE DEF f2
<1>7. IsSeq(mid2) /\ n = Len(mid2) /\ n \in DOMAIN mid2 /\ mid2[n] = f2
  BY <1>4, <1>5, SeqFacts DEF TopIs
<1>8. TopIs(new, mid2, f)
  BY <1>1, <1>6, <1>7, ReadingSet, Zenon
<1>9. TopIs(new, fs, f)
  <2>1. TopIs(mid2, fs, f2)
    BY <1>2, <1>5, TopTwice
  <2> HIDE DEF f
  <2> QED
    BY <1>8, <2>1, TopTwice
<1>10. f = FrameOf(t.type, t.names, x, "field", <<>>, t.open)
  BY <1>3, <1>6
<1> HIDE DEF f
<1> QED
  BY <1>9, <1>10, Zenon DEF new

LEMMA EndFieldKeeps == ASSUME IInv, EndField PROVE IInv'
<1> DEFINE k == Len(nodes)
           n == Len(frames)
           r == compileTokens(top.tokens)
           x == Append(frames[n].args, r.root)
           new == [frames EXCEPT ![n].args = Append(@, r.root), ![n].tokens = <<>>,
                                 ![n].reading = "field"]
<1>1. /\ outcome = "parsing" /\ top.reading = "value" /\ n > 1 /\ Token(0).kind \in {",", "}"}
  BY DEF EndField, ReadingValue, EndsField, InBuilder
<1>2. CASE Reject
  BY <1>1, <1>2, RejectKeeps
<1>3. CASE /\ r.ok /\ nodes' = r.nodes /\ frames' = new
           /\ pos' = pos + (IF Token(0).kind = "," THEN 1 ELSE 0)
           /\ UNCHANGED <<session, options, current, mapping, outcome>>
  <2> DEFINE C == ToSet(mapping) \cup Below(frames) \cup ToSet(top.args)
             root == r.root
             m == Len(r.nodes)
  <2>1. Compiled(r, k, C)
    BY <1>1, <1>3, TopCompiled, Zenon
  <2>2. FramesOk(frames, k) /\ k \in Nat
    BY ReadingFacts DEF IInv, FramesGood
  <2>3. /\ IsSeq(frames) /\ n \in DOMAIN frames /\ n = Len(frames)
        /\ top = frames[n] /\ FrameGood(frames[n], k)
    BY <2>2, TopFacts DEF top
  <2>4. Shaped(frames[n])
    BY <2>3 DEF FrameGood, Shaped, FrameOf
  <2>5. frames' = [frames EXCEPT ![n].args = x, ![n].tokens = <<>>, ![n].reading = "field"]
    BY <1>3, Zenon
  <2>6. nodes' = r.nodes
    BY <1>3, Zenon
  <2>7. /\ session' = session /\ options' = options /\ current' = current
        /\ mapping' = mapping /\ outcome' = outcome
    BY <1>3, Zenon
  <2>8. pos' \in 1 .. Len(Tokens) + 1
    <3>1. pos \in Nat /\ pos \in 1 .. Len(Tokens) + 1 /\ pos + 0 + 1 \in 1 .. Len(Tokens) + 1
      <4>1. Token(0).kind # "eof"
        BY <1>1
      <4> QED
        BY <4>1, TokenFacts, ReadingFacts DEF IInv, Reading
    <3>2. pos' = pos + 1 \/ pos' = pos + 0
      BY <1>3, Zenon
    <3> QED
      BY <3>1, <3>2
  <2>9. x = Append(top.args, root)
    BY <2>3
  <2> HIDE DEF r, x, new
  <2>10. TopIs(frames', frames, FrameOf(top.type, top.names, x, "field", <<>>, top.open))
    BY <2>3, <2>4, <2>5, FieldSet, Zenon
  <2> HIDE DEF n
  <2>11. /\ NodesGood(r.nodes) /\ k <= m /\ root \in 1 .. m /\ m \in Nat
         /\ Covered(r.nodes, <<>>, C \cup {root})
    BY <2>1, SeqFacts DEF Compiled, NodesGood
  <2>12. TopIs(frames', frames, FrameOf(top.type, top.names, Append(top.args, root), "field", <<>>,
                                        top.open))
    BY <2>9, <2>10, Zenon
  <2> HIDE DEF m, k, root
  <2>13. FramesOk(frames', m) /\ HeldIn(frames') = Below(frames) \cup ToSet(top.args) \cup {root}
    <3>1. Len(frames) > 1 /\ FrameGood(top, k) /\ TopOk(top, frames)
      BY <1>1, <2>2, <2>3, TopFacts DEF n
    <3>2. k <= m /\ m \in Nat /\ root \in 1 .. m /\ top.reading = "value"
      BY <1>1, <2>11, Zenon
    <3>3. FieldTaken(frames', frames, top, m, root)
      BY <2>2, <2>12, <3>1, <3>2, FieldCompiled
    <3> QED
      BY <3>3 DEF FieldTaken
  <2>14. Tokens' = Tokens
    BY <2>7 DEF Tokens
  <2>15. Reading'
    BY <2>7, <2>8, <2>14 DEF IInv, Reading
  <2>16. FramesGood'
    BY <1>1, <2>6, <2>7, <2>13 DEF FramesGood, m
  <2>17. MappingGood'
    BY <2>2, <2>6, <2>7, <2>11 DEF IInv, MappingGood, m, k
  <2>18. C \cup {root} = ToSet(mapping) \cup HeldIn(frames')
    BY <2>13
  <2>19. (Covered(nodes, <<>>, Held))'
    BY <2>6, <2>7, <2>11, <2>18 DEF Held
  <2> QED
    BY <2>6, <2>11, <2>15, <2>16, <2>17, <2>19 DEF IInv
<1> QED
  BY <1>2, <1>3, Zenon DEF EndField

(* The frames at the start of an expression. *)
LEMMA FirstFrame ==
  ASSUME NEW k
  PROVE  FramesOk(<<Frame(<<>>, "value")>>, k) /\ HeldIn(<<Frame(<<>>, "value")>>) = {}
<1> DEFINE f == Frame(<<>>, "value")
           fs == <<f>>
<1>1. /\ FrameGood(f, k) /\ FrameArgs(f) = {}
      /\ f.reading = "value" /\ f.names = <<>> /\ f.args = <<>>
  BY NewFrame, Zenon
<1> HIDE DEF f
<1>2. IsSeq(fs) /\ Len(fs) = 1 /\ DOMAIN fs = {1} /\ fs[1] = f
  BY SingletonFacts
<1> HIDE DEF fs
<1>3. fs # <<>>
  BY <1>2, EmptyFacts
<1>4. FramesOk(fs, k)
  BY <1>1, <1>2, <1>3 DEF FramesOk
<1>5. HeldIn(fs) = {}
  BY <1>1, <1>2 DEF HeldIn
<1> QED
  BY <1>4, <1>5, Zenon DEF fs, f

LEMMA EndExpressionKeeps == ASSUME IInv, EndExpression PROVE IInv'
<1> DEFINE k == Len(nodes)
           r == compileTokens(top.tokens)
           last == current = Len(session)
           start == <<Frame(<<>>, "value")>>
<1>1. outcome = "parsing" /\ ~(Len(frames) > 1)
  BY DEF EndExpression, ReadingValue, InBuilder
<1>2. CASE Reject
  BY <1>1, <1>2, RejectKeeps
<1>3. CASE /\ r.ok /\ nodes' = r.nodes /\ mapping' = Append(mapping, r.root)
           /\ outcome' = IF last THEN "ok" ELSE "parsing"
           /\ current' = IF last THEN current ELSE current + 1
           /\ pos'     = IF last THEN pos ELSE 1
           /\ frames'  = start
           /\ UNCHANGED <<session, options>>
  <2> DEFINE C == ToSet(mapping) \cup Below(frames) \cup ToSet(top.args)
             root == r.root
             m == Len(r.nodes)
  <2>1. Compiled(r, k, C)
    BY <1>1, <1>3, TopCompiled, Zenon
  <2>2. FramesOk(frames, k) /\ k \in Nat
    BY ReadingFacts DEF IInv, FramesGood
  <2>3. /\ Len(frames) \in Nat /\ Len(frames) > 0 /\ top = frames[Len(frames)]
        /\ TopOk(frames[Len(frames)], frames)
    BY <2>2, TopFacts DEF top
  <2>4. nodes' = r.nodes /\ session' = session /\ frames' = start
    BY <1>3, Zenon
  <2>5. mapping' = Append(mapping, root)
    BY <1>3, Zenon
  <2>6. CASE Len(frames) = 1
    <3>1. top.args = <<>>
      BY <2>3, <2>6 DEF TopOk
    <3>2. Below(frames) = {}
      BY <2>6, BelowMember
    <3>3. ToSet(top.args) = {}
      BY <3>1, EmptyFacts
    <3>4. C = ToSet(mapping)
      BY <3>2, <3>3
    <3> HIDE DEF r, C, start
    <3>5. /\ NodesGood(r.nodes) /\ k <= m /\ root \in 1 .. m /\ m \in Nat
          /\ Covered(r.nodes, <<>>, C \cup {root})
      BY <2>1, SeqFacts DEF Compiled, NodesGood
    <3> HIDE DEF root, m, k
    <3>6. FramesOk(start, m) /\ HeldIn(start) = {}
      BY FirstFrame, Zenon DEF start
    <3>7. FramesGood'
      BY <2>4, <3>6 DEF FramesGood, m, start
    <3>8. IsSeq(mapping) /\ \A i \in DOMAIN mapping : mapping[i] \in 1 .. k
      BY DEF IInv, MappingGood, k
    <3>9. /\ Len(mapping) \in Nat /\ DOMAIN mapping = 1 .. Len(mapping)
          /\ Len(mapping) = current - 1
      BY <1>1, <3>8, SeqFacts DEF IInv, MappingGood
    <3>10. /\ IsSeq(mapping') /\ Len(mapping') = Len(mapping) + 1
           /\ DOMAIN mapping' = 1 .. Len(mapping) + 1
           /\ \A i \in 1 .. Len(mapping) : mapping'[i] = mapping[i]
           /\ mapping'[Len(mapping) + 1] = root
      BY <2>5, <3>8, AppendFacts
    <3>11. ToSet(mapping') = ToSet(mapping) \cup {root}
      BY <2>5, <3>8, ToSetAppend
    <3>12. \A i \in DOMAIN mapping' : mapping'[i] \in 1 .. m
      BY <2>2, <3>5, <3>8, <3>9, <3>10
    <3>13. /\ current \in 1 .. Len(session) /\ Len(session) \in Nat
           /\ DOMAIN session = 1 .. Len(session)
      BY ReadingFacts DEF IInv, Reading
    <3>14. last => outcome' = "ok" /\ current' = current /\ pos' = pos
      BY <1>3, Zenon
    <3>15. ~last => outcome' = "parsing" /\ current' = current + 1 /\ pos' = 1
      BY <1>3, Zenon
    <3>16. MappingGood'
      <4>1. Len(mapping') = IF outcome' = "ok" THEN Len(session) ELSE current' - 1
        <5>1. Len(mapping') = current
          BY <3>9, <3>10, <3>13
        <5>2. CASE last
          <6>1. outcome' = "ok" /\ current = Len(session)
            BY <3>14, <5>2, Zenon
          <6> QED
            BY <5>1, <6>1
        <5>3. CASE ~last
          <6>1. outcome' # "ok" /\ current' = current + 1
            BY <3>15, <5>3
          <6>2. current' - 1 = current
            BY <3>13, <6>1
          <6> QED
            BY <5>1, <6>1, <6>2
        <5> QED
          BY <5>2, <5>3
      <4>2. outcome' = "ok" => current' = Len(session)
        BY <3>14, <3>15
      <4> QED
        BY <2>4, <3>10, <3>12, <4>1, <4>2 DEF MappingGood, m
    <3>17. Reading'
      <4>1. current' \in DOMAIN session /\ outcome' \in {"parsing", "ok", "error"}
        <5>1. CASE last
          <6>1. current' = current /\ outcome' = "ok"
            BY <3>14, <5>1, Zenon
          <6> QED
            BY <3>13, <6>1
        <5>2. CASE ~last
          <6>1. current' = current + 1 /\ outcome' = "parsing"
            BY <3>15, <5>2, Zenon
          <6>2. current + 1 \in 1 .. Len(session)
            <7>1. ASSUME NEW l \in Nat, NEW c \in 1 .. l, c # l PROVE c + 1 \in 1 .. l
              BY <7>1
            <7>2. current # Len(session) /\ current \in 1 .. Len(session) /\ Len(session) \in Nat
              BY <3>13, <5>2, Zenon
            <7> QED
              BY <7>1, <7>2
          <6> QED
            BY <3>13, <6>1, <6>2
        <5> QED
          BY <5>1, <5>2
      <4>2. session'[current'].tokens \in Seq(LexerToken)
        BY <2>4, <4>1 DEF IInv, Reading
      <4>3. pos' \in 1 .. Len(session'[current'].tokens) + 1
        <5>1. CASE last
          BY <2>4, <3>14, <5>1 DEF IInv, Reading, Tokens
        <5>2. CASE ~last
          <6>1. Len(session'[current'].tokens) \in Nat
            BY <4>2
          <6> QED
            BY <3>15, <5>2, <6>1
        <5> QED
          BY <5>1, <5>2
      <4> QED
        BY <2>4, <4>1, <4>3 DEF IInv, Reading, Tokens
    <3>18. C \cup {root} = ToSet(mapping') \cup HeldIn(start)
      BY <3>4, <3>6, <3>11
    <3>19. (Covered(nodes, <<>>, Held))'
      BY <2>4, <3>5, <3>18 DEF Held
    <3> QED
      BY <2>4, <3>5, <3>7, <3>16, <3>17, <3>19 DEF IInv
  <2>7. Len(frames) = 1
    BY <1>1, <2>3
  <2> QED
    BY <2>6, <2>7
<1> QED
  BY <1>2, <1>3, Zenon DEF EndExpression

-----------------------------------------------------------------------------
(* The theorems. *)

(* A session has expressions, each a sequence of tokens, when CompileAll
   starts on it with nothing compiled. *)
LEMMA InitGood == Init => IInv
<1> SUFFICES ASSUME Init PROVE IInv
  OBVIOUS
<1>1. PICK S \in Sessions : session \in S
  BY Zenon DEF Init
<1>2. IsSeq(session) /\ session # <<>> /\ \A i \in DOMAIN session : session[i].tokens \in Seq(LexerToken)
  BY <1>1, SessionsAssumption DEF IsSeq
<1>3. Len(session) \in Nat /\ DOMAIN session = 1 .. Len(session) /\ Len(session) # 0
  BY <1>2, SeqFacts, EmptySeq DEF IsSeq
<1>4. current = 1 /\ pos = 1 /\ nodes = <<>> /\ mapping = <<>> /\ outcome = "parsing"
  BY Zenon DEF Init
<1>5. frames = <<Frame(<<>>, "value")>>
  BY Zenon DEF Init
<1>6. Reading
  <2>1. current \in DOMAIN session
    BY <1>3, <1>4
  <2>2. Len(session[current].tokens) \in Nat
    BY <1>2, <2>1
  <2> QED
    BY <1>2, <1>4, <2>1, <2>2 DEF Reading, Tokens
<1>7. IsSeq(<<>>) /\ Len(<<>>) = 0 /\ DOMAIN <<>> = {}
  BY EmptyFacts
<1>8. NodesGood(nodes)
  BY <1>4, <1>7 DEF NodesGood
<1>9. FramesGood
  <2>1. FramesOk(<<Frame(<<>>, "value")>>, Len(nodes))
    BY FirstFrame, Zenon
  <2> QED
    BY <1>5, <2>1, Zenon DEF FramesGood
<1>10. MappingGood
  BY <1>4, <1>7 DEF MappingGood
<1>11. Covered(nodes, <<>>, Held)
  BY <1>4, <1>7 DEF Covered
<1> QED
  BY <1>6, <1>8, <1>9, <1>10, <1>11 DEF IInv

LEMMA NextKeeps == IInv /\ [Next]_vars => IInv'
<1> SUFFICES ASSUME IInv, [Next]_vars PROVE IInv'
  OBVIOUS
<1>1. CASE UNCHANGED vars
  BY <1>1 DEF vars, IInv, Reading, Tokens, FramesGood, MappingGood, Held
<1>2. CASE Returned
  BY <1>1, <1>2 DEF Returned
<1> QED
  BY <1>1, <1>2, ReadLiteralKeeps, ReadMinusKeeps, ReadIdentifierKeeps, TimestampKeeps,
     OpenBuilderKeeps, ReadFieldKeeps, EndFieldKeeps, CloseBuilderKeeps, ReadOperatorKeeps,
     UnexpectedKeeps, EndExpressionKeeps DEF Next

(* ParserShunt keeps IInv from one token to the next: what is on its stacks,
   in its open builders and in idxMap refers to nodes of the list, and every
   node of the list is still referred to or on a stack. *)
THEOREM Inductive == Spec => []IInv
  BY InitGood, NextKeeps, PTL DEF Spec

(* The indices CompileAll keeps, in nodes, in open builders and in idxMap, are
   indices of its list of nodes, and idxMap has one of them for each expression
   that is compiled, whatever the session. *)
THEOREM TypeCorrect == Spec => []TypeOK
<1>1. IInv => TypeOK
  <2> SUFFICES ASSUME IInv PROVE TypeOK
    OBVIOUS
  <2>1. /\ outcome \in {"parsing", "ok", "error"} /\ current \in DOMAIN session
        /\ pos \in 1 .. Len(Tokens) + 1
    BY DEF IInv, Reading
  <2>2. DOMAIN nodes = 1 .. Len(nodes) /\ Len(nodes) \in Nat
    BY SeqFacts DEF IInv, NodesGood
  <2>3. ASSUME NEW i \in DOMAIN nodes PROVE IsNode(nodes[i])
    <3> DEFINE n == nodes[i]
    <3>1. NodeGood(n, i - 1)
      BY DEF IInv, NodesGood
    <3>2. \A a \in DOMAIN n.args : n.args[a] \in DOMAIN nodes
      BY <2>2, <3>1 DEF NodeGood
    <3> HIDE DEF n
    <3>3. DOMAIN n = {"type", "name", "names", "args", "value"}
      BY <3>1 DEF NodeGood, Node
    <3>4. n.type \in NodeTypes /\ n.value \in Int
      BY <3>1 DEF NodeGood
    <3> QED
      BY <3>2, <3>3, <3>4 DEF IsNode, n
  <2>4. FramesOk(frames, Len(nodes))
    BY DEF IInv, FramesGood
  <2>5. ASSUME NEW i \in DOMAIN frames
        PROVE  /\ Len(frames[i].names) \in {Len(frames[i].args), Len(frames[i].args) + 1}
               /\ ToSet(frames[i].args) \subseteq DOMAIN nodes
    <3>1. FrameGood(frames[i], Len(nodes))
      BY <2>4 DEF FramesOk
    <3>2. ToSet(frames[i].args) \subseteq DOMAIN nodes
      BY <2>2, <3>1 DEF FrameGood, ToSet
    <3>3. Len(frames[i].names) \in {Len(frames[i].args), Len(frames[i].args) + 1}
      <4>1. CASE i = 1
        <5>1. frames[i].names = frames[i].args
          BY <2>4, <4>1, Zenon DEF FramesOk
        <5> QED
          BY <5>1
      <4>2. CASE i # 1
        <5>1. DOMAIN frames = 1 .. Len(frames) /\ Len(frames) \in Nat
          BY <2>4, TopFacts
        <5>2. i > 1
          BY <4>2, <5>1
        <5>3. InField(frames[i])
          BY <2>4, <5>2 DEF FramesOk
        <5> QED
          BY <5>3 DEF InField
      <4> QED
        BY <4>1, <4>2
    <3> QED
      BY <3>2, <3>3
  <2>6. ToSet(mapping) \subseteq DOMAIN nodes
    BY <2>2 DEF IInv, MappingGood, ToSet
  <2>7. Len(mapping) = IF outcome = "ok" THEN Len(session) ELSE current - 1
    BY DEF IInv, MappingGood
  <2> QED
    BY <2>1, <2>3, <2>5, <2>6, <2>7 DEF TypeOK
<1> QED
  BY <1>1, Inductive, PTL

(* The expression list is in topological order and has no node twice, over all
   the expressions of a session: pushNode finds an equal node wherever it
   comes from, and a node is pushed after its operands. *)
THEOREM InOrder == Spec => []NodesInOrder
<1>1. IInv => NodesInOrder
  <2> SUFFICES ASSUME IInv, NEW i \in DOMAIN nodes
               PROVE  /\ \A k \in DOMAIN nodes[i].args : nodes[i].args[k] < i
                      /\ \A j \in DOMAIN nodes : nodes[i] = nodes[j] => i = j
    BY DEF NodesInOrder
  <2>1. DOMAIN nodes = 1 .. Len(nodes) /\ Len(nodes) \in Nat
    BY SeqFacts DEF IInv, NodesGood
  <2>2. NodeGood(nodes[i], i - 1)
    BY DEF IInv, NodesGood
  <2>3. \A k \in DOMAIN nodes[i].args : nodes[i].args[k] < i
    BY <2>1, <2>2 DEF NodeGood
  <2>4. \A j \in DOMAIN nodes : nodes[i] = nodes[j] => i = j
    BY DEF IInv, NodesGood
  <2> QED
    BY <2>3, <2>4
<1> QED
  BY <1>1, Inductive, PTL

(* Whatever the operators of a session take from the operand stack, no node of
   a list that CompileAll returns is left out of its expressions: Compile
   insists on exactly one operand at the end of each. *)
THEOREM NothingLeftOver == Spec => []NoOrphans
<1>1. IInv => NoOrphans
  <2> SUFFICES ASSUME IInv, outcome = "ok", NEW i \in DOMAIN nodes
               PROVE  \/ i \in ToSet(mapping)
                      \/ \E j \in DOMAIN nodes : i \in ToSet(nodes[j].args)
    BY DEF NoOrphans
  <2>1. frames = <<Frame(<<>>, "value")>>
    BY Zenon DEF IInv, FramesGood
  <2>2. HeldIn(frames) = {}
    BY <2>1, FirstFrame, Zenon
  <2>3. Covered(nodes, <<>>, ToSet(mapping))
    <3>1. Covered(nodes, <<>>, Held)
      BY DEF IInv
    <3>2. Held \subseteq ToSet(mapping)
      BY <2>2 DEF Held
    <3> QED
      BY <3>1, <3>2, CoveredMore
  <2>4. DOMAIN <<>> = {}
    BY EmptyFacts
  <2> QED
    BY <2>3, <2>4 DEF Covered
<1> QED
  BY <1>1, Inductive, PTL

(* resolveBigInt is applied after the minus sign: both ends of the ranges of
   int32 and int64 get the type they belong to, for all bounds. *)
THEOREM Narrowest == Spec => []LiteralsNarrowest
<1>1. IInv => LiteralsNarrowest
  <2> SUFFICES ASSUME IInv PROVE LiteralsNarrowest
    OBVIOUS
  <2>1. \A i \in DOMAIN nodes : NarrowestType(nodes[i])
    BY DEF IInv, NodesGood, NodeGood
  <2> QED
    BY <2>1, Zenon DEF LiteralsNarrowest, NarrowestType
<1> QED
  BY <1>1, Inductive, PTL
=============================================================================
