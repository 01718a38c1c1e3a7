--------------------------- MODULE ExpressionParser ---------------------------
(***************************************************************************)
(* ParserShunt (mcg/expressions/parse.go): the expressions of a session    *)
(* are compiled one after the other into one shared list of nodes.         *)
(*                                                                         *)
(* An expression is the sequence of tokens the lexer makes of it.  One     *)
(* action reads one token (or the few a construct starts with); a stack of *)
(* frames holds the message builders that are open, the expression itself  *)
(* at the bottom.  The code collects the tokens of a builder's field       *)
(* first and tokenizes them in a nested call; reading them in place gives  *)
(* the same tokens, and compiles the fields in the same order.             *)
(*                                                                         *)
(* Which error is reported is not told apart: every error ends CompileAll. *)
(***************************************************************************)
EXTENDS Integers, Sequences, FiniteSets, SequencesExt

CONSTANTS
  Sessions,     \* sets of sessions: sequences of records whose tokens are an expression
  MaxInt32, MaxInt64, MaxFloat64   \* the bounds of the numeric types

ASSUME NumericBounds ==
  /\ {MaxInt32, MaxInt64, MaxFloat64} \subseteq Nat
  /\ MaxInt32 < MaxInt64
  /\ MaxInt64 < MaxFloat64

\* What the lexer makes of an expression: an identifier in its parts between
\* dots, a literal with its value.
LexerToken == [kind : STRING, parts : Seq(STRING), value : Int]

ASSUME SessionsAssumption ==
  \A S \in Sessions : \A s \in S :
    /\ s \in Seq(ToSet(s)) \ {<<>>}
    /\ \A i \in DOMAIN s : s[i].tokens \in Seq(LexerToken)

VARIABLES
  session,      \* the expressions, in the order of their ids
  options,      \* the query parameters NewParserShunt gets
  current,      \* the expression that is being compiled
  pos,          \* its next token
  frames,       \* the builders that are open in it, the expression at the bottom
  nodes,        \* ParserShunt.nodes
  mapping,      \* idxMap: the root node of each compiled expression
  outcome       \* "parsing", "ok" or "error"

vars == <<session, options, current, pos, frames, nodes, mapping, outcome>>

-----------------------------------------------------------------------------
(* Operators.  "neg" is OperatorUnaryMinus, "subscript" OperatorSubscript,   *)
(* and "-" OperatorSubtract; the others are written as in an expression.     *)

FunctionLike == {"alleq", "contains", "doesnotcontain", "floor", "round",
                 "ceil", "abs", "length"}
Unary        == {"floor", "round", "ceil", "!", "abs", "neg", "length"}
Comparison   == {"==", "!=", "<", "<=", ">", ">="}
Delimiters   == {"(", ")", "[", "]", ","}

AllOperators == Delimiters \cup Comparison \cup Unary \cup FunctionLike \cup
                  {"||", "&&", "^", "+", "-", "*", "/", "%", "**", "subscript"}

precedence ==
  [op \in AllOperators |->
     CASE op \in Delimiters             -> 0  [] op = "||" -> 4
       [] op = "&&"                     -> 5  [] op = "^"  -> 7
       [] op \in {"==", "!="}           -> 9  [] op \in {">=", ">", "<=", "<"} -> 10
       [] op \in {"+", "-", "neg"}      -> 12 [] op \in {"*", "/", "%"} -> 13
       [] op = "!"                      -> 14
       [] op \in {"**", "subscript"} \cup FunctionLike -> 15]

\* Two operators have the same value in the node: alleq and ==.
operatorToProto(op) == IF op = "alleq" THEN "==" ELSE op

-----------------------------------------------------------------------------
(* Nodes: args are the positions of the nodes a node refers to, names the    *)
(* field names of a leaf or a builder.  The name, in parts as an identifier  *)
(* is, is that of a source, an operator, a clock or a message type.          *)

Node(type, name, names, args, value) ==
  [type |-> type, name |-> name, names |-> names, args |-> args, value |-> value]

\* What tokenizeStream makes of its input: operators, and the nodes of leaves,
\* builders and timestamps.
Operand(node)  == [op |-> "", node |-> node]
Operator(op)   == [op |-> op, node |-> Node("", <<>>, <<>>, <<>>, 0)]

\* An integer gets the first of int32, int64 and double that holds it.
resolveBigInt(v) ==
  IF v \in -(MaxInt32 + 1) .. MaxInt32 THEN "int32"
  ELSE IF v \in -(MaxInt64 + 1) .. MaxInt64 THEN "int64"
  ELSE IF v \in -MaxFloat64 .. MaxFloat64 THEN "double"
  ELSE "none"

\* Mutant: the type is resolved before the sign.
LiteralUnsigned(token, v) ==
  Node(IF token.kind = "number" THEN resolveBigInt(IF v < 0 THEN -v ELSE v)
       ELSE IF token.kind = "bool" THEN "bool" ELSE "double",
       <<>>, <<>>, <<>>, v)

Literal(token, v) ==
  Node(CASE token.kind = "bool"   -> "bool"
         [] token.kind = "float"  -> "double"
         [] token.kind = "number" -> resolveBigInt(v),
       <<>>, <<>>, <<>>, v)

Clocks == {"REALTIME_CLOCK", "MONOTONIC_TIME_SINCE_BOOT",
           "MONOTONIC_TIME_SINCE_BOOT_OR_RESUME"}

\* An identifier is the sequence of its parts between dots; the first is empty
\* when it starts with one.
IsPostfix(parts)  == parts[1] = ""
WellFormed(parts) == \A i \in 2 .. Len(parts) : parts[i] # ""

parseValue(parts) ==
  IF Len(parts) = 1 /\ parts[1] \in FunctionLike THEN Operator(parts[1])
  ELSE Operand(Node("field", <<parts[1]>>, Tail(parts), <<>>, 0))

-----------------------------------------------------------------------------
(* compileTokens: a shunting-yard over the tokens.  ps holds the two stacks, *)
(* the nodes and whether no error was met.                                   *)

Fail(ps) == [ps EXCEPT !.ok = FALSE]

\* Mutant: an index too low by one.
pushNodeOffByOne(ps, node, isComparison) ==
  [ps EXCEPT !.nodes    = Append(@, node),
             !.operands = Append(@, [index |-> Len(ps.nodes), comparison |-> isComparison,
                                     parenthesized |-> FALSE])]

\* Mutant: an equal node is not looked for.
pushNodeAlways(ps, node, isComparison) ==
  [ps EXCEPT !.nodes    = Append(@, node),
             !.operands = Append(@, [index |-> Len(ps.nodes) + 1, comparison |-> isComparison,
                                     parenthesized |-> FALSE])]

\* pushNode and pushNodeToOperandStack: an equal node is not added twice.
pushNode(ps, node, isComparison) ==
  LET known == {i \in DOMAIN ps.nodes : ps.nodes[i] = node}
      index == IF known = {} THEN Len(ps.nodes) + 1 ELSE CHOOSE i \in known : TRUE
  IN  [ps EXCEPT !.nodes    = IF known = {} THEN Append(@, node) ELSE @,
                 !.operands = Append(@, [index |-> index, comparison |-> isComparison,
                                         parenthesized |-> FALSE])]

buildCombinationNode(ps, op) ==
  LET arity   == IF op \in Unary THEN 1 ELSE 2
      rest    == Len(ps.operands) - arity
      args    == SubSeq(ps.operands, rest + 1, Len(ps.operands))
      chained == /\ op \in Comparison
                 /\ \E i \in DOMAIN args : args[i].comparison /\ ~args[i].parenthesized
  IN  IF ~ps.ok \/ rest < 0 \/ (chained /\ options.disallowChaining) THEN Fail(ps)
      ELSE pushNode([ps EXCEPT !.operands = SubSeq(@, 1, rest)],
                    Node("combination", <<operatorToProto(op)>>, <<>>,
                         [i \in DOMAIN args |-> args[i].index], 0),
                    op \in Comparison)

\* The operators above position j are popped, each with its operands.
PopTo(ps, j) ==
  LET n     == Len(ps.operators)
      after[k \in 0 .. (n - j)] ==
        IF k = 0 THEN [ps EXCEPT !.operators = SubSeq(@, 1, j)]
        ELSE buildCombinationNode(after[k - 1], ps.operators[n - k + 1])
  IN  after[n - j]

\* The highest operator in S, or 0.
Topmost(ps, S) ==
  Max({0} \cup {i \in DOMAIN ps.operators : ps.operators[i] \in S})

\* Mutant: operators of equal precedence stay.
collapseOperatorsStrictly(ps, target) ==
  PopTo(ps, Topmost(ps, {op \in DOMAIN precedence : precedence[op] <= target}))

collapseOperators(ps, target) ==
  PopTo(ps, Topmost(ps, {op \in DOMAIN precedence : precedence[op] < target}))

Push(ps, op) == [ps EXCEPT !.operators = Append(@, op)]

\* isLastTokenOperator: nothing, or an operator that does not close something.
ExpectsOperand(tokens) ==
  tokens = <<>> \/ Last(tokens).op \notin {"", ")", "]"}

\* The bracket at position j is closed; inner is what it encloses.
closeParen(ps, j, inner) ==
  LET enclosing == IF j > 1 THEN ps.operators[j - 1] ELSE ""
      operand   == Last(inner.operands)
      builder   == /\ inner.operands # <<>>
                   /\ ~operand.parenthesized
                   /\ inner.nodes[operand.index].type = "builder"
      redundant == /\ j = Len(ps.operators)
                   /\ ~builder
                   /\ enclosing \notin FunctionLike \cup Unary
      marked    == IF inner.operands = <<>> THEN inner
                   ELSE [inner EXCEPT !.operands[Len(inner.operands)].parenthesized = TRUE]
  IN  IF j = 0 \/ ~inner.ok THEN Fail(ps)
      ELSE IF ps.operators[j] = "[" \/ redundant THEN Fail(ps)
      ELSE IF enclosing \in FunctionLike
           THEN buildCombinationNode([marked EXCEPT !.operators = SubSeq(@, 1, j - 2)], enclosing)
           ELSE [marked EXCEPT !.operators = SubSeq(@, 1, j - 1)]

handleRightParen(ps) ==
  LET j == Topmost(ps, {"(", "["}) IN closeParen(ps, j, PopTo(ps, j))

handleRightSquareBracket(ps) ==
  LET j == Topmost(ps, {"(", "["})
  IN  IF j < 2 THEN Fail(ps)
      ELSE IF ps.operators[j] = "(" \/ ps.operators[j - 1] # "subscript" THEN Fail(ps)
      ELSE [PopTo(ps, j) EXCEPT !.operators = SubSeq(@, 1, j - 1)]

\* A comma separates arguments: it ends the one before it.
handleComma(ps, before) ==
  LET j == Topmost(ps, {"(", "["})
  IN  IF ExpectsOperand(before) \/ j < 2 THEN Fail(ps)
      ELSE IF ps.operators[j] = "[" \/ ps.operators[j - 1] \notin FunctionLike THEN Fail(ps)
      ELSE PopTo(ps, j)

accessField(collapsed, leaf) ==
  IF ~collapsed.ok \/ collapsed.operands = <<>> THEN Fail(collapsed)
  ELSE pushNode([collapsed EXCEPT !.operands = Front(@)],
                [leaf EXCEPT !.args = <<Last(collapsed.operands).index>>], FALSE)

\* A field access after an operand applies to what ** and [] have made of it.
handlePostfix(ps, before, leaf) ==
  IF ExpectsOperand(before) \/ Last(before).node.type = "builder" THEN Fail(ps)
  ELSE accessField(collapseOperators(ps, precedence["subscript"]), leaf)

compileToken(ps, tokens, i) ==
  LET op     == tokens[i].op
      before == SubSeq(tokens, 1, i - 1)
      target == precedence[op] + (IF options.rightAssociative /\ op = "**" THEN 1 ELSE 0)
  IN  IF ~ps.ok THEN ps
      ELSE CASE op = "" ->
             IF tokens[i].node.type = "field" /\ IsPostfix(tokens[i].node.name)
             THEN handlePostfix(ps, before, tokens[i].node)
             ELSE pushNode(ps, tokens[i].node, FALSE)
        [] op \in FunctionLike ->
             IF i < Len(tokens) /\ tokens[i + 1].op = "(" THEN Push(ps, op) ELSE Fail(ps)
        [] op = ","                 -> handleComma(ps, before)
        [] op \in {"neg", "!", "("} -> Push(ps, op)
        [] op = ")" ->
             IF i > 1 /\ tokens[i - 1].op = "," THEN Fail(ps) ELSE handleRightParen(ps)
        [] op = "[" ->
             Push(Push(collapseOperators(ps, precedence["subscript"]), "subscript"), "[")
        [] op = "]"                 -> handleRightSquareBracket(ps)
        [] OTHER                    -> Push(collapseOperators(ps, target), op)

\* Mutant: operands may be left over.
CompleteWithRest(ps) == ps.ok /\ ps.operands # <<>>

\* Exactly one operand is left.
Complete(ps) == ps.ok /\ Len(ps.operands) = 1

\* The nodes after compiling the tokens, the root among them, and whether no
\* error was met.
compiledTo(ps) ==
  IF Complete(ps)
  THEN [ok |-> TRUE, nodes |-> ps.nodes, root |-> Last(ps.operands).index]
  ELSE [ok |-> FALSE, nodes |-> nodes, root |-> 0]

\* The end of the tokens: no bracket may be open.
popRest(ps) ==
  IF ps.ok /\ Topmost(ps, {"(", "["}) = 0 THEN PopTo(ps, 0) ELSE Fail(ps)

compileTokens(tokens) ==
  LET after[i \in 0 .. Len(tokens)] ==
        IF i = 0 THEN [operands |-> <<>>, operators |-> <<>>, nodes |-> nodes, ok |-> TRUE]
        ELSE compileToken(after[i - 1], tokens, i)
  IN  compiledTo(popRest(after[Len(tokens)]))

-----------------------------------------------------------------------------
(* TokenStream.                                                              *)

Tokens == session[current].tokens

\* Lookahead(n).
Token(n) ==
  IF pos + n <= Len(Tokens) THEN Tokens[pos + n]
  ELSE [kind |-> "eof", parts |-> <<>>, value |-> 0]

Frame(type, reading) ==
  [type    |-> type,      \* the message type of the builder
   names   |-> <<>>,      \* its fields so far
   args    |-> <<>>,      \* the nodes of their expressions
   reading |-> reading,   \* "field" or "value"
   tokens  |-> <<>>,      \* the expression that is being read
   open    |-> <<>>]      \* openDelimiters

top       == Last(frames)
InBuilder == Len(frames) > 1

MatchingDelimiter == ("(" :> ")") @@ ("[" :> "]")

-----------------------------------------------------------------------------
Reject ==
  /\ outcome' = "error"
  /\ UNCHANGED <<session, options, current, pos, frames, nodes, mapping>>

\* n tokens of the stream become one token of the expression.
Take(n, token) ==
  /\ pos'    = pos + n
  /\ frames' = [frames EXCEPT ![Len(frames)].tokens = Append(@, token)]
  /\ UNCHANGED <<session, options, current, nodes, mapping, outcome>>

\* A value is read, not the name of a field.
ReadingValue == outcome = "parsing" /\ top.reading = "value"

TakeLiteral(n, literal) ==
  IF literal.type = "none" THEN Reject ELSE Take(n, Operand(literal))

ReadLiteral ==
  /\ ReadingValue
  /\ Token(0).kind \in {"bool", "number", "float"}
  /\ TakeLiteral(1, Literal(Token(0), Token(0).value))

\* A minus where an operand is due belongs to the number after it, which is
\* negated before it gets its type, or is an operator of its own.
ReadMinus ==
  /\ ReadingValue
  /\ Token(0).kind = "-"
  /\ IF ~ExpectsOperand(top.tokens) THEN Take(1, Operator("-"))
     ELSE IF Token(1).kind \in {"number", "float"}
          THEN TakeLiteral(2, Literal(Token(1), -Token(1).value))
          ELSE Take(1, Operator("neg"))

\* "{", or "new T {".
StartsBuilder ==
  \/ Token(0).kind = "{"
  \/ /\ Token(0).kind = "identifier" /\ Token(0).parts = <<"new">>
     /\ Token(1).kind = "identifier" /\ Token(2).kind = "{"

StartsTimestamp ==
  /\ Token(0).kind = "identifier" /\ Token(0).parts = <<"timestamp">>
  /\ Token(1).kind = "("

ReadIdentifier ==
  /\ ReadingValue
  /\ Token(0).kind = "identifier"
  /\ ~StartsBuilder /\ ~StartsTimestamp
  /\ IF WellFormed(Token(0).parts) THEN Take(1, parseValue(Token(0).parts)) ELSE Reject

parseTimestampFunction ==
  /\ ReadingValue
  /\ StartsTimestamp
  /\ IF /\ Token(2).kind = "identifier" /\ Len(Token(2).parts) = 1
        /\ Token(2).parts[1] \in Clocks
        /\ Token(3).kind = ")"
     THEN Take(4, Operand(Node("timestamp", Token(2).parts, <<>>, <<>>, 0)))
     ELSE Reject

OpenBuilder ==
  /\ ReadingValue
  /\ StartsBuilder
  /\ frames' = Append(frames, Frame(IF Token(0).kind = "{" THEN <<>> ELSE Token(1).parts, "field"))
  /\ pos'    = pos + (IF Token(0).kind = "{" THEN 1 ELSE 3)
  /\ UNCHANGED <<session, options, current, nodes, mapping, outcome>>

\* The name of a field, which is any identifier without a dot, and its colon.
ReadField ==
  /\ outcome = "parsing" /\ top.reading = "field"
  /\ Token(0).kind # "}"
  /\ IF /\ Token(0).kind = "identifier" /\ Len(Token(0).parts) = 1
        /\ ~Contains(top.names, Token(0).parts[1])
        /\ Token(1).kind = ":"
     THEN /\ frames' = [frames EXCEPT ![Len(frames)].names   = Append(@, Token(0).parts[1]),
                                      ![Len(frames)].reading = "value"]
          /\ pos' = pos + 2
          /\ UNCHANGED <<session, options, current, nodes, mapping, outcome>>
     ELSE Reject

\* A field ends at the first "," or "}" outside the parentheses and brackets
\* opened in it, and is compiled then.
EndsField == InBuilder /\ top.open = <<>> /\ Token(0).kind \in {",", "}"}

EndField ==
  /\ ReadingValue
  /\ EndsField
  /\ \E compiled \in {compileTokens(top.tokens)} :
       IF top.tokens # <<>> /\ compiled.ok
       THEN /\ nodes'  = compiled.nodes
            /\ frames' = [frames EXCEPT ![Len(frames)].args    = Append(@, compiled.root),
                                        ![Len(frames)].tokens  = <<>>,
                                        ![Len(frames)].reading = "field"]
            /\ pos' = pos + (IF Token(0).kind = "," THEN 1 ELSE 0)
            /\ UNCHANGED <<session, options, current, mapping, outcome>>
       ELSE Reject

\* The builder becomes an operand of the expression around it.  A field of it
\* may not be accessed without parentheses.
CloseBuilder ==
  /\ outcome = "parsing" /\ top.reading = "field"
  /\ Token(0).kind = "}"
  /\ IF Token(1).kind = "identifier" /\ IsPostfix(Token(1).parts) THEN Reject
     ELSE LET node == Node("builder", top.type, top.names, top.args, 0)
          IN  /\ frames' = [Front(frames) EXCEPT
                              ![Len(frames) - 1].tokens = Append(@, Operand(node))]
              /\ pos' = pos + 1
              /\ UNCHANGED <<session, options, current, nodes, mapping, outcome>>

\* The other tokens are operators (parseOperator).  Inside a builder the
\* parentheses and brackets of a field have to match.
Operators == DOMAIN precedence \ (FunctionLike \cup {"neg", "subscript", "-"})

ReadOperator ==
  /\ ReadingValue
  /\ Token(0).kind \in Operators /\ ~EndsField
  /\ LET kind    == Token(0).kind
         matches == top.open # <<>> /\ MatchingDelimiter[Last(top.open)] = kind
         open    == IF kind \in {"(", "["} THEN Append(top.open, kind)
                    ELSE IF kind \in {")", "]"} /\ InBuilder THEN Front(top.open)
                    ELSE top.open
     IN  IF InBuilder /\ kind \in {")", "]"} /\ ~matches THEN Reject
         ELSE /\ pos'    = pos + 1
              /\ frames' = [frames EXCEPT ![Len(frames)].tokens = Append(@, Operator(kind)),
                                          ![Len(frames)].open   = IF InBuilder THEN open ELSE @]
              /\ UNCHANGED <<session, options, current, nodes, mapping, outcome>>

\* A colon or a closing brace that is not due, or the end inside a builder.
Unexpected ==
  /\ ReadingValue
  /\ \/ Token(0).kind = ":"
     \/ Token(0).kind = "}" /\ ~EndsField
     \/ Token(0).kind = "eof" /\ InBuilder
  /\ Reject

\* The expression is complete: compile it and go on with the next one.
EndExpression ==
  /\ ReadingValue
  /\ Token(0).kind = "eof" /\ ~InBuilder
  /\ \E compiled \in {compileTokens(top.tokens)} :
       LET last == current = Len(session)
       IN  IF compiled.ok
           THEN /\ nodes'   = compiled.nodes
                /\ mapping' = Append(mapping, compiled.root)
                /\ outcome' = IF last THEN "ok" ELSE "parsing"
                /\ current' = IF last THEN current ELSE current + 1
                /\ pos'     = IF last THEN pos ELSE 1
                /\ frames'  = <<Frame(<<>>, "value")>>
                /\ UNCHANGED <<session, options>>
           ELSE Reject

-----------------------------------------------------------------------------
Init ==
  /\ \E S \in Sessions : session \in S
  /\ options \in [disallowChaining : BOOLEAN, rightAssociative : BOOLEAN]
  /\ current = 1 /\ pos = 1
  /\ frames = <<Frame(<<>>, "value")>>
  /\ nodes = <<>> /\ mapping = <<>>
  /\ outcome = "parsing"

\* CompileAll has returned.
Returned == outcome # "parsing" /\ UNCHANGED vars

Next ==
  \/ ReadLiteral \/ ReadMinus \/ ReadIdentifier \/ parseTimestampFunction
  \/ OpenBuilder \/ ReadField \/ EndField \/ CloseBuilder
  \/ ReadOperator \/ Unexpected \/ EndExpression
  \/ Returned

Spec == Init /\ [][Next]_vars

-----------------------------------------------------------------------------
NodeTypes == {"field", "bool", "int32", "int64", "double", "timestamp",
              "combination", "builder"}

IsNode(n) ==
  /\ DOMAIN n = {"type", "name", "names", "args", "value"}
  /\ n.type \in NodeTypes
  /\ n.value \in Int
  /\ \A i \in DOMAIN n.args : n.args[i] \in DOMAIN nodes

(* Indices into the list of nodes are indices of it, and what is reported at
   the end belongs to the expressions of the session. *)
TypeOK ==
  /\ outcome \in {"parsing", "ok", "error"}
  /\ current \in DOMAIN session
  /\ pos \in 1 .. Len(Tokens) + 1
  /\ \A i \in DOMAIN nodes : IsNode(nodes[i])
  /\ \A i \in DOMAIN frames : /\ Len(frames[i].names) \in {Len(frames[i].args), Len(frames[i].args) + 1}
                              /\ ToSet(frames[i].args) \subseteq DOMAIN nodes
  /\ ToSet(mapping) \subseteq DOMAIN nodes
  /\ Len(mapping) = IF outcome = "ok" THEN Len(session) ELSE current - 1

(* The expression list is a topological order without duplicates: a node
   refers only to nodes before it, and no two nodes are equal, whichever of
   the session's expressions they come from. *)
NodesInOrder ==
  \A i \in DOMAIN nodes :
    /\ \A k \in DOMAIN nodes[i].args : nodes[i].args[k] < i
    /\ \A j \in DOMAIN nodes : nodes[i] = nodes[j] => i = j

(* Every node a successful CompileAll returns is part of one of its
   expressions. *)
NoOrphans ==
  outcome = "ok" =>
    \A i \in DOMAIN nodes :
      \/ i \in ToSet(mapping)
      \/ \E j \in DOMAIN nodes : i \in ToSet(nodes[j].args)

(* An integer has the narrowest type that holds it, at both ends of each
   range: the minus sign before a literal is part of it. *)
LiteralsNarrowest ==
  \A i \in DOMAIN nodes :
    LET v == nodes[i].value
    IN  /\ nodes[i].type = "int32" => v \in -(MaxInt32 + 1) .. MaxInt32
        /\ nodes[i].type = "int64" => \/ v \in MaxInt32 + 1 .. MaxInt64
                                     \/ v \in -(MaxInt64 + 1) .. -(MaxInt32 + 2)

=============================================================================
