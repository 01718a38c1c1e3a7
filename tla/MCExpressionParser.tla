-------------------------- MODULE MCExpressionParser --------------------------
(***************************************************************************)
(* ExpressionParser for TLC: expressions written from trees, and arbitrary *)
(* short strings of tokens.                                                *)
(***************************************************************************)
EXTENDS ExpressionParser, ExpressionGrammar

CONSTANT Families   \* the kinds of sessions to check

(* Trees of up to three operators.  A name has a dot or not: the field of a
   source is part of its identifier, and only other operands are accessed. *)
Unaries(ops, S) ==
  {Apply(op, <<k>>) : op \in ops \ {"access", "builder"}, k \in S}
    \cup {Access(k, "f") : k \in {k \in S : "access" \in ops
                                    /\ k.op \notin {"source", "number", "access"}}}
    \cup {Builder("f", k) : k \in {k \in S : "builder" \in ops}}

Binaries(ops, L, R) == {Apply(op, <<l, r>>) : op \in ops, l \in L, r \in R}

Larger(un, bi, S) ==
  Unaries(un, S) \cup Binaries(bi, S, {Source("b")}) \cup Binaries(bi, {Source("a")}, S)

TwoOperators ==
  LET un   == {"neg", "!", "abs", "access", "builder"}
      bi   == {"||", "&&", "^", "==", "<", "+", "-", "*", "**", "subscript", "contains"}
      one  == Unaries(un, {Source("a"), Number(1)})
                \cup Binaries(bi, {Source("a")}, {Source("b"), Number(-2)})
  IN  one \cup Larger(un, bi, one)

ThreeOperators ==
  LET un  == {"neg", "!", "access"}
      bi  == {"==", "+", "*", "**", "subscript"}
      one == Unaries(un, {Source("a")}) \cup Binaries(bi, {Source("a")}, {Source("b")})
  IN  Larger(un, bi, Larger(un, bi, one)) \cup Binaries(bi, one, one)

\* An expression and the tree it was written from, if any; under says which
\* associativity of ** it was written for.
Written(t, assoc) ==
  [tokens |-> Render(t, assoc), tree |-> <<t>>,
   under  |-> {b \in BOOLEAN : Render(t, b) = Render(t, assoc)}]
Raw(tokens) == [tokens |-> tokens, tree |-> <<>>, under |-> {}]

\* Up to three tokens.
Words(alphabet) ==
  {<<>>} \cup {<<x>> : x \in alphabet} \cup {<<x, y>> : x, y \in alphabet}
    \cup {<<x, y, z>> : x, y, z \in alphabet}

Symbols == {Tok(k) : k \in {"-", "!", "+", "==", "**", "(", ")", "[", "]", ",", "{", "}"}}
Literals == {[Num(1) EXCEPT !.kind = k] : k \in {"bool", "float"}}
Identifiers == {Ident(<<"a">>), Ident(<<"", "f">>), Ident(<<"a", "">>), Ident(<<"abs">>)}

A        == Ident(<<"a">>)
Starts   == {<<Ident(<<"alleq">>), Tok("(")>>,
             <<Tok("{"), A, Tok(":")>>,
             <<A, Tok("+"), Ident(<<"new">>), Ident(<<"p", "T">>), Tok("{"), Ident(<<"b">>), Tok(":"), A>>,
             <<Tok("("), Tok("{"), Ident(<<"b">>), Tok(":"), A, Tok("}")>>,
             <<Tok("{"), A, Tok(":"), Tok("{"), Tok("}")>>,
             <<Ident(<<"timestamp">>), Tok("(")>>}
Continued == {Tok(k) : k \in {"(", ")", "]", ",", "}", ":"}}
               \cup {A, Ident(<<"", "f">>), Ident(<<"REALTIME_CLOCK">>)}

Numerals ==
  {Raw(before \o <<Num(n)>> \o after) :
     n \in 0 .. MaxFloat64 + 1,
     before \in {<<>>, <<Tok("-")>>, <<A, Tok("-")>>, <<A, Tok("*"), Tok("-")>>},
     after \in {<<>>, <<Tok("+"), Num(1)>>}}

Shared ==
  {Written(t, TRUE) : t \in {Apply("+", <<Source("a"), Source("b")>>),
                             Apply("==", <<Source("a"), Source("b")>>),
                             Apply("neg", <<Apply("+", <<Source("a"), Source("b")>>)>>),
                             Builder("f", Apply("+", <<Source("a"), Source("b")>>)),
                             Source("b")}}
    \cup {Raw(<<Ident(<<"alleq">>), Tok("("), A, Tok(","), Ident(<<"b">>), Tok(")")>>),
          Raw(<<A, A>>)}

SessionsOf ==
  [trees    |-> {<<Written(t, assoc)>> : t \in TwoOperators \cup ThreeOperators, assoc \in BOOLEAN},
   words    |-> {<<Raw(w)>> : w \in Words(Symbols \cup Literals \cup Identifiers)},
   starts   |-> {<<Raw(s \o w)>> : s \in Starts, w \in Words(Continued)},
   numerals |-> {<<n>> : n \in Numerals},
   shared   |-> {<<m, n>> : m \in Shared, n \in Shared}]

MCSessions == {SessionsOf[f] : f \in Families}

-----------------------------------------------------------------------------
\* The tree below a node.
RECURSIVE Unfold(_)
Unfold(i) ==
  LET n    == nodes[i]
      kids == [k \in DOMAIN n.args |-> Unfold(n.args[k])]
  IN  CASE n.type = "combination"                     -> Apply(n.name[1], kids)
        [] n.type = "field" /\ n.args = <<>>          -> Source(n.name[1])
        [] n.type = "field" /\ n.args # <<>>          -> Access(kids[1], n.names[1])
        [] n.type = "builder"                         -> Builder(n.names[1], kids[1])
        [] n.type \in {"int32", "int64", "double"}    -> Number(n.value)

\* x[i] ** y written as such: see IndexEndsAtBracket.
IndexBeforePower(tokens) ==
  \E i \in 1 .. Len(tokens) - 1 : tokens[i].kind = "]" /\ tokens[i + 1].kind = "**"

\* x ** (y[i].f), whose parentheses are taken for redundant.
AccessInPower(t) ==
  \E s \in Subtrees(t) : s.op = "**" /\ s.kids[2].op = "access"

\* Expression i was written from a tree for the options of this request.
IsWritten(i) == session[i].tree # <<>> /\ options.rightAssociative \in session[i].under

\* It was compiled into that tree, or was rejected since it has to be.
CompiledAsWritten(i) ==
  LET t       == session[i].tree[1]
      refused == options.disallowChaining /\ Chains(t, options.rightAssociative)
  IN  IF outcome = "error" THEN refused ELSE ~refused /\ Unfold(mapping[i]) = t

(* Every tree, written with the parentheses that the documented precedences
   ask for, is accepted and compiled into that tree, under both
   associativities of **; it is rejected only for a chain of comparisons, and
   then whenever those are disallowed.  Excepted are indexing right before a
   right-associative ** (IndexEndsAtBracket) and a field access of an element
   as the exponent, which can not be written at all. *)
MeansItsTree ==
  (outcome # "parsing" /\ Len(session) = 1 /\ IsWritten(1)
     /\ ~AccessInPower(session[1].tree[1])
     /\ ~(options.rightAssociative /\ IndexBeforePower(session[1].tokens)))
    => CompiledAsWritten(1)

(* "source[index]" and ** have the highest precedence and brackets are "used
   exclusively for list subscripting" (mcg/docs/openapi.template.yaml): what
   stands in the brackets is the index, whatever follows them. *)
IndexEndsAtBracket ==
  (outcome # "parsing" /\ Len(session) = 1 /\ IsWritten(1)
     /\ IndexBeforePower(session[1].tokens))
    => CompiledAsWritten(1)
=============================================================================
