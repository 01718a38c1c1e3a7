-------------------------- MODULE ExpressionGrammar --------------------------
(***************************************************************************)
(* The expression language as the API documentation describes it           *)
(* (ExpressionSyntax in mcg/docs/openapi.template.yaml): trees, and how a  *)
(* tree is written with as few parentheses as the documented precedence    *)
(* allows.  It is the reference the parser is compared with.               *)
(***************************************************************************)
EXTENDS Integers, Sequences, SequencesExt

Tree(op, name, kids, value) == [op |-> op, name |-> name, kids |-> kids, value |-> value]

Source(name)       == Tree("source", name, <<>>, 0)
Number(value)      == Tree("number", "", <<>>, value)
Apply(op, kids)    == Tree(op, "", kids, 0)
Access(kid, name)  == Tree("access", name, <<kid>>, 0)
Builder(name, kid) == Tree("builder", name, <<kid>>, 0)

Prefix    == {"neg", "!"}
Functions1 == {"abs", "length"}
Functions2 == {"contains"}
Infix     == {"||", "&&", "^", "==", "<", "+", "-", "*", "**"}

\* "Operator Precedence (Highest to Lowest)", counted from the lowest.
Level(op) ==
  CASE op = "||" -> 1 [] op = "&&" -> 2 [] op = "^" -> 3 [] op = "==" -> 4
    [] op = "<"  -> 5 [] op \in {"+", "-", "neg"} -> 6 [] op = "*" -> 7
    [] op = "!"  -> 8 [] op \in {"**", "subscript", "access"} -> 9
    [] OTHER -> 10

\* What has ended before its last token needs no precedence on the right.
RECURSIVE RightLevel(_, _)

\* l ** r with l or r a power: the associativity is the caller's choice.
PowerIn(op, kid) == op = "**" /\ kid.op = "**"

RightParens(op, r, rightAssoc) ==
  \/ r.op \in Infix \cup {"subscript", "access"} /\ Level(r.op) < Level(op)
  \/ r.op \in Infix \cup {"subscript", "access"} /\ Level(r.op) = Level(op)
       /\ ~(PowerIn(op, r) /\ rightAssoc)
  \/ op = "neg" /\ r.op = "number" /\ r.value >= 0

RightLevel(t, rightAssoc) ==
  LET last == Last(t.kids)
  IN  IF t.op \in Infix \cup Prefix /\ ~RightParens(t.op, last, rightAssoc)
      THEN Min({Level(t.op), RightLevel(last, rightAssoc)})
      ELSE Level(t.op)

LeftParens(op, l, rightAssoc) ==
  \/ RightLevel(l, rightAssoc) < Level(op)
  \/ PowerIn(op, l) /\ rightAssoc
  \/ op = "access" /\ l.op = "builder"

Tok(kind)   == [kind |-> kind, parts |-> <<>>, value |-> 0]
Ident(parts) == [kind |-> "identifier", parts |-> parts, value |-> 0]
Num(v)      == [kind |-> "number", parts |-> <<>>, value |-> v]

Parens(wanted, tokens) ==
  IF wanted THEN <<Tok("(")>> \o tokens \o <<Tok(")")>> ELSE tokens

RECURSIVE Render(_, _)
Render(t, rightAssoc) ==
  LET left  == Parens(LeftParens(t.op, Head(t.kids), rightAssoc), Render(Head(t.kids), rightAssoc))
      right == Parens(RightParens(t.op, Last(t.kids), rightAssoc), Render(Last(t.kids), rightAssoc))
      bare(i) == Render(t.kids[i], rightAssoc)
  IN  CASE t.op = "source"     -> <<Ident(<<t.name>>)>>
        [] t.op = "number"     -> IF t.value < 0 THEN <<Tok("-"), Num(-t.value)>> ELSE <<Num(t.value)>>
        [] t.op = "neg"        -> <<Tok("-")>> \o right
        [] t.op = "!"          -> <<Tok("!")>> \o right
        [] t.op \in Infix      -> left \o <<Tok(t.op)>> \o right
        [] t.op \in Functions1 -> <<Ident(<<t.op>>), Tok("(")>> \o bare(1) \o <<Tok(")")>>
        [] t.op \in Functions2 -> <<Ident(<<t.op>>), Tok("(")>> \o bare(1) \o <<Tok(",")>>
                                    \o bare(2) \o <<Tok(")")>>
        [] t.op = "subscript"  -> left \o <<Tok("[")>> \o bare(2) \o <<Tok("]")>>
        [] t.op = "access"     -> left \o <<Ident(<<"", t.name>>)>>
        [] t.op = "builder"    -> <<Tok("{"), Ident(<<t.name>>), Tok(":")>> \o bare(1) \o <<Tok("}")>>

\* Comparisons that are operands of a comparison without parentheses.
RECURSIVE Chains(_, _)
Chains(t, rightAssoc) ==
  LET compares(k) == k.op \in {"==", "<"}
  IN  \/ \E i \in DOMAIN t.kids : Chains(t.kids[i], rightAssoc)
      \/ /\ compares(t)
         /\ \/ compares(t.kids[1]) /\ ~LeftParens(t.op, t.kids[1], rightAssoc)
            \/ compares(t.kids[2]) /\ ~RightParens(t.op, t.kids[2], rightAssoc)

RECURSIVE Subtrees(_)
Subtrees(t) == {t} \cup UNION {Subtrees(t.kids[i]) : i \in DOMAIN t.kids}
=============================================================================
