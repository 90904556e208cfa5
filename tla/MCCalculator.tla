----------------------------- MODULE MCCalculator -----------------------------
(* Calculator on all expressions of up to three operators, written with    *)
(* the brackets they need, and of up to two with some they do not need;    *)
(* numbers are 1 on the left and 2 on the right of an operator.            *)
EXTENDS Calculator

\* With the brackets it needs.
Join(op, l, r) ==
  Binary(op, IF l.level < Level(op) THEN Bracketed(<<>>, l, <<>>) ELSE l,
             IF r.level <= Level(op) THEN Bracketed(<<>>, r, <<>>) ELSE r)
Both(L, R) == {Join(op, l, r) : op \in Operator, l \in L, r \in R}
Also(E) == E \cup {Bracketed(<<>>, e, <<>>) : e \in E}

One == {Literal(<<>>, "1", <<>>)}
Two == {Literal(<<>>, "2", <<>>)}
Single == Both(One, Two)
Double == Both(One, Single) \cup Both(Single, Two)
Triple == Both(One, Double) \cup Both(Double, Two) \cup Both(Single, Single)
Extra == Also(Both(Also(One), Also(Single)) \cup Both(Also(Single), Also(Two)))

\* The same with blanks around numbers, or behind brackets.
Spaced(e, S) ==
  [e EXCEPT !.text = FlattenSeq([i \in DOMAIN @ |->
     IF @[i] \notin S THEN <<@[i]>> ELSE IF @[i] \in Number THEN <<Blank, @[i], Blank>>
     ELSE <<@[i], Blank>>])]

Plain == One \cup Single \cup Double \cup Triple \cup Extra
MCExpressions ==
  Plain \cup {Spaced(e, Number) : e \in Double} \cup {Spaced(e, {")"}) : e \in Double}
=============================================================================
