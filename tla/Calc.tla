-------------------------------- MODULE Calc --------------------------------
(***************************************************************************)
(* The calculator extension (crates/dd-ext/src/builtins/calc.rs): a        *)
(* recursive descent over the expression, with a limit on its depth, since *)
(* it runs inside the host and a stack that overflows ends the host.  The  *)
(* model parses to a tree; the arithmetic on the leaves is left to f64.    *)
(***************************************************************************)
EXTENDS Integers, Sequences, SequencesExt

CONSTANTS
    Token,          \* what may be typed: n is any number or constant, / also %
    MaxDepth,       \* MAX_RECURSION_DEPTH
    Longest         \* bound: tokens in an expression

VARIABLES
    input,          \* the expression, without "calc" and "=" in front
    answer          \* what the last invoke answered

calcVars == <<input, answer>>

TypeOK ==
    /\ input \in BoundedSeq(Token, Longest)
    /\ answer \in {"none", "empty", "error", "value"}

Init == input = <<>> /\ answer = "none"

-----------------------------------------------------------------------------
\* A call of the parser: its rule, where the next token is, the levels that
\* count, and the calls of parse_unary it is in, counted or not.
Call == [rule : {"expr", "term", "unary"}, pos : Nat, depth : Nat, calls : Nat]
Parser == [rule |-> "expr", pos |-> 1, depth |-> 0, calls |-> 0]

\* What a parse returns: a tree or a reason, where it stopped, and the most
\* calls it was in.
Done(tree, p) == [ok |-> TRUE, tree |-> tree, pos |-> p.pos, deep |-> p.calls]
Fail(p) == [ok |-> FALSE, tree |-> <<"error">>, pos |-> p.pos, deep |-> p.calls]
TooDeep(p) == [ok |-> FALSE, tree |-> <<"domain">>, pos |-> p.pos, deep |-> p.calls]

Larger(m, n) == IF m >= n THEN m ELSE n

\* peek and bump; "." when the input is at its end.
Peek(in_, pos) == IF pos <= Len(in_) THEN in_[pos] ELSE "."

\* A turn of the loop of parse_expr and of parse_term: an operator and what
\* stands behind it.  parse makes the calls, see Parse.
Turn(s, p, parse, rule, ops, l) ==
    IF ~l.ok \/ Peek(s, l.pos) \notin ops THEN l
    ELSE LET r == parse[[p EXCEPT !.rule = rule, !.pos = l.pos + 1]]
         IN [r EXCEPT !.tree = IF r.ok THEN <<s[l.pos], l.tree, @>> ELSE @,
                      !.deep = Larger(@, l.deep)]

\* The loop: no more turns than there are tokens.
Operands(s, p, parse, rule, ops) ==
    LET turn[k \in 0..Len(s)] == IF k = 0 THEN parse[[p EXCEPT !.rule = rule]]
                                 ELSE Turn(s, p, parse, rule, ops, turn[k - 1])
    IN turn[Len(s)]

\* parse_expr and parse_term.
Expr(s, p, parse) == Operands(s, p, parse, "term", {"+", "-"})
Term(s, p, parse) == Operands(s, p, parse, "unary", {"*", "/"})

\* parse_atom; enter() counts a level.
Atom(s, p, parse) ==
    CASE Peek(s, p.pos) = "(" ->
           IF p.depth + 1 > MaxDepth THEN TooDeep(p)
           ELSE LET r == parse[[p EXCEPT !.rule = "expr", !.pos = @ + 1, !.depth = @ + 1]]
                IN IF ~r.ok THEN r
                   ELSE IF Peek(s, r.pos) # ")" THEN [r EXCEPT !.ok = FALSE, !.tree = <<"error">>]
                   ELSE [r EXCEPT !.pos = @ + 1]
      [] Peek(s, p.pos) = "n" -> Done(<<"n">>, [p EXCEPT !.pos = @ + 1])
      [] OTHER -> Fail(p)

\* A mutant: the exponent is an atom, without a sign of its own.
PowerOfAtom(s, p, parse) ==
    LET b == Atom(s, p, parse) IN
    IF ~b.ok \/ Peek(s, b.pos) # "^" THEN b
    ELSE LET e == Atom(s, [p EXCEPT !.pos = b.pos + 1], parse)
         IN [e EXCEPT !.tree = IF e.ok THEN <<"^", b.tree, @>> ELSE @]

\* parse_power: the exponent is a call of parse_unary that nothing counts.
Power(s, p, parse) ==
    LET b == Atom(s, p, parse) IN
    IF ~b.ok \/ Peek(s, b.pos) # "^" THEN b
    ELSE LET e == parse[[p EXCEPT !.rule = "unary", !.pos = b.pos + 1]]
         IN [e EXCEPT !.tree = IF e.ok THEN <<"^", b.tree, @>> ELSE @, !.deep = Larger(@, b.deep)]

\* parse_unary; a sign counts a level.
Unary(s, from, parse) ==
    LET p == [from EXCEPT !.calls = @ + 1] IN
    IF Peek(s, p.pos) \notin {"+", "-"} THEN Power(s, p, parse)
    ELSE IF p.depth + 1 > MaxDepth THEN TooDeep(p)
    ELSE LET r == parse[[p EXCEPT !.pos = @ + 1, !.depth = @ + 1]]
         IN IF r.ok /\ s[p.pos] = "-" THEN [r EXCEPT !.tree = <<"neg", @>>] ELSE r

\* What each call of the parser for an expression returns.
Parse(s) ==
    LET parse[p \in Call] ==
          CASE p.rule = "expr" -> Expr(s, p, parse)
            [] p.rule = "term" -> Term(s, p, parse)
            [] p.rule = "unary" -> Unary(s, p, parse)
    IN parse

\* eval_expr: the whole input must be used up.
EvalExpr(s) ==
    LET r == Parse(s)[Parser] IN
    IF r.ok /\ r.pos <= Len(s) THEN [r EXCEPT !.ok = FALSE, !.tree = <<"error">>] ELSE r

-----------------------------------------------------------------------------
Type(t) ==
    /\ Len(input) < Longest
    /\ input' = Append(input, t)
    /\ UNCHANGED answer

\* handle_invoke: a value goes to the toast and to the clipboard.
Invoke ==
    /\ answer' = IF input = <<>> THEN "empty"
                 ELSE IF EvalExpr(input).ok THEN "value" ELSE "error"
    /\ UNCHANGED input

Next == (\E t \in Token : Type(t)) \/ Invoke

Spec == Init /\ [][Next]_calcVars

-----------------------------------------------------------------------------
(* A reference for the grammar, by where an expression is cut: at its last *)
(* + or - outside parentheses, else at its last * or /, else after a sign  *)
(* in front, else at its first ^.  A sign that follows an operand is an    *)
(* operator.                                                               *)
Level(s, i) == Cardinality({j \in 1..i - 1 : s[j] = "("})
               - Cardinality({j \in 1..i - 1 : s[j] = ")"})
Cuts(s, ops) == {i \in 2..Len(s) : s[i] \in ops /\ s[i - 1] \in {"n", ")"} /\ Level(s, i) = 0}
LastOf(S) == CHOOSE i \in S : \A j \in S : j <= i
FirstOf(S) == CHOOSE i \in S : \A j \in S : i <= j

Wrong == <<"error">>
Node(op, l, r) == IF Wrong \in {l, r} THEN Wrong ELSE <<op, l, r>>

Meaning[s \in Seq(Token)] ==
    LET left(i) == Meaning[SubSeq(s, 1, i - 1)]
        right(i) == Meaning[SubSeq(s, i + 1, Len(s))]
        sums == Cuts(s, {"+", "-"})
        products == Cuts(s, {"*", "/"})
        powers == Cuts(s, {"^"})
    IN CASE s = <<>> -> Wrong
         [] sums # {} -> Node(s[LastOf(sums)], left(LastOf(sums)), right(LastOf(sums)))
         [] sums = {} /\ products # {} ->
              Node(s[LastOf(products)], left(LastOf(products)), right(LastOf(products)))
         [] sums = {} /\ products = {} /\ s # <<>> /\ s[1] \in {"+", "-"} ->
              LET m == right(1)
              IN IF m = Wrong THEN Wrong ELSE IF s[1] = "-" THEN <<"neg", m>> ELSE m
         [] sums = {} /\ products = {} /\ s # <<>> /\ s[1] \notin {"+", "-"} /\ powers # {} ->
              Node("^", left(FirstOf(powers)), right(FirstOf(powers)))
         [] sums \cup products \cup powers = {} /\ s # <<>> /\ s[1] \notin {"+", "-"} ->
              IF s = <<"n">> THEN <<"n">>
              ELSE IF s[1] = "(" /\ s[Len(s)] = ")" THEN Meaning[SubSeq(s, 2, Len(s) - 1)]
              ELSE Wrong

(* An expression means what its operators say: precedence, the left to     *)
(* right of + and *, the right to left of ^, a sign looser than ^ and      *)
(* tighter than *; what has no meaning is refused.                         *)
MeansWhatItSays ==
    LET r == EvalExpr(input) IN
    r.tree # <<"domain">> => IF r.ok THEN r.tree = Meaning[input] ELSE Meaning[input] = Wrong

(* However long the expression is, the parser is in a bounded number of    *)
(* calls ("栈溢出是 abort（catch_unwind 拦不住），必须在递归展开前拒绝": it     *)
(* must be refused before the recursion unfolds).                          *)
StackIsBounded == EvalExpr(input).deep <= 2 * (MaxDepth + 1)
=============================================================================
