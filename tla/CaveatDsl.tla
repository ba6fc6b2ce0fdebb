----------------------------- MODULE CaveatDsl -----------------------------
(***************************************************************************)
(* The boolean layer of the caveat language                                *)
(* (crates/capnagent-core/src/caveat_dsl.rs): the recursive descent of     *)
(* Parser over OR, AND and parentheses, and the short-circuiting eval_expr.*)
(* A comparison is one token that names its outcome; the keywords, too, are*)
(* tokens, set apart by blanks except before a closing parenthesis.  The   *)
(* input is any sequence of tokens, growing at its end.                    *)
(*                                                                         *)
(* Of an expression nothing is kept but what eval_expr makes of it: the    *)
(* program looks at an expression in no other way, and eval_expr looks at  *)
(* a part of one only for that part's own value.                           *)
(***************************************************************************)
EXTENDS SequencesExt

CONSTANT MaxLength  \* bound on the tokens of a predicate

ASSUME MaxLengthAssumption == MaxLength \in Nat

VARIABLE input

\* Comparisons that are true, false, and an evaluation error, and one that is
\* true and ends with a timestamp.
Comparisons == {"true", "false", "error", "now"}
Tokens == Comparisons \cup {"OR", "AND", "(", ")"}

Outcomes == {"true", "false", "error"}
Outcome(comparison) == IF comparison = "now" THEN "true" ELSE comparison

\* The left operand decides: a true one of OR, a false one of AND, and an error.
Decides(keyword, value) ==
    IF keyword = "OR" THEN value # "false" ELSE value # "true"

\* eval_expr of Or and And
Evaluated(keyword, left, right) == IF Decides(keyword, left) THEN left ELSE right

-----------------------------------------------------------------------------
\* Parser.  A parse function returns the expression and the position after it.
Failed == [ok |-> FALSE]
Parsed(value, pos) == [ok |-> TRUE, value |-> value, pos |-> pos]

\* peek(), "" at the end
Peek(s, pos) == IF pos \in DOMAIN s THEN s[pos] ELSE ""

\* parse_comparison.  parse_timestamp reads on to a blank or the end, so a
\* parenthesis right after a timestamp spoils it.
ParseComparison(s, pos) ==
    IF Peek(s, pos) \notin Comparisons THEN Failed
    ELSE IF Peek(s, pos) = "now" /\ Peek(s, pos + 1) = ")" THEN Failed
    ELSE Parsed(Outcome(s[pos]), pos + 1)

\* The parse functions for OR, for AND and for a unary expression, each at the
\* left operand it holds and at a position.  f has the result of every call.
ParserCalls(s) ==
    {"OR", "AND", "unary"} \X (Outcomes \cup {"none"}) \X (1..(Len(s) + 1))

\* Mutant: the operands of AND are whole disjunctions.
Operand_Swapped(f, keyword, pos) ==
    f[<<IF keyword = "AND" THEN "OR" ELSE "unary", "none", pos>>]

\* An operand of OR is a conjunction, an operand of AND a unary expression.
Operand(f, keyword, pos) ==
    f[<<IF keyword = "OR" THEN "AND" ELSE "unary", "none", pos>>]

\* parse_or_expr and parse_and_expr: operands joined by the keyword, to the left.
ParseChain(f, keyword, pos) ==
    LET first == Operand(f, keyword, pos)
    IN IF first.ok THEN f[<<keyword, first.value, first.pos>>] ELSE Failed

\* Their loop, with the operands so far in left.
Continue(s, f, keyword, left, pos) ==
    IF Peek(s, pos) # keyword THEN Parsed(left, pos)
    ELSE LET right == Operand(f, keyword, pos + 1)
         IN IF right.ok
            THEN f[<<keyword, Evaluated(keyword, left, right.value), right.pos>>]
            ELSE Failed

\* parse_unary
ParseUnary(s, f, pos) ==
    IF Peek(s, pos) # "(" THEN ParseComparison(s, pos)
    ELSE LET inner == f[<<"OR", "none", pos + 1>>]
         IN IF inner.ok /\ Peek(s, inner.pos) = ")"
            THEN Parsed(inner.value, inner.pos + 1) ELSE Failed

ParserStep(s, f, keyword, left, pos) ==
    IF keyword = "unary" THEN ParseUnary(s, f, pos)
    ELSE IF left = "none" THEN ParseChain(f, keyword, pos)
    ELSE Continue(s, f, keyword, left, pos)

Parser(s) ==
    LET f[call \in ParserCalls(s)] == ParserStep(s, f, call[1], call[2], call[3])
    IN f

\* parse and evaluate: nothing may be left over.  evaluate_all denies everything
\* but "true".
Matches(s) ==
    LET result == Parser(s)[<<"OR", "none", 1>>]
    IN IF result.ok /\ result.pos = Len(s) + 1 THEN result.value ELSE "syntax"

-----------------------------------------------------------------------------
\* A longer predicate.
Extend(token) ==
    /\ Len(input) < MaxLength
    /\ input' = Append(input, token)

DslInit == input = <<>>
DslNext == \E token \in Tokens : Extend(token)
DslSpec == DslInit /\ [][DslNext]_input

-----------------------------------------------------------------------------
(* The meaning of the documented grammar, by splitting at the operators that *)
(* stand outside all parentheses.                                            *)

CountOf(s, token, k) == Cardinality({i \in 1..k : s[i] = token})

\* The parentheses that are open after k tokens.
Height(s, k) == CountOf(s, "(", k) - CountOf(s, ")", k)

\* Where a keyword stands outside the parentheses of the tokens i..j.
Outside(s, i, j, keyword) ==
    {k \in i..j : s[k] = keyword /\ Height(s, k - 1) = Height(s, i - 1)}

\* The first operand that settles the operation, the last one otherwise; every
\* operand must be well formed.  m has the meaning of every shorter part of s.
Join(s, m, i, j, keyword, neutral) ==
    LET k == Min(Outside(s, i, j, keyword))
        left == m[<<i, k - 1>>]
        right == m[<<k + 1, j>>]
    IN IF "syntax" \in {left, right} THEN "syntax"
       ELSE IF left = neutral THEN right ELSE left

MeaningStep(s, m, i, j) ==
    IF Outside(s, i, j, "OR") # {} THEN Join(s, m, i, j, "OR", "false")
    ELSE IF Outside(s, i, j, "AND") # {} THEN Join(s, m, i, j, "AND", "true")
    ELSE IF i = j /\ s[i] \in Comparisons THEN Outcome(s[i])
    ELSE IF i + 1 < j /\ s[i] = "(" /\ s[j] = ")" THEN m[<<i + 1, j - 1>>]
    ELSE "syntax"

\* The meaning of the tokens from one position to another.
Meanings(s) ==
    LET m[span \in (1..(Len(s) + 1)) \X (0..Len(s))] ==
            MeaningStep(s, m, span[1], span[2])
    IN m

Meaning(s) == Meanings(s)[<<1, Len(s)>>]

\* A parenthesis closes right after a timestamp.
Spoiled(s) == \E k \in 2..Len(s) : s[k - 1] = "now" /\ s[k] = ")"

\* The parser accepts exactly the documented grammar, but for predicates with a
\* spoiled timestamp, and what it builds has the documented meaning: AND binds
\* tighter than OR, parentheses group, the first operand that settles the value or
\* errs decides, and no token is left over.
FollowsGrammar ==
    Matches(input) = IF Spoiled(input) THEN "syntax" ELSE Meaning(input)
=============================================================================
