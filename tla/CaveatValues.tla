---------------------------- MODULE CaveatValues ----------------------------
(***************************************************************************)
(* One comparison of the caveat language: resolve_ident, the conversion of *)
(* JSON arguments and literals, and apply_op (crates/capnagent-core/src/   *)
(* caveat_dsl.rs).  Numbers are decimal source text: a multiple n of a     *)
(* fraction 1/Grain, and whether the text has a point or an exponent; an   *)
(* f64 keeps Precision binary digits of it; from 2^Exponent on, infinite.  *)
(***************************************************************************)
EXTENDS CivilTime, SequencesExt

CONSTANTS Grain,      \* a power of two; the numbers written are multiples of 1/Grain
          Precision,  \* binary digits of an f64: 53
          Exponent,   \* from 1/Grain times 2^Exponent on, infinite: from 2^1024
          Units,      \* units of number literals
          NoUnit,
          Numerals,   \* numbers written in caveats and arguments, times Grain
          Dates,      \* timestamps written in caveats
          Contexts,   \* contexts of calls
          Idents,     \* dotted identifiers, as sequences of segments
          Literals    \* literals met by these identifiers

ASSUME NumbersAssumption == /\ Precision \in Nat \ {0} /\ Exponent \in Nat
                            /\ Numerals \subseteq Int /\ NoUnit \notin Units

VARIABLE asked  \* the comparison asked: its ident, context and literal

NotYet == [ident |-> <<>>]

Question(path, ctx, text) == [ident |-> path, context |-> ctx, literal |-> text]

Ops == {"==", "!=", "<", "<=", ">", ">=", "matches", "starts_with"}

\* Texts of literals and arguments.  JSON has null, arrays, ... as "other".
NumberText(n, point, unit) == [type |-> "number", n |-> n, point |-> point, unit |-> unit]
StringText(s) == [type |-> "string", s |-> s]
TimeText(t) == [type |-> "timestamp", t |-> t]

\* Without a point the number is an integer.
Texts(n) == {NumberText(n, TRUE, NoUnit)}
            \cup IF n % Grain = 0 THEN {NumberText(n, FALSE, NoUnit)} ELSE {}

-----------------------------------------------------------------------------
\* Numbers

TwoTo[k \in 0..Exponent] == IF k = 0 THEN 1 ELSE 2 * TwoTo[k - 1]

ASSUME GrainAssumption == \E k \in 0..(Exponent - Precision) : Grain = TwoTo[k]

Infinite == TwoTo[Exponent]

\* What fits into Precision digits when the last one stands for ulp.
Fits(m, ulp) == m \div ulp < TwoTo[Precision]

\* The least power of two that leaves a finite magnitude Precision digits.
Ulp(m) == TwoTo[CHOOSE k \in 0..Exponent :
                   Fits(m, TwoTo[k]) /\ \A j \in 0..(k - 1) : ~Fits(m, TwoTo[j])]

\* To the nearest multiple of ulp, half to even.
Nearest(m, ulp) ==
    LET q == m \div ulp
        r == m % ulp
        up == 2 * r > ulp \/ (2 * r = ulp /\ q % 2 = 1)
    IN (IF up THEN q + 1 ELSE q) * ulp

\* Magnitudes
RoundMagnitude(m) ==
    IF m >= Infinite \/ Nearest(m, Ulp(m)) >= Infinite THEN Infinite ELSE Nearest(m, Ulp(m))

\* str::parse::<f64>
ToF64(n) == IF n >= 0 THEN RoundMagnitude(n) ELSE -RoundMagnitude(-n)

NoValue == [type |-> "none"]

Number(text) == [type |-> "number", f |-> ToF64(text.n),
                 kind |-> IF text.point THEN "Float" ELSE "Integer",
                 unit |-> text.unit]

\* json_to_value: strings and finite numbers.
JsonToValue(j) ==
    IF j.type = "number" /\ Number(j).f \notin {Infinite, -Infinite} THEN Number(j)
    ELSE IF j.type = "string" THEN j
    ELSE NoValue

Timestamp(pair) == [type |-> "timestamp", pair |-> pair]

\* parse_value, parse_number: a long literal is infinite (debug builds assert it
\* is not); a timestamp may not parse.
ParseValue(text) ==
    CASE text.type = "number" -> Number(text)
      [] text.type = "string" -> text
      [] text.type = "timestamp" ->
           IF WellFormed(text.t) THEN Timestamp(ParseRfc3339(text.t)) ELSE NoValue

\* resolve_ident.  The arguments are a map from paths to what is not an object.
Resolve(path, ctx) ==
    IF path = <<"now">> THEN Timestamp(SystemTimeToUnix(ctx.now))
    ELSE IF path = <<"caller">> THEN StringText(ctx.caller)
    ELSE IF path = <<"tool">> THEN StringText(ctx.tool)
    ELSE IF path[1] = "arg" /\ Len(path) > 1 /\ Tail(path) \in DOMAIN ctx.args
    THEN JsonToValue(ctx.args[Tail(path)])
    ELSE IF path[1] = "env" /\ Len(path) = 2 /\ path[2] \in DOMAIN ctx.env
    THEN StringText(ctx.env[path[2]])
    ELSE NoValue

-----------------------------------------------------------------------------
\* Comparison

Truth(b) == IF b THEN "true" ELSE "false"

\* ordered_to_bool; an Ordering is -1, 0 or 1.
OrderedToBool(op, ord) ==
    CASE op = "==" -> Truth(ord = 0)
      [] op = "!=" -> Truth(ord # 0)
      [] op = "<" -> Truth(ord < 0)
      [] op = "<=" -> Truth(ord <= 0)
      [] op = ">" -> Truth(ord > 0)
      [] op = ">=" -> Truth(ord >= 0)
      [] OTHER -> "error"

Cmp(a, b) == IF a < b THEN -1 ELSE IF a > b THEN 1 ELSE 0
CmpPairs(a, b) == IF a[1] # b[1] THEN Cmp(a[1], b[1]) ELSE Cmp(a[2], b[2])

CompareStrings(op, a, b) ==
    CASE op = "==" -> Truth(a = b)
      [] op = "!=" -> Truth(a # b)
      [] op = "matches" -> Truth(\E k \in 0..Len(a) : IsPrefix(b, SubSeq(a, k + 1, Len(a))))
      [] op = "starts_with" -> Truth(IsPrefix(b, a))
      [] OTHER -> "error"

\* Mutant: before version 0.6 kinds did not matter.
Admits_AnyKind(a, b) == a.unit = b.unit

\* The units agree, and an integer literal meets no argument with a point.
Admits(a, b) == a.unit = b.unit /\ ~(b.kind = "Integer" /\ a.kind = "Float")

\* Mutant: values that cannot be compared are different.
TypeMismatch_Differs(op) == Truth(op = "!=")

TypeMismatch(op) == "error"

\* apply_op of the resolved fact and the literal
ApplyOp(op, a, b) ==
    IF a.type # b.type THEN TypeMismatch(op)
    ELSE CASE a.type = "string" -> CompareStrings(op, a.s, b.s)
           [] a.type = "number" ->
                IF Admits(a, b) THEN OrderedToBool(op, Cmp(a.f, b.f)) ELSE TypeMismatch(op)
           [] a.type = "timestamp" -> OrderedToBool(op, CmpPairs(a.pair, b.pair))

\* What matches() gives for `ident op literal`.
Compare(op) ==
    LET fact == Resolve(asked.ident, asked.context)
        value == ParseValue(asked.literal)
    IN IF NoValue \in {fact, value} THEN "error" ELSE ApplyOp(op, fact, value)

-----------------------------------------------------------------------------
\* Comparisons asked: of a number under an argument, of the time close to a
\* timestamp (or any time, when it is no date), and of anything with anything.
AtTime(ctx, now) == [ctx EXCEPT !.now = now]
WithArg(ctx, json) == [ctx EXCEPT !.args = [path \in {<<"k">>} |-> json]]

AskNumber ==
    \E m, n \in Numerals, ctx \in Contexts :
       \E arg \in Texts(m), text \in Texts(n) :
          asked' = Question(<<"arg", "k">>, WithArg(ctx, arg), text)

AskTime ==
    \E t \in Dates, ctx \in Contexts, delta \in -1..1 :
       LET now == IF IsDate(t.year, t.month, t.day) THEN Instant(t) + delta ELSE delta
       IN asked' = Question(<<"now">>, AtTime(ctx, now), TimeText(t))

AskAny ==
    \E path \in Idents, ctx \in Contexts, text \in Literals :
       asked' = Question(path, ctx, text)

ValuesInit == asked = NotYet
ValuesNext == asked = NotYet /\ (AskNumber \/ AskTime \/ AskAny)
ValuesSpec == ValuesInit /\ [][ValuesNext]_asked

-----------------------------------------------------------------------------
\* JSON has no units; the parser has read digits and a sign.
IsNumber(text) == /\ text.n \in Int /\ text.point \in BOOLEAN
                  /\ ~text.point => text.n % Grain = 0

IsContext(ctx) ==
    /\ ctx = [now |-> ctx.now, caller |-> ctx.caller, tool |-> ctx.tool,
              args |-> ctx.args, env |-> ctx.env]
    /\ ctx.now \in Int
    /\ \A path \in DOMAIN ctx.args :
         ctx.args[path].type = "number" =>
            IsNumber(ctx.args[path]) /\ ctx.args[path].unit = NoUnit

IsTimestamp(t) ==
    /\ t.year \in Int /\ t.nanos \in 0..(Nanos - 1) /\ t.sign \in {-1, 1}
    /\ {t.month, t.day, t.hour, t.minute, t.second, t.offsetHour, t.offsetMinute} \subseteq Nat

IsLiteral(text) ==
    \/ text.type = "number" /\ IsNumber(text)
    \/ text.type = "string"
    \/ text.type = "timestamp" /\ IsTimestamp(text.t)

Segments == {"now", "arg", "k"} \cup UNION {ToSet(path) : path \in Idents}

ASSUME TextsAssumption ==
    /\ Idents \subseteq Seq(Segments) \ {<<>>}
    /\ \A ctx \in Contexts : IsContext(ctx)
    /\ \A text \in Literals : IsLiteral(text)
    /\ \A t \in Dates : IsTimestamp(t)

-----------------------------------------------------------------------------
\* Properties

Exact(op, a, b) ==
    CASE op = "==" -> a = b
      [] op = "!=" -> a # b
      [] op = "<" -> a < b
      [] op = "<=" -> a <= b
      [] op = ">" -> a > b
      [] op = ">=" -> a >= b
      [] OTHER -> FALSE

Orderings == {"==", "!=", "<", "<=", ">", ">="}

AskedNumber == /\ asked # NotYet
               /\ asked.literal.type = "number"
               /\ asked.ident = <<"arg", "k">> /\ <<"k">> \in DOMAIN asked.context.args
               /\ asked.context.args[<<"k">>].type = "number"

\* A cap written as an integer of fewer than Precision digits is exact: no
\* argument, however it is written, is decided other than by the exact numbers
\* (apply_op's rule for integer literals; rounding alone would let 50.000...01 pass
\* under 50).
IntegerCapsAreExact ==
    AskedNumber =>
        LET arg == asked.context.args[<<"k">>].n
            cap == asked.literal.n
            bound == Grain * TwoTo[Precision]
        IN ~asked.literal.point /\ -bound < cap /\ cap < bound =>
              \A op \in Orderings :
                 Compare(op) # "error" => Compare(op) = Truth(Exact(op, arg, cap))

\* With any literal, rounding may make numbers equal and never swaps them: what
\* holds strictly holds exactly, and what holds exactly holds weakly.
RoundingOnlyCollapses ==
    AskedNumber =>
        LET arg == asked.context.args[<<"k">>].n
            cap == asked.literal.n
        IN \A pair \in {<<"<", "<=">>, <<">", ">=">>} :
              Compare(pair[1]) # "error" =>
                  /\ Compare(pair[1]) = "true" => Exact(pair[1], arg, cap)
                  /\ Exact(pair[2], arg, cap) => Compare(pair[2]) = "true"

\* The two together: a number decides a caveat as its exact value does, but for those
\* that f64 cannot tell apart, which are one number under any cap but an integer.
NumbersKeepTheirOrder == IntegerCapsAreExact /\ RoundingOnlyCollapses

\* A caveat on the time decides by the instant its timestamp names, in every zone,
\* across leap years, month ends and leap seconds and before 1970, and a timestamp
\* that names no instant decides nothing (parse_rfc3339, days_from_civil).
TimesCompareAsInstants ==
    asked # NotYet /\ asked.ident = <<"now">> /\ asked.literal.type = "timestamp" =>
        LET t == asked.literal.t
            sound == /\ IsDate(t.year, t.month, t.day)
                     /\ t.hour < HoursPerDay /\ t.minute < MinutesPerHour
                     /\ t.second <= SecondsPerMinute
                     /\ t.offsetHour < HoursPerDay /\ t.offsetMinute < MinutesPerHour
        IN \A op \in Orderings :
              Compare(op) = IF sound THEN Truth(Exact(op, asked.context.now, Instant(t)))
                            ELSE "error"

\* The facts of a context, with their types.
Facts(ctx) ==
    {<<<<"now">>, "timestamp">>, <<<<"caller">>, "string">>, <<<<"tool">>, "string">>}
    \cup {<<<<"arg">> \o path, ctx.args[path].type>> : path \in DOMAIN ctx.args}
    \cup {<<<<"env", key>>, "string">> : key \in DOMAIN ctx.env}

\* No comparison, not even `!=`, holds of a fact that is absent, of another type
\* than the literal, or without its unit (resolve_ident, apply_op).
OnlyLikeFactsAllow ==
    asked # NotYet =>
        \A op \in Ops :
           Compare(op) = "true" =>
              /\ <<asked.ident, asked.literal.type>> \in Facts(asked.context)
              /\ asked.literal.type = "number" => asked.literal.unit = NoUnit
=============================================================================
