------------------------------ MODULE MCCaveats ------------------------------
(***************************************************************************)
(* What a capability carries and what it means, one question in each       *)
(* behaviour: capabilities that are built and attenuated, one predicate of *)
(* the boolean layer, or one comparison.                                   *)
(* Quarters with three binary digits, infinite from 16 on: 7.25 and 7 are  *)
(* one f64, and so are 9 and 8.  Days of 2 hours of 2 minutes of 2 seconds;*)
(* leap years, common ones, centuries of both kinds, years before 1 and    *)
(* 1970; the ends of the months and the days and months next to them.      *)
(***************************************************************************)
EXTENDS CaveatDsl, CaveatValues, MCCapability

MCNumerals == -68..68

Years == {-1, 0, 4, 1600, 1900, 1969, 1970, 2000, 2023, 2024, 2100}

Date(y, m, d) ==
    [year |-> y, month |-> m, day |-> d, hour |-> 0, minute |-> 0, second |-> 0,
     nanos |-> 0, sign |-> 1, offsetHour |-> 0, offsetMinute |-> 0]

\* Every date at the start of its day, and some at other times in other zones.
MCDates ==
    {Date(y, m, d) : y \in Years, m \in 0..13, d \in {0, 1, 2, 28, 29, 30, 31, 32}}
    \cup {[Date(y, m, d) EXCEPT !.hour = h, !.minute = mi, !.second = s, !.nanos = f,
                                !.sign = sg, !.offsetHour = oh, !.offsetMinute = om] :
              y \in {1969, 1970, 2024}, m \in {2}, d \in {1, 29}, h \in 0..HoursPerDay,
              mi \in 0..MinutesPerHour, s \in 0..(SecondsPerMinute + 1),
              f \in 0..(Nanos - 1), sg \in {-1, 1},
              oh \in 0..HoursPerDay, om \in 0..MinutesPerHour}

MCIdents == {<<"now">>, <<"caller">>, <<"tool">>, <<"arg">>, <<"env">>, <<"other">>,
             <<"now", "k">>, <<"tool", "k">>, <<"arg", "k">>, <<"env", "k">>, <<"env", "l">>,
             <<"arg", "k", "l">>, <<"arg", "l", "k">>, <<"env", "k", "l">>}

ab == <<"a", "b">>

\* The arguments {"k": ...} and {"l": {"k": ...}}.
MCContexts ==
    {[now |-> 0, caller |-> <<"a">>, tool |-> ab,
      args |-> (<<"k">> :> json @@ <<"l", "k">> :> StringText(ab)),
      env |-> "k" :> ab] :
         json \in {NumberText(4, FALSE, NoUnit), StringText(ab), [type |-> "other"]}}

MCLiterals ==
    {StringText(s) : s \in {<<>>, <<"a">>, <<"b">>, ab}}
    \cup {NumberText(n, FALSE, u) : n \in {4, 8}, u \in Units \cup {NoUnit}}
    \cup {TimeText(Date(1970, 1, 1))}
-----------------------------------------------------------------------------
caveatVars == <<vars, input, asked>>

CaveatsInit == Init /\ DslInit /\ ValuesInit

Unasked == input = <<>> /\ asked = NotYet
Unbuilt == builder = NoBuilder /\ tokens = {}

Building == Unasked /\ Next /\ UNCHANGED <<input, asked>>
Parsing == Unbuilt /\ asked = NotYet /\ DslNext /\ UNCHANGED <<vars, asked>>
Comparing == Unbuilt /\ input = <<>> /\ ValuesNext /\ UNCHANGED <<vars, input>>

CaveatsNext == Building \/ Parsing \/ Comparing

CaveatsSpec == CaveatsInit /\ [][CaveatsNext]_caveatVars
=============================================================================
