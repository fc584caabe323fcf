------------------------------ MODULE MCSweep ------------------------------
(* Installations of two repos and one, and one still to come, pages of two *)
(* with entries the parsers skip; repo 2 has not opted in, repo 4 holds no *)
(* text.  Repo 1 may hold any of a table of cadences, each with one field, *)
(* or two, that is not `*`.                                                *)
EXTENDS Sweep, TLC

MCApps  == <<Odd, 1, 2>>
MCListed == (1 :> <<1, Odd, 2>>) @@ (2 :> <<3>>) @@ (3 :> <<4>>)

AnyField == {Star}
Hourly == <<{Point(0)}, AnyField, AnyField, AnyField, AnyField>>
Always == <<AnyField, AnyField, AnyField, AnyField, AnyField>>

\* Terms around the values v and w, v < w, of the instants below.
Terms(v, w) ==
    { {Point(v)}, {Point(v), Point(w)}, {Span(v, w)}, {Span(w, v)},
      {Span(v + 1, w)}, {Every(Span(v, w), 2)}, {Every(Star, 3)},
      {Every(Star, BadStep)}, {Every(Point(v), 5)}, {Unparsable},
      {Unparsable, Point(w)}, {Point(99)}, {Span(v, 99)} }

Fields == << Terms(0, 15), Terms(0, 6), Terms(1, 31), Terms(1, 12),
             Terms(0, 6) \cup { {Point(7)}, {Span(5, 7)}, {Every(Star, 7)},
                                {Every(Point(1), 2)}, {Every(Point(2), 2)} } >>

MCCadences ==
    UNION {{[Always EXCEPT ![k] = f] : f \in Fields[k]} : k \in 1 .. 5}
        \cup {[Hourly EXCEPT ![5] = f] : f \in Fields[5]}

MCCadencesOf == (1 :> MCCadences) @@ (2 :> {}) @@ (3 :> {Hourly, <<>>, <<{Star}>>})
                    @@ (4 :> {Always})

At(mi, h, d, mo, wd) ==
    [minute |-> mi, hour |-> h, day |-> d, month |-> mo, weekday |-> wd]

\* A Sunday, the day after, a Saturday, and a beat that starts a minute late.
MCInstants ==
    { At(0, 0, 31, 12, 6), At(15, 6, 1, 1, 0), At(45, 23, 7, 6, 5),
      At(31, 5, 2, 3, 2) }
=============================================================================
