------------------------------ MODULE MCDayAhead ------------------------------
EXTENDS DayAhead

MW(a, n) == [asset |-> a, at |-> n[1], mw |-> n[2]]

\* Two posts that overlap in opposite order, and one above a capacity.
SomeRows == [p \in {"p1", "p2", "p3"} |->
  CASE p = "p1" -> <<MW("wind", <<1, 2>>), MW("sun", <<1, 1>>)>>
    [] p = "p2" -> <<MW("sun", <<1, 2>>), MW("wind", <<1, 0>>)>>
    [] p = "p3" -> <<MW("sun", <<2, 3>>)>>]

SomeCapacity == [a \in {"wind", "sun"} |-> IF a = "wind" THEN 4 ELSE 2]
SomeRamp == [a \in {"wind", "sun"} |-> IF a = "wind" THEN 2 ELSE 4]
SomeCurves == {<<4, 0>>}
SomeAsked == [q \in {"q1"} |-> <<"wind", "sun">>]
SomeHours == [q \in {"q1"} |-> 2]
SomeOutputs == {-1, 0, 4, 5}
=============================================================================
