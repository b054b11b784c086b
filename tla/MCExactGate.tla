----------------------------- MODULE MCExactGate -----------------------------
(* Four pools: one that two variants fit at a small size and the second at   *)
(* every size; one the second maths get right only by its other variant; one *)
(* that needs its rates read; and one only the rate reader can reproduce,    *)
(* which quotes nothing while it holds dust.                                 *)
EXTENDS ExactGate

CONSTANTS plain, reported, byRate, small, large, dust, funded

MCSize == {small, large}
MCOffered == << <<plain, reported>>, <<plain, reported>>, <<reported, plain>>, <<plain>> >>
MCUnread == << <<plain>>, <<plain>>, <<plain>>, <<plain>> >>

\* What agrees everywhere, and what only at the small size.
Everywhere == {<<1, reported, 1>>, <<1, reported, 2>>, <<2, plain, 1>>, <<2, reported, 2>>,
               <<3, reported, 1>>, <<3, reported, 2>>, <<4, byRate, 1>>, <<4, byRate, 2>>}
Small == {<<1, plain, 1>>, <<1, plain, 2>>}
MCAgrees == [x \in Pool \X {plain, reported, byRate} \X {1, 2} |->
                IF x \in Everywhere THEN MCSize ELSE IF x \in Small THEN {small} ELSE {}]

MCQuotes == [x \in Pool \X {dust, funded} |->
                IF x[2] = funded THEN MCSize ELSE IF x[1] = 1 THEN {small} ELSE {}]
=============================================================================
