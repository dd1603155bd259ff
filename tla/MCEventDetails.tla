---------------------------- MODULE MCEventDetails -----------------------------
(* Documents for TLC: all lists of two measurements of two streams, with   *)
(* one spoilt entry at most; lists of located stations in all directions;  *)
(* and a few lists of fits.                                                *)
EXTENDS EventDetails

CONSTANTS e1, n1, e2, e3, a, b, c

FourStreams == {e1, n1, e2, e3}
ThreeStations == {a, b, c}
TwoAtA == (e1 :> a) @@ (n1 :> a) @@ (e2 :> b) @@ (e3 :> c)

Good(s, f) == [waveform |-> TRUE, stream |-> s, form |-> f, latitude |-> "good",
               pathAndSiteCorrected |-> 7, frequency |-> 1]
Plain(ms) ==
    [basics |-> "good", mw |-> 40, stationCount |-> 2, latitude |-> "good",
     fits |-> <<[type |-> "FIT", form |-> "good", points |-> <<[x |-> 1, y |-> 5]>>]>>,
     measurements |-> ms,
     bearing |-> [s \in ThreeStations |-> 0],
     distance |-> [s \in ThreeStations |-> IF s = a THEN 20 ELSE 10]]

Variants ==
    UNION {{Good(s, f), [Good(s, f) EXCEPT !.waveform = FALSE],
            [Good(s, f) EXCEPT !.pathAndSiteCorrected = Absent],
            [Good(s, f) EXCEPT !.pathAndSiteCorrected = Wrong],
            [Good(s, f) EXCEPT !.waveform = FALSE, !.pathAndSiteCorrected = Wrong],
            [Good(s, f) EXCEPT !.latitude = "bad"],
            [Good(s, f) EXCEPT !.latitude = "wrong"],
            [Good(s, f) EXCEPT !.frequency = 2]} :
           s \in {e1, n1}, f \in {"station", "reference", "bare"}}
Lists == {<<>>} \union (Variants \X Variants)
            \union {<<Good(e1, "reference"), v, Good(e1, "station")>> : v \in Variants}

AllLocated == <<Good(e1, "station"), Good(e2, "station"), Good(e3, "station")>>
Curve(type, y) == [type |-> type, form |-> "good",
                   points |-> <<[x |-> 1, y |-> y], [x |-> 2, y |-> 3]>>]
Spoilt(f, form) == [f EXCEPT !.form = form]
FitLists ==
    {<<>>, <<Curve("UQ1", 8), Curve("FIT", 5), Curve("UQ1", 2), Curve("other", 1)>>,
     <<Curve("FIT", 5), Curve("FIT", 6), Curve("UQ2", 2)>>,
     <<Curve("UQ2", 9), Curve("UQ2", 1), Curve("UQ2", 0), Curve("absent", 0)>>}
    \union {<<Spoilt(Curve(t, 5), f), Spoilt(Curve("FIT", 6), g)>> :
            t \in {"FIT", "UQ1", "other"}, f, g \in {"good", "wrong", "absent"}}

SomeDocuments ==
    {Plain(l) : l \in Lists}
    \union {[Plain(AllLocated) EXCEPT !.bearing = f] :
            f \in [ThreeStations -> 0..Circle]}
    \union {[Plain(<<Good(e1, "station"), [Good(e2, "station") EXCEPT !.frequency = 2]>>)
                EXCEPT !.fits = f] : f \in FitLists}
    \union {[Plain(AllLocated) EXCEPT !.mw = v, !.stationCount = n, !.latitude = l,
                                      !.basics = g] :
            v \in {Absent, Wrong, -MaxMagnitude, -99, 0, 99, MaxMagnitude},
            n \in {Absent, Wrong, -2, 0, 3}, l \in {"good", "bad"},
            g \in {"good", "wrong", "absent"}}
=============================================================================
