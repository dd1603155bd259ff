------------------------------ MODULE EventDetails ------------------------------
(***************************************************************************)
(* What becomes of the JSON document of an event (the CCT software's       *)
(* results, column mw_data): src/unpackCCTJSON.hpp makes of it what the    *)
(* reviewer is shown, and, when the reviewer accepts, src/callback.cpp,    *)
(* src/aqms.hpp and src/aqmsPostgresClient.cpp make of it the columns of a *)
(* row of netmag.  Both walk through the list of measurements.             *)
(*                                                                         *)
(* A document is an abstract record.  A measurement belongs to a stream of *)
(* a station; the first to mention a stream describes it with its station, *)
(* later ones refer to it by its identifier.  Bearings are counted in      *)
(* parts of a circle, and a magnitude, a distance or a frequency is a      *)
(* number of some unit.                                                    *)
(***************************************************************************)
EXTENDS Integers, Sequences, FiniteSets, SequencesExt

CONSTANTS
    Streams, Stations,
    StationOf,      \* station of each stream
    Documents       \* documents that are tried

Absent == -1001     \* an entry that is not there
Wrong == -1002      \* an entry of the wrong type
Null == -1003       \* null in the database
Circle == 8         \* 360 degrees
MaxMagnitude == 100 \* 10.0

(* How a measurement gives its stream, and the station's coordinates.      *)
Measurement ==
    [waveform : BOOLEAN, stream : Streams,
     form : {"station", "reference", "bare"},
     latitude : {"good", "bad", "wrong", "absent"},
     pathAndSiteCorrected : Int, frequency : Nat]
Fit == [type : {"FIT", "UQ1", "UQ2", "other", "absent"},
        form : {"good", "wrong", "absent"},     \* of the list of its points
        points : Seq([x : Nat, y : Int])]
Document ==
    [basics : {"good", "wrong", "absent"},  \* origin time, location, depth
     mw : Int, stationCount : Int,
     latitude : {"good", "bad"},
     fits : Seq(Fit), measurements : Seq(Measurement),
     bearing : [Stations -> 0..Circle], distance : [Stations -> Nat]]

ASSUME StationAssumption == StationOf \in [Streams -> Stations]
ASSUME DocumentsAssumption == \A d \in Documents : d \in Document

VARIABLES
    doc,
    stage,
    i,              \* measurements looked at
    spectra,        \* number of the fit shown under each label, 0 for none
    stationMap,     \* identifierToStationMap: streams that were described
    measured,       \* identifierToMeasurementMap: the values of each stream
    shown,          \* stationMeasurements: streams shown, with their values
    details,        \* what the callback reads from the document
    locations,      \* stationLocations
    netmag          \* the row's columns

unpackVars == <<spectra, stationMap, measured, shown>>
acceptVars == <<details, locations, netmag>>
vars == <<doc, stage, i, unpackVars, acceptVars>>

Size == Len(doc.measurements)
Current == doc.measurements[i + 1]
Goto(s) == stage' = s

-----------------------------------------------------------------------------
(***************************************************************************)
(* unpackCCTJSON.                                                          *)
(***************************************************************************)
Labels == {"fit", "upper1", "lower1", "upper2", "lower2"}

(* Of two entries of a type of bound the first is the upper, the second    *)
(* the lower one; a label that is taken is not given again.                *)
Numbers(type) == {k \in 1..Len(doc.fits) : doc.fits[k].type = type}
Nth(S, n) == {k \in S : Cardinality({j \in S : j <= k}) = n}
Number(S) == IF S = {} THEN 0 ELSE CHOOSE k \in S : TRUE
SpectralFit ==
    [fit |-> Number(Nth(Numbers("FIT"), 1)),
     upper1 |-> Number(Nth(Numbers("UQ1"), 1)),
     lower1 |-> Number(Nth(Numbers("UQ1"), 2)),
     upper2 |-> Number(Nth(Numbers("UQ2"), 1)),
     lower2 |-> Number(Nth(Numbers("UQ2"), 2))]

(* An entry of the wrong type throws.  One that is not there is read by    *)
(* the operator[] of constants, which is undefined: an assertion ends the  *)
(* process, or what is found in its place throws or is taken for a value.  *)
Entries ==
    {doc.basics} \union
    {doc.fits[k].form : k \in UNION {Numbers(type) : type \in {"FIT", "UQ1", "UQ2"}}}
UnpackBasics ==
    /\ stage = "row"
    /\ \/ "wrong" \notin Entries /\ Goto("unpack") /\ spectra' = SpectralFit
       \/ Entries # {"good"} /\ Goto("thrown") /\ UNCHANGED spectra
       \/ "absent" \in Entries /\ Goto("aborted") /\ UNCHANGED spectra
    /\ UNCHANGED <<doc, i, stationMap, measured, shown, acceptVars>>

HasValue(m) == m.pathAndSiteCorrected # Absent
Throws(m) ==
    m.waveform /\ (m.form = "bare" \/ m.pathAndSiteCorrected = Wrong)

(* One measurement.  The mutant takes no value of a stream that has not    *)
(* been described before.                                                  *)
UnpackInOrder ==
    /\ stage = "unpack" /\ i < Size
    /\ IF Throws(Current)
       THEN Goto("thrown") /\ UNCHANGED <<i, stationMap, measured>>
       ELSE
        /\ i' = i + 1
        /\ IF Current.waveform /\ Current.form = "station"
           THEN stationMap' = stationMap \union {Current.stream}
           ELSE UNCHANGED stationMap
        /\ IF Current.waveform /\ HasValue(Current)
              /\ Current.stream \in stationMap'
           THEN measured' = [measured EXCEPT ![Current.stream] =
                                Append(@, i + 1)]
           ELSE UNCHANGED measured
        /\ UNCHANGED stage
    /\ UNCHANGED <<doc, spectra, shown, acceptVars>>
UnpackMeasurement ==
    /\ stage = "unpack" /\ i < Size
    /\ IF Throws(Current)
       THEN Goto("thrown") /\ UNCHANGED <<i, stationMap, measured>>
       ELSE
        /\ i' = i + 1
        /\ IF Current.waveform /\ Current.form = "station"
           THEN stationMap' = stationMap \union {Current.stream}
           ELSE UNCHANGED stationMap
        /\ IF Current.waveform /\ HasValue(Current)
           THEN measured' = [measured EXCEPT ![Current.stream] =
                                Append(@, i + 1)]
           ELSE UNCHANGED measured
        /\ UNCHANGED stage
    /\ UNCHANGED <<doc, spectra, shown, acceptVars>>

(* The points of the fits, each a number of a fit and one in its list, are *)
(* searched in order: the residual is taken from the first at the          *)
(* frequency.  The mutant searches the points of every curve.              *)
AllPoints ==
    UNION {{k} \X DOMAIN doc.fits[k].points : k \in DOMAIN doc.fits}
FitPoints ==
    UNION {{k} \X DOMAIN doc.fits[k].points : k \in Numbers("FIT")}
PointAt(p) == doc.fits[p[1]].points[p[2]]
NotAfter(p, q) == p[1] < q[1] \/ (p[1] = q[1] /\ p[2] <= q[2])
Residual(m) ==
    LET at == {p \in FitPoints : PointAt(p).x = m.frequency}
    IN  IF at = {} THEN Absent
        ELSE m.pathAndSiteCorrected
                - PointAt(CHOOSE p \in at : \A q \in at : NotAfter(p, q)).y

ShowStations ==
    /\ stage = "unpack" /\ i = Size
    /\ shown' = {[stream |-> s, station |-> StationOf[s],
                  values |-> {[nr |-> k, residual |-> Residual(doc.measurements[k])] :
                                k \in ToSet(measured[s])}] :
                 s \in {s \in stationMap : measured[s] # <<>>}}
    /\ Goto("shown")
    /\ i' = 0
    /\ UNCHANGED <<doc, spectra, stationMap, measured, acceptVars>>

-----------------------------------------------------------------------------
(***************************************************************************)
(* getMagnitudeDistanceAzimuthAndNumberOfStations, called for an event     *)
(* that was unpacked.  -1, and -10 for the magnitude, is not known.        *)
(***************************************************************************)
Unknown == -1
NoDetails == [magnitude |-> -MaxMagnitude, distance |-> Unknown, gap |-> Unknown,
              nStations |-> Unknown, nObservations |-> Unknown]

(* The mw is not there, or it is and with it the number of stations.       *)
ReadMagnitude ==
    /\ stage = "shown"
    /\ IF doc.mw = Absent \/ doc.mw = Wrong
       THEN Goto("read") /\ details' = NoDetails
       ELSE IF doc.stationCount = Wrong
       THEN Goto("read") /\ details' = [NoDetails EXCEPT !.magnitude = doc.mw]
       ELSE /\ Goto("count")
            /\ details' = [NoDetails EXCEPT
                    !.magnitude = doc.mw,
                    !.nStations = IF doc.stationCount = Absent THEN Unknown
                                  ELSE doc.stationCount,
                    !.nObservations = 0]
    /\ UNCHANGED <<doc, i, unpackVars, locations, netmag>>

(* One measurement; an exception leaves the number of observations, the    *)
(* distance and the gap unknown.  The mutant counts what has a station.    *)
CountLocated ==
    /\ stage = "count" /\ i < Size
    /\ LET m == Current
           described == m.waveform /\ m.form = "station"
       IN  IF described /\ m.latitude = "wrong"
           THEN /\ Goto("read")
                /\ details' = [details EXCEPT !.nObservations = Unknown]
                /\ UNCHANGED <<i, locations>>
           ELSE /\ i' = i + 1
                /\ details' = [details EXCEPT !.nObservations =
                        IF HasValue(m) /\ described THEN @ + 1 ELSE @]
                /\ locations' = locations \union
                        IF described /\ m.latitude = "good"
                        THEN {StationOf[m.stream]} ELSE {}
                /\ UNCHANGED stage
    /\ UNCHANGED <<doc, unpackVars, netmag>>
CountMeasurement ==
    /\ stage = "count" /\ i < Size
    /\ LET m == Current
           described == m.waveform /\ m.form = "station"
       IN  IF described /\ m.latitude = "wrong"
           THEN /\ Goto("read")
                /\ details' = [details EXCEPT !.nObservations = Unknown]
                /\ UNCHANGED <<i, locations>>
           ELSE /\ i' = i + 1
                /\ details' = [details EXCEPT !.nObservations =
                        IF m.pathAndSiteCorrected \notin {Absent, Wrong}
                        THEN @ + 1 ELSE @]
                /\ locations' = locations \union
                        IF described /\ m.latitude = "good"
                        THEN {StationOf[m.stream]} ELSE {}
                /\ UNCHANGED stage
    /\ UNCHANGED <<doc, unpackVars, netmag>>

(* computeDistanceAndAzimuth: the back azimuths are sorted, the first is   *)
(* put behind the last, and the widest step taken.  The mutant does not    *)
(* close the circle.                                                       *)
ByBackAzimuth ==
    CHOOSE f \in Bijection(1..Cardinality(locations), locations) :
        \A j, k \in DOMAIN f : j < k => doc.bearing[f[j]] <= doc.bearing[f[k]]
BackAzimuths ==
    LET order == ByBackAzimuth
    IN  [k \in 1..Cardinality(locations) |-> doc.bearing[order[k]]]
Steps(seq) == {seq[k + 1] - seq[k] : k \in 1..(Len(seq) - 1)}
Largest(S) == CHOOSE x \in S : \A y \in S : y <= x

OpenGap(seq) ==
    IF Len(seq) = 1 THEN Circle ELSE Largest(Steps(seq))
Gap(seq) ==
    IF Len(seq) = 1 THEN Circle
    ELSE Largest(Steps(Append(seq, seq[1] + Circle)))

Nearest ==
    CHOOSE d \in {doc.distance[s] : s \in locations} :
        \A s \in locations : d <= doc.distance[s]

ComputeDistanceAndAzimuth ==
    /\ stage = "count" /\ i = Size
    /\ Goto("read")
    /\ IF doc.latitude = "bad" \/ locations = {}
       THEN UNCHANGED details
       ELSE details' = [details EXCEPT !.distance = Nearest,
                                       !.gap = Gap(BackAzimuths)]
    /\ UNCHANGED <<doc, i, unpackVars, locations, netmag>>

-----------------------------------------------------------------------------
(***************************************************************************)
(* NetMag and the columns of its row.                                      *)
(***************************************************************************)
NoColumns == [magnitude |-> Null, nsta |-> Null, nobs |-> Null, gap |-> Null,
              distance |-> Null]

(* The setters throw what is out of range; what is not known is not set,   *)
(* and what is not set is null.  The mutant sets any distance.             *)
SetIf(v, condition) == IF condition THEN v ELSE Null

ColumnsUnguarded(d) ==
    [magnitude |-> d.magnitude,
     nsta |-> SetIf(d.nStations, d.nStations >= 0),
     nobs |-> SetIf(d.nObservations, d.nObservations >= 0),
     gap |-> SetIf(d.gap, d.gap >= 0 /\ d.gap < Circle),
     distance |-> d.distance]

Columns(d) ==
    [magnitude |-> d.magnitude,
     nsta |-> SetIf(d.nStations, d.nStations >= 0),
     nobs |-> SetIf(d.nObservations, d.nObservations >= 0),
     gap |-> SetIf(d.gap, d.gap >= 0 /\ d.gap < Circle),
     distance |-> SetIf(d.distance, d.distance >= 0)]

MakeNetMag ==
    /\ stage = "read"
    /\ IF details.magnitude > -MaxMagnitude /\ details.magnitude < MaxMagnitude
       THEN Goto("stored") /\ netmag' = Columns(details)
       ELSE Goto("refused") /\ UNCHANGED netmag
    /\ UNCHANGED <<doc, i, unpackVars, details, locations>>

Init ==
    /\ doc \in Documents
    /\ stage = "row" /\ i = 0
    /\ spectra = [l \in Labels |-> 0]
    /\ stationMap = {} /\ measured = [s \in Streams |-> <<>>] /\ shown = {}
    /\ details = NoDetails /\ locations = {} /\ netmag = NoColumns

Next ==
    \/ UnpackBasics \/ UnpackMeasurement \/ ShowStations
    \/ ReadMagnitude \/ CountMeasurement \/ ComputeDistanceAndAzimuth
    \/ MakeNetMag

Spec == Init /\ [][Next]_vars

-----------------------------------------------------------------------------
(***************************************************************************)
(* Properties.                                                             *)
(***************************************************************************)
Counted ==
    {k \in 1..Size : doc.measurements[k].pathAndSiteCorrected
                        \notin {Absent, Wrong}}
Described ==
    {doc.measurements[k].stream :
        k \in {k \in 1..Size : doc.measurements[k].waveform
                               /\ doc.measurements[k].form = "station"}}
Showable ==
    {k \in Counted : doc.measurements[k].waveform
                     /\ doc.measurements[k].stream \in Described}

(* The reviewer is shown every value whose stream is described anywhere in *)
(* the document, before or after it, once and at its own station; of the   *)
(* others none.                                                            *)
EveryValueShown ==
    stage \notin {"row", "unpack", "thrown", "aborted"} =>
        /\ UNION {{v.nr : v \in e.values} : e \in shown} = Showable
        /\ \A e \in shown : \A v \in e.values :
            /\ doc.measurements[v.nr].stream = e.stream
            /\ e.station = StationOf[e.stream]

(* A residual is the distance from the fit that is shown, if there is one  *)
(* fit; the five curves are five different entries of the document.        *)
ResidualsAreOfTheFit ==
    stage = "shown" =>
        /\ \A l, k \in Labels : l # k /\ spectra[l] # 0 => spectra[l] # spectra[k]
        /\ \A e \in shown : \A v \in e.values :
            v.residual # Absent /\ Cardinality(Numbers("FIT")) = 1 =>
                \E p \in ToSet(doc.fits[spectra["fit"]].points) :
                    /\ p.x = doc.measurements[v.nr].frequency
                    /\ v.residual =
                        doc.measurements[v.nr].pathAndSiteCorrected - p.y

(* What the document gives: the stations it locates, whether an entry of   *)
(* the wrong type interrupts the reading, and whether distances are known. *)
StationEntries ==
    {k \in 1..Size : doc.measurements[k].waveform
                     /\ doc.measurements[k].form = "station"}
Located ==
    {StationOf[doc.measurements[k].stream] :
        k \in {k \in StationEntries : doc.measurements[k].latitude = "good"}}
Interrupted ==
    \/ doc.stationCount = Wrong
    \/ \E k \in StationEntries : doc.measurements[k].latitude = "wrong"
HaveDistances == ~Interrupted /\ doc.latitude = "good" /\ Located # {}

(* Arcs that begin at a station and have none inside.                      *)
EmptyArcs(S) ==
    {arc \in S \X (1..Circle) :
        \A r \in S : \A x \in 1..(arc[2] - 1) :
            (doc.bearing[arc[1]] + x) % Circle # doc.bearing[r] % Circle}
AzimuthalGap(S) == Largest({e[2] : e \in EmptyArcs(S)})

(* Each column of an accepted magnitude is what the document gives, or     *)
(* null where the document does not give it or its reading was             *)
(* interrupted, and never a number that stands for "not known": the        *)
(* distance is that of the nearest station it locates; the gap is that of  *)
(* the widest arc without a station, whatever the order of the stations,   *)
(* and null where they are all in one direction.                           *)
ColumnsAreRight ==
    stage = "stored" =>
        /\ netmag.magnitude = doc.mw
        /\ doc.mw > -MaxMagnitude /\ doc.mw < MaxMagnitude
        /\ netmag.nsta = IF doc.stationCount >= 0 THEN doc.stationCount ELSE Null
        /\ netmag.nobs = Null <=> Interrupted
        /\ netmag.gap =
            IF ~HaveDistances \/ AzimuthalGap(Located) = Circle
            THEN Null ELSE AzimuthalGap(Located)
        /\ IF HaveDistances
           THEN /\ netmag.distance \in {doc.distance[s] : s \in Located}
                /\ \A s \in Located : netmag.distance <= doc.distance[s]
           ELSE netmag.distance = Null

(* The number of observations stored is that of the values in the          *)
(* document; it is what the reviewer has seen, unless a value has no       *)
(* waveform or its stream is described nowhere.                            *)
StoredIsShown ==
    stage = "stored" /\ netmag.nobs # Null =>
        /\ netmag.nobs = Cardinality(Counted)
        /\ Showable = Counted =>
            netmag.nobs = Cardinality(UNION {e.values : e \in shown})
=============================================================================
