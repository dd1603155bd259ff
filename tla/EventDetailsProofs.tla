--------------------------- MODULE EventDetailsProofs ---------------------------
(***************************************************************************)
(* Proofs about EventDetails: whatever measurements a document has, in     *)
(* whatever order, and wherever its stations are, the reviewer is shown    *)
(* the values there are to show, each with its distance from the fit, and  *)
(* the columns of the row that an accept inserts are what the document     *)
(* says.                                                                   *)
(***************************************************************************)
EXTENDS EventDetails, FiniteSetTheorems, TLAPS

(* The measurements taken for a stream, and the streams described, among   *)
(* the first n.                                                            *)
Taken(s, n) ==
    {k \in 1..n : /\ doc.measurements[k].waveform
                  /\ HasValue(doc.measurements[k])
                  /\ doc.measurements[k].stream = s}
DescribedBy(s, n) ==
    \E k \in 1..n : /\ doc.measurements[k].waveform
                    /\ doc.measurements[k].form = "station"
                    /\ doc.measurements[k].stream = s

(* The two maps hold what the measurements so far say.                     *)
MapsInv ==
    stage \in {"row", "unpack"} =>
        /\ i \in 0..Size
        /\ stationMap \subseteq Streams
        /\ \A s \in Streams : s \in stationMap <=> DescribedBy(s, i)
        /\ measured \in [Streams -> Seq(Nat)]
        /\ \A s \in Streams : ToSet(measured[s]) = Taken(s, i)
        /\ \A k \in 1..i : ~Throws(doc.measurements[k])

DetailsInv ==
    /\ doc \in Document
    /\ stage = "row" => i = 0
    /\ MapsInv
    /\ EveryValueShown

-----------------------------------------------------------------------------
LEMMA DocumentFields ==
    ASSUME doc \in Document
    PROVE  /\ doc.measurements \in Seq(Measurement)
           /\ Size \in Nat
           /\ \A k \in 1..Size : doc.measurements[k] \in Measurement
<1>1. doc.measurements \in Seq(Measurement)
  BY DEF Document
<1> QED  BY <1>1 DEF Size

LEMMA AppendSet ==
    ASSUME NEW seq \in Seq(Nat), NEW n \in Nat
    PROVE  /\ ToSet(Append(seq, n)) = ToSet(seq) \union {n}
           /\ Append(seq, n) \in Seq(Nat)
           /\ seq # <<>> <=> ToSet(seq) # {}
<1>1. /\ Append(seq, n) \in Seq(Nat) /\ Len(Append(seq, n)) = Len(seq) + 1
      /\ Append(seq, n)[Len(seq) + 1] = n
      /\ \A k \in 1..Len(seq) : Append(seq, n)[k] = seq[k]
  OBVIOUS
<1>2. DOMAIN seq = 1..Len(seq) /\ DOMAIN Append(seq, n) = 1..(Len(seq) + 1)
  BY <1>1
<1>3. ToSet(Append(seq, n)) = ToSet(seq) \union {n}
  BY <1>1, <1>2 DEF ToSet
<1>4. seq # <<>> <=> ToSet(seq) # {}
  BY <1>2 DEF ToSet
<1> QED  BY <1>1, <1>3, <1>4

(* One more measurement.                                                   *)
LEMMA UnpackStep ==
    ASSUME DetailsInv, UnpackMeasurement
    PROVE  MapsInv'
<1>1. /\ stage = "unpack" /\ i < Size /\ doc' = doc
      /\ doc \in Document /\ MapsInv
  BY DEF DetailsInv, UnpackMeasurement
<1> DEFINE m == doc.measurements[i + 1]
<1>2. /\ i \in Nat /\ i + 1 \in 1..Size /\ m \in Measurement
      /\ measured \in [Streams -> Seq(Nat)] /\ Size' = Size
  BY <1>1, DocumentFields DEF MapsInv, Size
<1>3. CASE Throws(m)
  <2>1. stage' = "thrown"
    BY <1>3 DEF UnpackMeasurement, Current, Goto
  <2> QED  BY <2>1 DEF MapsInv
<1>4. CASE ~Throws(m)
  <2>1. /\ i' = i + 1 /\ stage' = stage
        /\ stationMap' = IF m.waveform /\ m.form = "station"
                         THEN stationMap \union {m.stream} ELSE stationMap
        /\ measured' = IF m.waveform /\ HasValue(m)
                       THEN [measured EXCEPT ![m.stream] = Append(@, i + 1)]
                       ELSE measured
    BY <1>4 DEF UnpackMeasurement, Current
  <2>2. m.stream \in Streams
    BY <1>2 DEF Measurement
  <2>3. 1..(i + 1) = (1..i) \union {i + 1} /\ i + 1 \notin 1..i
    BY <1>2
  <2>4. ASSUME NEW s \in Streams
        PROVE  /\ Taken(s, i + 1) = IF m.waveform /\ HasValue(m) /\ m.stream = s
                                    THEN Taken(s, i) \union {i + 1}
                                    ELSE Taken(s, i)
               /\ DescribedBy(s, i + 1) <=>
                    \/ DescribedBy(s, i)
                    \/ m.waveform /\ m.form = "station" /\ m.stream = s
    <3>1. Taken(s, i + 1) = IF m.waveform /\ HasValue(m) /\ m.stream = s
                            THEN Taken(s, i) \union {i + 1} ELSE Taken(s, i)
      BY <2>3 DEF Taken
    <3>2. DescribedBy(s, i + 1) <=>
             \/ DescribedBy(s, i)
             \/ m.waveform /\ m.form = "station" /\ m.stream = s
      BY <2>3 DEF DescribedBy
    <3> QED  BY <3>1, <3>2
  <2> HIDE DEF m
  <2>5. /\ stationMap' \subseteq Streams
        /\ \A s \in Streams : s \in stationMap' <=> DescribedBy(s, i + 1)
    BY <1>1, <2>1, <2>2, <2>4 DEF MapsInv
  <2>6. /\ measured' \in [Streams -> Seq(Nat)]
        /\ \A s \in Streams : ToSet(measured'[s]) = Taken(s, i + 1)
    <3>1. CASE m.waveform /\ HasValue(m)
      <4>1. measured' = [measured EXCEPT ![m.stream] =
                            Append(measured[m.stream], i + 1)]
        BY <2>1, <3>1
      <4>2. i + 1 \in Nat /\ measured[m.stream] \in Seq(Nat)
        BY <1>2, <2>2
      <4>3. /\ Append(measured[m.stream], i + 1) \in Seq(Nat)
            /\ ToSet(Append(measured[m.stream], i + 1))
                    = ToSet(measured[m.stream]) \union {i + 1}
        BY <4>2, AppendSet
      <4>4. measured' \in [Streams -> Seq(Nat)]
        BY <1>2, <4>1, <4>3
      <4>5. ASSUME NEW s \in Streams PROVE ToSet(measured'[s]) = Taken(s, i + 1)
        <5>1. ToSet(measured[s]) = Taken(s, i)
          BY <1>1 DEF MapsInv
        <5>2. CASE s = m.stream
          <6>1. measured'[s] = Append(measured[m.stream], i + 1)
            BY <1>2, <2>2, <4>1, <5>2
          <6> QED  BY <2>4, <3>1, <4>3, <5>1, <5>2, <6>1
        <5>3. CASE s # m.stream
          <6>1. measured'[s] = measured[s]
            BY <1>2, <4>1, <5>3
          <6> QED  BY <2>4, <5>1, <5>3, <6>1
        <5> QED  BY <5>2, <5>3
      <4> QED  BY <4>4, <4>5
    <3>2. CASE ~(m.waveform /\ HasValue(m))
      BY <1>1, <2>1, <2>4, <3>2 DEF MapsInv
    <3> QED  BY <3>1, <3>2
  <2>7. \A k \in 1..(i + 1) : ~Throws(doc.measurements[k])
    BY <1>1, <1>4, <2>3 DEF MapsInv, m
  <2>8. i + 1 \in 0..Size
    BY <1>2
  <2>9. \A s \in Streams : /\ Taken(s, i)' = Taken(s, i')
                           /\ DescribedBy(s, i)' <=> DescribedBy(s, i')
    BY <1>1 DEF Taken, DescribedBy
  <2> QED  BY <1>1, <1>2, <2>1, <2>5, <2>6, <2>7, <2>8, <2>9 DEF MapsInv
<1> QED  BY <1>3, <1>4

(* The map's values are shown, each with its number.                       *)
LEMMA ShownValues ==
    ASSUME DetailsInv, ShowStations
    PROVE  /\ \A e \in shown' :
                /\ e.stream \in stationMap /\ e.station = StationOf[e.stream]
                /\ \A v \in e.values : v.nr \in ToSet(measured[e.stream])
           /\ \A s \in stationMap : \A k \in ToSet(measured[s]) :
                \E e \in shown' : \E v \in e.values : v.nr = k
<1> DEFINE R(k) == [nr |-> k, residual |-> Residual(doc.measurements[k])]
           V(s) == {R(k) : k \in ToSet(measured[s])}
           E(s) == [stream |-> s, station |-> StationOf[s], values |-> V(s)]
<1>1. shown' = {E(s) : s \in {s \in stationMap : measured[s] # <<>>}}
  BY DEF ShowStations
<1>2. \A s : /\ E(s).stream = s /\ E(s).station = StationOf[s]
             /\ E(s).values = V(s)
  OBVIOUS
<1>3. \A s : /\ \A v \in V(s) : v.nr \in ToSet(measured[s])
             /\ \A k \in ToSet(measured[s]) : \E v \in V(s) : v.nr = k
  <2>1. \A k : R(k).nr = k
    OBVIOUS
  <2> HIDE DEF R
  <2> QED  BY <2>1
<1>4. \A s \in stationMap : \A k \in ToSet(measured[s]) : measured[s] # <<>>
  BY AppendSet DEF DetailsInv, MapsInv, ShowStations
<1> HIDE DEF E, V
<1>5. ASSUME NEW e \in shown'
      PROVE  /\ e.stream \in stationMap /\ e.station = StationOf[e.stream]
             /\ \A v \in e.values : v.nr \in ToSet(measured[e.stream])
  BY <1>1, <1>2, <1>3, <1>5
<1>6. ASSUME NEW s \in stationMap, NEW k \in ToSet(measured[s])
      PROVE  \E e \in shown' : \E v \in e.values : v.nr = k
  <2>1. E(s) \in shown'
    BY <1>1, <1>4
  <2>2. \E v \in E(s).values : v.nr = k
    BY <1>2, <1>3
  <2> QED  BY <2>1, <2>2
<1> QED  BY <1>5, <1>6

(* What was taken for the streams described is what is to be shown.        *)
LEMMA TakenIsShowable ==
    ASSUME DetailsInv, stage = "unpack", i = Size
    PROVE  /\ \A s \in stationMap : \A k \in ToSet(measured[s]) :
                k \in Showable /\ doc.measurements[k].stream = s
           /\ \A k \in Showable : \E s \in stationMap : k \in ToSet(measured[s])
<1>1. /\ MapsInv /\ doc \in Document
      /\ \A k \in 1..Size : doc.measurements[k] \in Measurement
  BY DocumentFields DEF DetailsInv
<1>2. \A k \in 1..Size : doc.measurements[k].stream \in Streams
  BY <1>1 DEF Measurement
<1>3. /\ stationMap \subseteq Streams
      /\ \A s \in Streams : s \in stationMap <=> s \in Described
      /\ \A s \in Streams : ToSet(measured[s]) = Taken(s, Size)
      /\ \A k \in 1..Size : ~Throws(doc.measurements[k])
  BY <1>1 DEF MapsInv, DescribedBy, Described
<1>4. \A k \in 1..Size :
        k \in Showable <=>
            /\ doc.measurements[k].waveform /\ HasValue(doc.measurements[k])
            /\ doc.measurements[k].stream \in Described
  BY <1>3 DEF Showable, Counted, HasValue, Throws
<1>5. ASSUME NEW s \in stationMap, NEW k \in ToSet(measured[s])
      PROVE  k \in Showable /\ doc.measurements[k].stream = s
  <2>1. k \in Taken(s, Size) /\ s \in Described
    BY <1>3
  <2> QED  BY <1>4, <2>1 DEF Taken
<1>6. ASSUME NEW k \in Showable
      PROVE  \E s \in stationMap : k \in ToSet(measured[s])
  <2>1. k \in 1..Size
    BY DEF Showable, Counted
  <2> DEFINE s == doc.measurements[k].stream
  <2>2. s \in Streams /\ s \in Described /\ k \in Taken(s, Size)
    BY <1>2, <1>4, <2>1 DEF Taken
  <2> QED  BY <1>3, <2>2
<1> QED  BY <1>5, <1>6

LEMMA ShowStep ==
    ASSUME DetailsInv, ShowStations
    PROVE  EveryValueShown'
<1>1. stage = "unpack" /\ i = Size /\ doc' = doc
  BY DEF ShowStations
<1>2. /\ \A s \in stationMap : \A k \in ToSet(measured[s]) :
                k \in Showable /\ doc.measurements[k].stream = s
      /\ \A k \in Showable : \E s \in stationMap : k \in ToSet(measured[s])
  BY <1>1, TakenIsShowable
<1>3. /\ \A e \in shown' :
                /\ e.stream \in stationMap /\ e.station = StationOf[e.stream]
                /\ \A v \in e.values : v.nr \in ToSet(measured[e.stream])
      /\ \A s \in stationMap : \A k \in ToSet(measured[s]) :
                \E e \in shown' : \E v \in e.values : v.nr = k
  BY ShownValues
<1>4. Showable' = Showable
  BY <1>1 DEF Showable, Counted, Described, Size
<1>5. \A e \in shown' : \A v \in e.values : v.nr \in Showable
  BY <1>2, <1>3
<1>6. \A k \in Showable : \E e \in shown' : \E v \in e.values : v.nr = k
  BY <1>2, <1>3
<1>7. UNION {{v.nr : v \in e.values} : e \in shown'} = Showable
  BY <1>5, <1>6
<1>8. \A e \in shown' : \A v \in e.values :
        /\ doc.measurements[v.nr].stream = e.stream
        /\ e.station = StationOf[e.stream]
  BY <1>2, <1>3
<1> QED  BY <1>1, <1>4, <1>7, <1>8 DEF EveryValueShown

LEMMA DetailsStep == DetailsInv /\ [Next]_vars => DetailsInv'
<1> SUFFICES ASSUME DetailsInv, [Next]_vars PROVE DetailsInv'
  OBVIOUS
<1>1. ASSUME UNCHANGED <<doc, shown>>, stage' \notin {"row", "unpack"},
             stage \notin {"row", "unpack", "thrown", "aborted"}
      PROVE  DetailsInv'
  <2>1. EveryValueShown'
    BY <1>1 DEF DetailsInv, EveryValueShown, Showable, Counted, Described, Size
  <2> QED  BY <1>1, <2>1 DEF DetailsInv, MapsInv
<1>2. CASE UnpackBasics
  <2>1. /\ stage = "row" /\ stage' \in {"unpack", "thrown", "aborted"} /\ doc' = doc
        /\ i' = i /\ stationMap' = stationMap /\ measured' = measured
    BY <1>2 DEF UnpackBasics, Goto
  <2>2. MapsInv'
    BY <2>1 DEF DetailsInv, MapsInv, Taken, DescribedBy, Size
  <2>3. EveryValueShown'
    BY <2>1 DEF EveryValueShown
  <2> QED  BY <2>1, <2>2, <2>3 DEF DetailsInv
<1>3. CASE UnpackMeasurement
  <2>1. stage' \in {"unpack", "thrown"} /\ doc' = doc
    BY <1>3 DEF UnpackMeasurement, Goto
  <2>2. MapsInv'
    BY <1>3, UnpackStep
  <2> QED  BY <2>1, <2>2 DEF DetailsInv, EveryValueShown
<1>4. CASE ShowStations
  <2>1. stage' = "shown" /\ doc' = doc
    BY <1>4 DEF ShowStations, Goto
  <2>2. EveryValueShown'
    BY <1>4, ShowStep
  <2> QED  BY <2>1, <2>2 DEF DetailsInv, MapsInv
<1>5. CASE ReadMagnitude
  BY <1>1, <1>5 DEF ReadMagnitude, Goto, unpackVars
<1>6. CASE CountMeasurement
  BY <1>1, <1>6 DEF CountMeasurement, Goto, unpackVars
<1>7. CASE ComputeDistanceAndAzimuth
  BY <1>1, <1>7 DEF ComputeDistanceAndAzimuth, Goto, unpackVars
<1>8. CASE MakeNetMag
  BY <1>1, <1>8 DEF MakeNetMag, Goto, unpackVars
<1>9. CASE UNCHANGED vars
  <2>1. MapsInv'
    BY <1>9 DEF vars, unpackVars, DetailsInv, MapsInv, Taken, DescribedBy, Size
  <2>2. EveryValueShown'
    BY <1>9 DEF vars, unpackVars, DetailsInv, EveryValueShown, Showable,
                Counted, Described, Size
  <2> QED  BY <1>9, <2>1, <2>2 DEF DetailsInv, vars
<1> QED  BY <1>2, <1>3, <1>4, <1>5, <1>6, <1>7, <1>8, <1>9 DEF Next

LEMMA DetailsInit == Init => DetailsInv
<1> SUFFICES ASSUME Init PROVE DetailsInv
  OBVIOUS
<1>1. doc \in Document
  BY DocumentsAssumption DEF Init
<1>2. Size \in Nat
  BY <1>1, DocumentFields
<1>3. \A s \in Streams : /\ measured[s] = <<>> /\ ToSet(measured[s]) = {}
                         /\ Taken(s, i) = {} /\ ~DescribedBy(s, i)
  <2>1. i = 0 /\ measured = [s \in Streams |-> <<>>]
    BY DEF Init
  <2>2. 1..0 = {} /\ DOMAIN <<>> = {}
    OBVIOUS
  <2>3. \A s \in Streams : measured[s] = <<>>
    BY <2>1
  <2>4. ToSet(<<>>) = {}
    BY <2>2 DEF ToSet
  <2> QED  BY <2>1, <2>2, <2>3, <2>4 DEF Taken, DescribedBy
<1>4. measured \in [Streams -> Seq(Nat)]
  BY DEF Init
<1>5. MapsInv
  <2>1. i = 0 /\ i \in 0..Size /\ \A k \in 1..i : ~Throws(doc.measurements[k])
    BY <1>2 DEF Init
  <2>2. stationMap \subseteq Streams /\ \A s \in Streams : s \notin stationMap
    BY DEF Init
  <2> QED  BY <1>3, <1>4, <2>1, <2>2 DEF MapsInv
<1>6. EveryValueShown
  BY DEF Init, EveryValueShown
<1> QED  BY <1>1, <1>5, <1>6 DEF DetailsInv, Init

(* Whatever a document lists, and in whatever order: each value whose      *)
(* stream is described anywhere in it is shown once, at its own station.   *)
THEOREM EveryValueShownHolds == Spec => []EveryValueShown
<1>1. DetailsInv => EveryValueShown
  BY DEF DetailsInv
<1> QED  BY DetailsInit, DetailsStep, <1>1, PTL DEF Spec

-----------------------------------------------------------------------------
(***************************************************************************)
(* Sets of numbers.                                                        *)
(***************************************************************************)
Less == {p \in Nat \X Nat : p[1] < p[2]}

LEMMA LeastElement ==
    ASSUME NEW S \in SUBSET Nat, S # {}
    PROVE  \E x \in S : \A y \in S : x <= y
<1>1. IsWellFoundedOn(Less, Nat)
  BY NatLessThanWellFounded DEF OpToRel, Less
<1>2. S \subseteq Nat
  OBVIOUS
<1>3. \E x \in S : \A y \in S : ~ (<<y, x>> \in Less)
  BY ONLY <1>1, <1>2, S # {}, WFMin
<1>4. \A x, y \in S : ~ (<<y, x>> \in Less) => x <= y
  BY DEF Less
<1> QED  BY <1>3, <1>4

LEMMA GreatestElement ==
    ASSUME NEW n \in Int, NEW S \in SUBSET Int, S # {}, \A x \in S : x <= n
    PROVE  \E x \in S : \A y \in S : y <= x
<1> DEFINE D == {n - x : x \in S}
<1>1. D \in SUBSET Nat /\ D # {}
  <2>1. \A x \in S : n - x \in Nat
    OBVIOUS
  <2> QED  BY <2>1
<1>2. PICK d \in D : \A y \in D : d <= y
  BY ONLY <1>1, LeastElement
<1>3. PICK x \in S : d = n - x
  BY <1>2
<1>4. ASSUME NEW y \in S PROVE y <= x
  <2>1. n - y \in D
    OBVIOUS
  <2>2. n - x <= n - y /\ x \in Int /\ y \in Int
    BY <1>2, <1>3, <2>1
  <2> QED  BY <2>2
<1> QED  BY <1>4

LEMMA LargestIsGreatest ==
    ASSUME NEW n \in Int, NEW S \in SUBSET Int, S # {}, \A x \in S : x <= n
    PROVE  Largest(S) \in S /\ \A y \in S : y <= Largest(S)
BY GreatestElement DEF Largest

LEMMA LargestIs ==
    ASSUME NEW S \in SUBSET Int, NEW x \in S, \A y \in S : y <= x
    PROVE  Largest(S) = x
<1>1. \E z \in S : \A y \in S : y <= z
  OBVIOUS
<1>2. Largest(S) \in S /\ \A y \in S : y <= Largest(S)
  BY <1>1 DEF Largest
<1>3. x \in Int /\ Largest(S) \in Int /\ x <= Largest(S) /\ Largest(S) <= x
  BY <1>2
<1> QED  BY <1>3

-----------------------------------------------------------------------------
(***************************************************************************)
(* The curves and the residuals.                                           *)
(***************************************************************************)

(* The first of some points of the fits.                                   *)
LEMMA FirstPoint ==
    ASSUME doc \in Document, NEW at \in SUBSET FitPoints, at # {}
    PROVE  \E p \in at : \A q \in at : NotAfter(p, q)
<1>1. \A p \in at : p \in Nat \X Nat
  <2>1. doc.fits \in Seq(Fit)
    BY DEF Document
  <2>2. ASSUME NEW k \in 1..Len(doc.fits)
        PROVE  doc.fits[k].points \in Seq([x : Nat, y : Int])
    <3>1. doc.fits[k] \in Fit
      BY <2>1
    <3> QED  BY <3>1 DEF Fit
  <2>3. \A k \in 1..Len(doc.fits) : DOMAIN doc.fits[k].points \subseteq Nat
    BY <2>2
  <2>4. \A k \in Numbers("FIT") : k \in 1..Len(doc.fits) /\ k \in Nat
    BY DEF Numbers
  <2> QED  BY <2>3, <2>4 DEF FitPoints
<1> DEFINE A == {p[1] : p \in at}
<1>2. A \in SUBSET Nat /\ A # {}
  BY <1>1
<1>3. PICK k \in A : \A j \in A : k <= j
  BY ONLY <1>2, LeastElement
<1> DEFINE B == {p[2] : p \in {p \in at : p[1] = k}}
<1>4. B \in SUBSET Nat /\ B # {}
  BY <1>1, <1>3
<1>5. PICK m \in B : \A j \in B : m <= j
  BY ONLY <1>4, LeastElement
<1>6. PICK p \in at : p[1] = k /\ p[2] = m
  BY <1>5
<1>7. \A q \in at : NotAfter(p, q)
  BY <1>1, <1>3, <1>5, <1>6 DEF NotAfter
<1> QED  BY <1>7

(* With one fit, a residual that is there is taken from a point of it.     *)
LEMMA ResidualOfTheFit ==
    ASSUME doc \in Document, NEW m, Residual(m) # Absent,
           NEW f, Numbers("FIT") = {f}
    PROVE  \E p \in ToSet(doc.fits[f].points) :
                p.x = m.frequency /\ Residual(m) = m.pathAndSiteCorrected - p.y
<1> DEFINE at == {p \in FitPoints : PointAt(p).x = m.frequency}
           first == CHOOSE p \in at : \A q \in at : NotAfter(p, q)
<1>1. at # {} /\ Residual(m) = m.pathAndSiteCorrected - PointAt(first).y
  BY DEF Residual
<1>2. at \in SUBSET FitPoints
  OBVIOUS
<1>3. first \in at
  BY <1>1, <1>2, FirstPoint
<1>4. first \in {f} \X DOMAIN doc.fits[f].points
  BY <1>3 DEF FitPoints
<1>5. PointAt(first) \in ToSet(doc.fits[f].points)
  <2>1. first[1] = f /\ first[2] \in DOMAIN doc.fits[f].points
    BY <1>4
  <2> QED  BY <2>1 DEF PointAt, ToSet
<1> QED  BY <1>1, <1>3, <1>5

(* The fit that is shown is the one there is; no entry is shown twice.     *)
LEMMA SpectralFitIsRight ==
    ASSUME doc \in Document
    PROVE  /\ \A l, k \in Labels : l # k /\ SpectralFit[l] # 0
                                    => SpectralFit[l] # SpectralFit[k]
           /\ Cardinality(Numbers("FIT")) = 1 => Numbers("FIT") = {SpectralFit["fit"]}
<1> DEFINE Type(l) == IF l = "fit" THEN "FIT"
                      ELSE IF l \in {"upper1", "lower1"} THEN "UQ1" ELSE "UQ2"
           Place(l) == IF l \in {"lower1", "lower2"} THEN 2 ELSE 1
<1>1. \A l \in Labels : SpectralFit[l] = Number(Nth(Numbers(Type(l)), Place(l)))
  BY DEF Labels, SpectralFit
<1>2. \A S : Number(S) # 0 => Number(S) \in S
  BY DEF Number
<1>3. ASSUME NEW l \in Labels, NEW k \in Labels, SpectralFit[l] # 0,
             SpectralFit[l] = SpectralFit[k]
      PROVE  l = k
  <2> DEFINE n == SpectralFit[l]
  <2>1. /\ n \in Nth(Numbers(Type(l)), Place(l))
        /\ n \in Nth(Numbers(Type(k)), Place(k))
    BY <1>1, <1>2, <1>3
  <2>2. doc.fits[n].type = Type(l) /\ doc.fits[n].type = Type(k)
    BY <2>1 DEF Nth, Numbers
  <2>3. Place(l) = Place(k)
    BY <2>1, <2>2 DEF Nth
  <2> QED  BY <2>2, <2>3 DEF Labels
<1>4. ASSUME Cardinality(Numbers("FIT")) = 1
      PROVE  Numbers("FIT") = {SpectralFit["fit"]}
  <2>1. Len(doc.fits) \in Nat
    BY DEF Document
  <2>2. IsFiniteSet(Numbers("FIT"))
    <3>1. IsFiniteSet(1..Len(doc.fits)) /\ Numbers("FIT") \in SUBSET (1..Len(doc.fits))
      BY <2>1, FS_Interval DEF Numbers
    <3> QED  BY <3>1, FS_Subset
  <2>3. PICK f : Numbers("FIT") = {f}
    BY <1>4, <2>2, FS_Singleton
  <2>4. f \in Nat /\ {j \in {f} : j <= f} = {f}
    BY <2>3 DEF Numbers
  <2>5. Cardinality({f}) = 1
    BY FS_Singleton
  <2>6. Nth(Numbers("FIT"), 1) = {f}
    BY <2>3, <2>4, <2>5 DEF Nth
  <2>7. Number(Nth(Numbers("FIT"), 1)) = f
    BY <2>6 DEF Number
  <2> QED  BY <2>3, <2>7 DEF SpectralFit
<1> QED  BY <1>3, <1>4

-----------------------------------------------------------------------------
(***************************************************************************)
(* Sorting: any finite set can be listed in the order of a number that     *)
(* each of its elements has.                                               *)
(***************************************************************************)
Sorts(f, b, S) ==
    /\ f \in Bijection(1..Cardinality(S), S)
    /\ \A j, k \in DOMAIN f : j < k => b[f[j]] <= b[f[k]]

LEMMA SortMore ==
    ASSUME NEW n \in Int, NEW L, NEW b \in [L -> Int], \A l \in L : b[l] <= n,
           NEW S \in SUBSET L, S # {}, IsFiniteSet(S),
           \A T \in SUBSET L : Cardinality(T) = Cardinality(S) - 1
                                => \E f : Sorts(f, b, T)
    PROVE  \E f : Sorts(f, b, S)
<1> DEFINE B == {b[l] : l \in S}
           m == Cardinality(S)
<1>1. m \in Nat /\ m # 0
  BY FS_CardinalityType, FS_EmptySet
<1>2. B \in SUBSET Int /\ B # {} /\ \A x \in B : x <= n
  OBVIOUS
<1>3. PICK g \in B : \A y \in B : y <= g
  BY ONLY <1>2, n \in Int, GreatestElement
<1>4. PICK last \in S : \A l \in S : b[l] <= b[last]
  BY <1>3
<1> DEFINE T == S \ {last}
<1>5. Cardinality(T) = m - 1 /\ T \in SUBSET L
  BY FS_RemoveElement
<1>6. PICK f : Sorts(f, b, T)
  BY <1>5
<1>7. /\ f \in [1..(m - 1) -> T]
      /\ \A j, k \in 1..(m - 1) : f[j] = f[k] => j = k
      /\ \A t \in T : \E k \in 1..(m - 1) : f[k] = t
      /\ \A j, k \in 1..(m - 1) : j < k => b[f[j]] <= b[f[k]]
  BY <1>5, <1>6 DEF Sorts, Bijection, Injection, Surjection, IsInjective
<1> DEFINE h == [k \in 1..m |-> IF k = m THEN last ELSE f[k]]
<1> HIDE DEF m
<1>8. 1..m = (1..(m - 1)) \union {m} /\ m \notin 1..(m - 1) /\ m \in 1..m
  BY <1>1
<1>9. h[m] = last /\ \A k \in 1..(m - 1) : h[k] = f[k] /\ f[k] \in T
  BY <1>7, <1>8
<1>10. h \in [1..m -> S]
  BY <1>7, <1>8
<1>11. \A j, k \in 1..m : h[j] = h[k] => j = k
  BY <1>7, <1>8, <1>9
<1>12. \A t \in S : \E k \in 1..m : h[k] = t
  BY <1>7, <1>8, <1>9
<1>13. \A j, k \in 1..m : j < k => b[h[j]] <= b[h[k]]
  <2> SUFFICES ASSUME NEW j \in 1..m, NEW k \in 1..m, j < k
               PROVE  b[h[j]] <= b[h[k]]
    OBVIOUS
  <2>1. j \in 1..(m - 1)
    BY <1>1
  <2>2. CASE k = m
    BY <1>4, <1>9, <2>1, <2>2
  <2>3. CASE k \in 1..(m - 1)
    BY <1>7, <1>9, <2>1, <2>3
  <2> QED  BY <1>8, <2>2, <2>3
<1>14. DOMAIN h = 1..m
  OBVIOUS
<1> HIDE DEF h
<1>15. h \in Bijection(1..m, S)
  BY <1>10, <1>11, <1>12, <1>14 DEF Bijection, Injection, Surjection, IsInjective
<1> QED  BY <1>13, <1>14, <1>15 DEF Sorts, m

LEMMA SortingExists ==
    ASSUME NEW n \in Int, NEW L, NEW b \in [L -> Int], \A l \in L : b[l] <= n,
           IsFiniteSet(L)
    PROVE  \E f : Sorts(f, b, L)
<1> DEFINE Unsorted == {S \in SUBSET L : ~ \E f : Sorts(f, b, S)}
           Sizes == {Cardinality(S) : S \in Unsorted}
<1>1. \A S \in SUBSET L : IsFiniteSet(S) /\ Cardinality(S) \in Nat
  BY FS_Subset, FS_CardinalityType
<1>2. Sizes \in SUBSET Nat
  BY <1>1
<1>3. SUFFICES ASSUME Sizes # {} PROVE FALSE
  OBVIOUS
<1>4. PICK z \in Sizes : \A y \in Sizes : z <= y
  BY ONLY <1>2, <1>3, LeastElement
<1>5. PICK S \in Unsorted : Cardinality(S) = z
  BY <1>4
<1>6. CASE S = {}
  <2> DEFINE f == [k \in {} |-> 0]
  <2>1. Cardinality(S) = 0 /\ 1..0 = {}
    BY <1>6, FS_EmptySet
  <2>2. f \in [{} -> {}] /\ DOMAIN f = {}
    OBVIOUS
  <2> HIDE DEF f
  <2>3. f \in Bijection({}, {})
    BY <2>2 DEF Bijection, Injection, Surjection, IsInjective
  <2>4. Sorts(f, b, S)
    BY <1>6, <2>1, <2>2, <2>3 DEF Sorts
  <2> QED  BY <1>5, <2>4
<1>7. CASE S # {}
  <2>1. ASSUME NEW T \in SUBSET L, Cardinality(T) = Cardinality(S) - 1
        PROVE  \E f : Sorts(f, b, T)
    <3>1. Cardinality(T) \notin Sizes
      BY <1>1, <1>2, <1>4, <1>5, <2>1
    <3>2. T \notin Unsorted
      BY <3>1
    <3> QED  BY <3>2
  <2>2. S \in SUBSET L /\ IsFiniteSet(S)
    BY <1>1, <1>5
  <2>3. \E f : Sorts(f, b, S)
    BY <1>7, <2>1, <2>2, SortMore
  <2> QED  BY <1>5, <2>3
<1> QED  BY <1>6, <1>7

(* The back azimuths are sorted, and are those of all locations.           *)
LEMMA BackAzimuthsAreSorted ==
    ASSUME doc \in Document, locations \subseteq Stations, IsFiniteSet(locations)
    PROVE  LET n == Cardinality(locations)
           IN  /\ n \in Nat
               /\ BackAzimuths \in [1..n -> 0..Circle]
               /\ \A j, k \in 1..n : j < k => BackAzimuths[j] <= BackAzimuths[k]
               /\ \A k \in 1..n : \E r \in locations :
                    BackAzimuths[k] = doc.bearing[r]
               /\ \A r \in locations : \E k \in 1..n :
                    BackAzimuths[k] = doc.bearing[r]
<1> DEFINE n == Cardinality(locations)
           b == [l \in locations |-> doc.bearing[l]]
<1>1. \A l \in locations : doc.bearing[l] \in 0..Circle
  BY DEF Document
<1>2. b \in [locations -> Int] /\ \A l \in locations : b[l] <= Circle
  BY <1>1 DEF Circle
<1>3. Circle \in Int
  BY DEF Circle
<1>4. PICK f : Sorts(f, b, locations)
  BY <1>2, <1>3, SortingExists
<1>5. ASSUME NEW h \in Bijection(1..n, locations)
      PROVE  h \in [1..n -> locations] /\ DOMAIN h = 1..n
  BY DEF Bijection, Injection
<1>6. f \in Bijection(1..n, locations)
      /\ \A j, k \in DOMAIN f : j < k => doc.bearing[f[j]] <= doc.bearing[f[k]]
  <2>1. f \in Bijection(1..n, locations)
    BY <1>4 DEF Sorts
  <2>2. \A j \in DOMAIN f : b[f[j]] = doc.bearing[f[j]]
    BY <1>5, <2>1
  <2> QED  BY <1>4, <2>1, <2>2 DEF Sorts
<1> DEFINE order == ByBackAzimuth
<1>7. order \in Bijection(1..n, locations)
      /\ \A j, k \in DOMAIN order :
            j < k => doc.bearing[order[j]] <= doc.bearing[order[k]]
  BY <1>6 DEF ByBackAzimuth
<1> HIDE DEF order
<1>8. order \in [1..n -> locations] /\ DOMAIN order = 1..n
      /\ \A r \in locations : \E k \in 1..n : order[k] = r
  BY <1>5, <1>7 DEF Bijection, Surjection
<1>9. BackAzimuths = [k \in 1..n |-> doc.bearing[order[k]]]
  BY DEF BackAzimuths, order
<1>10. n \in Nat
  BY FS_CardinalityType
<1> HIDE DEF n, b
<1>11. BackAzimuths \in [1..n -> 0..Circle]
  BY <1>1, <1>8, <1>9
<1>12. \A j, k \in 1..n : j < k => BackAzimuths[j] <= BackAzimuths[k]
  BY <1>7, <1>8, <1>9
<1>13. \A k \in 1..n : \E r \in locations : BackAzimuths[k] = doc.bearing[r]
  BY <1>8, <1>9
<1>14. \A r \in locations : \E k \in 1..n : BackAzimuths[k] = doc.bearing[r]
  BY <1>8, <1>9
<1> QED  BY <1>10, <1>11, <1>12, <1>13, <1>14 DEF n

-----------------------------------------------------------------------------
(***************************************************************************)
(* The widest step between sorted back azimuths, around the circle, is the *)
(* widest arc without a station.                                           *)
(***************************************************************************)
Sorted(a, n) ==
    /\ a \in [1..n -> 0..Circle]
    /\ \A j, k \in 1..n : j < k => a[j] <= a[k]
StepAt(a, n, k) == (IF k < n THEN a[k + 1] ELSE a[1] + Circle) - a[k]

(* Nothing in the circle is in the same direction as a point inside the    *)
(* arc of that width from a[k].                                            *)
Empty(a, n, k, width) ==
    \A j \in 1..n : \A x \in 1..(width - 1) :
        (a[k] + x) % Circle # a[j] % Circle

LEMMA SortedValues ==
    ASSUME NEW n \in Nat \ {0}, NEW a, Sorted(a, n)
    PROVE  /\ \A k \in 1..n : /\ a[k] \in Int /\ 0 <= a[k] /\ a[k] <= 8
                              /\ a[1] <= a[k] /\ a[k] <= a[n]
                              /\ StepAt(a, n, k) \in Int /\ StepAt(a, n, k) <= 8
           /\ 1 \in 1..n /\ n \in 1..n
<1>1. 1 \in 1..n /\ n \in 1..n /\ Circle = 8
  BY DEF Circle
<1>2. ASSUME NEW k \in 1..n PROVE a[k] \in Int /\ 0 <= a[k] /\ a[k] <= 8
  <2>1. a[k] \in 0..Circle
    BY DEF Sorted
  <2> QED  BY <1>1, <2>1
<1>3. ASSUME NEW k \in 1..n PROVE a[1] <= a[k] /\ a[k] <= a[n]
  <2>1. k = 1 \/ a[1] <= a[k]
    BY <1>1 DEF Sorted
  <2>2. k = n \/ a[k] <= a[n]
    BY <1>1 DEF Sorted
  <2> QED  BY <1>1, <1>2, <2>1, <2>2
<1>4. ASSUME NEW k \in 1..n PROVE StepAt(a, n, k) \in Int /\ StepAt(a, n, k) <= 8
  <2>1. CASE k < n
    <3>1. k + 1 \in 1..n
      BY <2>1
    <3> QED  BY <1>2, <2>1, <3>1 DEF StepAt
  <2>2. CASE k = n
    BY <1>1, <1>2, <1>3, <2>2 DEF StepAt
  <2> QED  BY <2>1, <2>2
<1> QED  BY <1>1, <1>2, <1>3, <1>4

(* Where a value is exceeded, there is a step across it.                   *)
LEMMA StepAcross ==
    ASSUME NEW n \in Nat \ {0}, NEW a, Sorted(a, n),
           NEW k \in 1..n, NEW j \in 1..n, a[k] < a[j]
    PROVE  \E m \in 1..n : /\ m < n /\ a[m] = a[k]
                           /\ a[k] < a[m + 1] /\ m + 1 \in 1..n
                           /\ StepAt(a, n, m) = a[m + 1] - a[k]
<1> DEFINE Above == {m \in 1..n : a[k] < a[m]}
<1>1. Above \in SUBSET Nat /\ Above # {}
  OBVIOUS
<1>2. PICK next \in Above : \A m \in Above : next <= m
  BY ONLY <1>1, LeastElement
<1>3. next \in 1..n /\ a[k] < a[next]
  BY <1>2
<1>4. \A m \in 1..n : a[m] \in Int
  BY SortedValues
<1>5. k < next
  <2>1. next < k => a[next] <= a[k]
    BY <1>3 DEF Sorted
  <2> QED  BY <1>3, <1>4, <2>1
<1>6. next - 1 \in 1..n /\ next - 1 < n /\ next - 1 + 1 = next
  BY <1>3, <1>5
<1>7. ~ (a[k] < a[next - 1])
  <2>1. next - 1 \notin Above
    BY <1>2, <1>3
  <2> QED  BY <1>6, <2>1
<1>8. a[k] <= a[next - 1]
  <2>1. k = next - 1 \/ k < next - 1
    BY <1>3, <1>5
  <2>2. k < next - 1 => a[k] <= a[next - 1]
    BY <1>6 DEF Sorted
  <2> QED  BY <1>4, <2>1, <2>2
<1>9. a[next - 1] = a[k]
  BY <1>4, <1>6, <1>7, <1>8
<1>10. StepAt(a, n, next - 1) = a[next] - a[k]
  BY <1>6, <1>9 DEF StepAt
<1> QED  BY <1>3, <1>6, <1>9, <1>10

(* Some step is not zero.                                                  *)
LEMMA SomeStep ==
    ASSUME NEW n \in Nat \ {0}, NEW a, Sorted(a, n)
    PROVE  \E k \in 1..n : StepAt(a, n, k) >= 1
<1>1. /\ \A k \in 1..n : a[k] \in Int /\ 0 <= a[k] /\ a[k] <= 8
      /\ 1 \in 1..n /\ n \in 1..n
  BY SortedValues
<1>2. CASE a[1] < a[n]
  <2>1. PICK m \in 1..n : /\ a[1] < a[m + 1] /\ m + 1 \in 1..n
                          /\ StepAt(a, n, m) = a[m + 1] - a[1]
    BY <1>1, <1>2, StepAcross
  <2> QED  BY <1>1, <2>1
<1>3. CASE ~ (a[1] < a[n])
  <2>1. a[1] = a[n]
    BY <1>1, <1>3, SortedValues
  <2>2. StepAt(a, n, n) = a[1] + 8 - a[n]
    BY <1>1 DEF StepAt, Circle
  <2> QED  BY <1>1, <2>1, <2>2
<1> QED  BY <1>2, <1>3

(* A step is an arc without a station.                                     *)
LEMMA StepIsEmpty ==
    ASSUME NEW n \in Nat \ {0}, NEW a, Sorted(a, n), NEW k \in 1..n
    PROVE  Empty(a, n, k, StepAt(a, n, k))
<1>1. /\ \A j \in 1..n : /\ a[j] \in Int /\ 0 <= a[j] /\ a[j] <= 8
                          /\ a[1] <= a[j] /\ a[j] <= a[n]
      /\ 1 \in 1..n /\ n \in 1..n
  BY SortedValues
<1>2. SUFFICES ASSUME NEW j \in 1..n, NEW x \in Int, 1 <= x, x < StepAt(a, n, k)
               PROVE  (a[k] + x) % 8 # a[j] % 8
  BY SortedValues DEF Empty, Circle
<1>3. a[j] % 8 = IF a[j] = 8 THEN 0 ELSE a[j]
  BY <1>1
<1>4. CASE k < n
  <2>1. k + 1 \in 1..n /\ StepAt(a, n, k) = a[k + 1] - a[k]
    BY <1>4 DEF StepAt
  <2>2. a[k] < a[k] + x /\ a[k] + x < a[k + 1] /\ a[k + 1] <= 8 /\ a[k] >= 0
    BY <1>1, <1>2, <2>1
  <2>3. (a[k] + x) % 8 = a[k] + x
    <3>1. a[k] + x \in 0..7
      BY <1>1, <2>1, <2>2
    <3> QED  BY <3>1
  <2>4. a[j] <= a[k] \/ a[k + 1] <= a[j]
    <3>1. j < k \/ j = k \/ j = k + 1 \/ k + 1 < j
      OBVIOUS
    <3> QED  BY <1>1, <2>1, <3>1 DEF Sorted
  <2> QED  BY <1>1, <1>3, <2>1, <2>2, <2>3, <2>4
<1>5. CASE k = n
  <2>1. StepAt(a, n, k) = a[1] + 8 - a[n]
    BY <1>1, <1>5 DEF StepAt, Circle
  <2>2. a[n] < a[n] + x /\ a[n] + x < a[1] + 8
    BY <1>1, <1>2, <2>1
  <2>3. CASE a[n] + x < 8
    <3>1. (a[n] + x) % 8 = a[n] + x
      BY <1>1, <2>2, <2>3
    <3> QED  BY <1>1, <1>3, <1>5, <2>2, <3>1
  <2>4. CASE a[n] + x >= 8
    <3>1. a[n] + x < 16
      BY <1>1, <2>2
    <3>2. (a[n] + x) % 8 = a[n] + x - 8
      BY <1>1, <2>4, <3>1
    <3> QED  BY <1>1, <1>3, <1>5, <2>2, <3>2
  <2> QED  BY <1>1, <2>3, <2>4
<1> QED  BY <1>4, <1>5

(* No arc without a station is wider than every step.                      *)
LEMMA EmptyIsInAStep ==
    ASSUME NEW n \in Nat \ {0}, NEW a, Sorted(a, n), NEW k \in 1..n,
           NEW width \in 1..Circle, Empty(a, n, k, width)
    PROVE  \E m \in 1..n : width <= StepAt(a, n, m)
<1>1. /\ \A j \in 1..n : /\ a[j] \in Int /\ 0 <= a[j] /\ a[j] <= 8
                          /\ a[1] <= a[j] /\ a[j] <= a[n]
                          /\ StepAt(a, n, j) \in Int
      /\ 1 \in 1..n /\ n \in 1..n
  BY SortedValues
<1>2. width \in Int /\ width <= 8
  BY DEF Circle
<1>3. ASSUME NEW m \in 1..n, NEW j \in 1..n, NEW x \in Int,
             x = StepAt(a, n, m), 1 <= x, (a[k] + x) % 8 = a[j] % 8
      PROVE  width <= StepAt(a, n, m)
  <2>1. ~ (x \in 1..(width - 1))
    BY <1>3 DEF Empty, Circle
  <2> QED  BY <1>2, <1>3, <2>1
<1>4. CASE a[k] < a[n]
  <2>1. PICK m \in 1..n : /\ a[k] < a[m + 1] /\ m + 1 \in 1..n
                          /\ StepAt(a, n, m) = a[m + 1] - a[k]
    BY <1>1, <1>4, StepAcross
  <2>2. a[k] + (a[m + 1] - a[k]) = a[m + 1] /\ a[m + 1] - a[k] >= 1
    BY <1>1, <2>1
  <2> QED  BY <1>1, <1>3, <2>1, <2>2
<1>5. CASE a[k] = a[n] /\ a[1] + 8 - a[n] >= 1
  <2>1. StepAt(a, n, n) = a[1] + 8 - a[n]
    BY <1>1 DEF StepAt, Circle
  <2>2. a[k] + (a[1] + 8 - a[n]) = a[1] + 8 /\ (a[1] + 8) % 8 = a[1] % 8
    BY <1>1, <1>5
  <2> QED  BY <1>1, <1>3, <1>5, <2>1, <2>2
<1>6. CASE a[k] = a[n] /\ ~ (a[1] + 8 - a[n] >= 1)
  <2>1. a[1] = 0 /\ a[n] = 8 /\ a[1] < a[n]
    BY <1>1, <1>6
  <2>2. PICK m \in 1..n : /\ a[1] < a[m + 1] /\ m + 1 \in 1..n
                          /\ StepAt(a, n, m) = a[m + 1] - a[1]
    BY <1>1, <2>1, StepAcross
  <2>3. StepAt(a, n, m) = a[m + 1] /\ a[m + 1] >= 1
    BY <1>1, <2>1, <2>2
  <2>4. (a[k] + a[m + 1]) % 8 = a[m + 1] % 8
    BY <1>1, <1>6, <2>1, <2>2
  <2> QED  BY <1>1, <1>3, <2>2, <2>3, <2>4
<1> QED  BY <1>1, <1>4, <1>5, <1>6

LEMMA WidestStep ==
    ASSUME NEW n \in Nat \ {0}, NEW a, Sorted(a, n)
    PROVE  /\ \E k \in 1..n : Gap(a) = StepAt(a, n, k)
           /\ \A k \in 1..n : StepAt(a, n, k) <= Gap(a)
<1>1. /\ \A k \in 1..n : /\ a[k] \in Int /\ StepAt(a, n, k) \in Int
                          /\ StepAt(a, n, k) <= 8
      /\ 1 \in 1..n /\ n \in 1..n
  BY SortedValues
<1>2. a \in Seq(Int) /\ Len(a) = n
  <2>1. a \in [1..n -> Int]
    BY <1>1 DEF Sorted
  <2> QED  BY <2>1
<1>3. CASE n = 1
  <2>1. Gap(a) = 8 /\ StepAt(a, n, 1) = 8
    BY <1>1, <1>2, <1>3 DEF Gap, StepAt, Circle
  <2>2. 1..n = {1}
    BY <1>3
  <2> QED  BY <2>1, <2>2
<1>4. CASE n # 1
  <2> DEFINE closed == Append(a, a[1] + Circle)
  <2>1. a[1] + Circle \in Int
    BY <1>1 DEF Circle
  <2>2. /\ Len(closed) = n + 1 /\ closed[n + 1] = a[1] + Circle
        /\ \A k \in 1..n : closed[k] = a[k]
    BY <1>2, <2>1
  <2>3. \A k \in 1..n : closed[k + 1] - closed[k] = StepAt(a, n, k)
    <3> SUFFICES ASSUME NEW k \in 1..n
                 PROVE  closed[k + 1] - closed[k] = StepAt(a, n, k)
      OBVIOUS
    <3> HIDE DEF closed
    <3>1. CASE k < n
      <4>1. k + 1 \in 1..n
        BY <3>1
      <4> QED  BY <2>2, <3>1, <4>1 DEF StepAt
    <3>2. CASE k = n
      BY <2>2, <3>2 DEF StepAt
    <3> QED  BY <3>1, <3>2
  <2>4. Len(closed) - 1 = n
    BY <2>2
  <2>5. Gap(a) = Largest(Steps(closed))
    BY <1>2, <1>4 DEF Gap
  <2> HIDE DEF closed
  <2>6. Steps(closed) = {StepAt(a, n, k) : k \in 1..n}
    BY <2>3, <2>4 DEF Steps
  <2> DEFINE S == {StepAt(a, n, k) : k \in 1..n}
  <2>7. S \in SUBSET Int /\ S # {} /\ \A x \in S : x <= 8
    BY <1>1
  <2>8. Largest(S) \in S /\ \A y \in S : y <= Largest(S)
    BY ONLY <2>7, 8 \in Int, LargestIsGreatest
  <2> QED  BY <2>5, <2>6, <2>8
<1> QED  BY <1>3, <1>4

(* What is computed from the sorted back azimuths is the azimuthal gap.    *)
LEMMA GapIsAzimuthalGap ==
    ASSUME doc \in Document, locations \subseteq Stations, IsFiniteSet(locations),
           locations # {}
    PROVE  Gap(BackAzimuths) = AzimuthalGap(locations) /\ AzimuthalGap(locations) \in 1..Circle
<1> DEFINE n == Cardinality(locations)
           a == BackAzimuths
           G == Gap(a)
           Arcs == {e[2] : e \in EmptyArcs(locations)}
<1>1. n \in Nat \ {0}
  BY FS_CardinalityType, FS_EmptySet
<1>2. /\ Sorted(a, n)
      /\ \A k \in 1..n : \E r \in locations : a[k] = doc.bearing[r]
      /\ \A r \in locations : \E k \in 1..n : a[k] = doc.bearing[r]
  BY BackAzimuthsAreSorted DEF Sorted
<1> HIDE DEF n, a
<1>3. PICK k \in 1..n : G = StepAt(a, n, k)
  BY <1>1, <1>2, WidestStep
<1>4. \A j \in 1..n : StepAt(a, n, j) \in Int /\ StepAt(a, n, j) <= 8
                      /\ StepAt(a, n, j) <= G
  BY <1>1, <1>2, SortedValues, WidestStep
<1>5. G \in 1..Circle
  <2>1. \E j \in 1..n : StepAt(a, n, j) >= 1
    BY <1>1, <1>2, SomeStep
  <2> QED  BY <1>3, <1>4, <2>1 DEF Circle
<1>6. ASSUME NEW r \in locations, NEW j \in 1..n, a[j] = doc.bearing[r],
             NEW width \in 1..Circle
      PROVE  Empty(a, n, j, width) <=> <<r, width>> \in EmptyArcs(locations)
  <2>1. <<r, width>> \in EmptyArcs(locations) <=>
            \A s \in locations : \A x \in 1..(width - 1) :
                (doc.bearing[r] + x) % Circle # doc.bearing[s] % Circle
    BY DEF EmptyArcs
  <2> QED  BY <1>2, <1>6, <2>1 DEF Empty
<1>7. G \in Arcs
  <2>1. PICK r \in locations : a[k] = doc.bearing[r]
    BY <1>2
  <2>2. Empty(a, n, k, G)
    BY <1>1, <1>2, <1>3, StepIsEmpty
  <2>3. <<r, G>> \in EmptyArcs(locations)
    BY <1>5, <1>6, <2>1, <2>2
  <2> QED  BY <2>3
<1>8. ASSUME NEW e \in EmptyArcs(locations) PROVE e[2] \in 1..Circle /\ e[2] <= G
  <2>1. e[1] \in locations /\ e[2] \in 1..Circle /\ e = <<e[1], e[2]>>
    BY DEF EmptyArcs
  <2>2. PICK j \in 1..n : a[j] = doc.bearing[e[1]]
    BY <1>2, <2>1
  <2>3. Empty(a, n, j, e[2])
    BY <1>6, <2>1, <2>2
  <2>4. \E m \in 1..n : e[2] <= StepAt(a, n, m)
    BY <1>1, <1>2, <2>1, <2>3, EmptyIsInAStep
  <2> QED  BY <1>4, <1>5, <2>1, <2>4
<1>9. Arcs \in SUBSET Int /\ \A y \in Arcs : y <= G
  BY <1>8
<1>10. Largest(Arcs) = G
  BY ONLY <1>7, <1>9, LargestIs
<1> QED  BY <1>5, <1>10 DEF AzimuthalGap, a

-----------------------------------------------------------------------------
(***************************************************************************)
(* What is shown and what is stored.                                       *)
(***************************************************************************)

(* The curves are those of the document once they have been taken, and a   *)
(* value that is shown is the measurement's number and its residual.       *)
ShownInv ==
    /\ stage \notin {"row", "thrown", "aborted"} => spectra = SpectralFit
    /\ stage \notin {"row", "unpack", "thrown", "aborted"} =>
        \A e \in shown : \A v \in e.values :
            v = [nr |-> v.nr, residual |-> Residual(doc.measurements[v.nr])]

CountedBy(n) == {k \in Counted : k <= n}

(* Stations located among the first n measurements.                        *)
LocatedBy(n) ==
    {StationOf[doc.measurements[k].stream] :
        k \in {k \in StationEntries : k <= n /\ doc.measurements[k].latitude = "good"}}

(* While the measurements are counted nothing else is known, and none of   *)
(* those so far has interrupted the reading.                               *)
CountInv ==
    /\ locations \subseteq Stations /\ IsFiniteSet(locations)
    /\ stage \in {"row", "unpack", "shown"} => locations = {}
    /\ stage = "shown" => i = 0
    /\ stage = "count" =>
        /\ i \in 0..Size
        /\ doc.stationCount # Wrong
        /\ locations = LocatedBy(i)
        /\ \A k \in StationEntries : k <= i => doc.measurements[k].latitude # "wrong"
        /\ details = [magnitude |-> doc.mw,
                      distance |-> Unknown, gap |-> Unknown,
                      nStations |-> IF doc.stationCount = Absent THEN Unknown
                                    ELSE doc.stationCount,
                      nObservations |-> Cardinality(CountedBy(i))]

(* With a magnitude, what is read is what the document gives, or not known *)
(* where it does not give it or its reading was interrupted.               *)
GivenOrUnknown ==
    /\ details.nStations = IF doc.stationCount \in {Absent, Wrong} THEN Unknown
                           ELSE doc.stationCount
    /\ details.nObservations = IF Interrupted THEN Unknown ELSE Cardinality(Counted)
    /\ details.gap = IF HaveDistances THEN AzimuthalGap(Located) ELSE Unknown
    /\ IF HaveDistances
       THEN /\ details.gap \in 1..Circle
            /\ details.distance \in {doc.distance[s] : s \in Located}
            /\ \A s \in Located : details.distance <= doc.distance[s]
       ELSE details.distance = Unknown
ReadInv ==
    stage \in {"read", "stored"} =>
        /\ details.magnitude \in {-MaxMagnitude, doc.mw}
        /\ details.magnitude # -MaxMagnitude => GivenOrUnknown

StoredInv ==
    stage = "stored" => /\ details.magnitude > -MaxMagnitude
                        /\ details.magnitude < MaxMagnitude
                        /\ netmag = Columns(details)

RowInv == DetailsInv /\ ShownInv /\ CountInv /\ ReadInv /\ StoredInv

(* What the document gives is finite, in range, and changes with it only.  *)
LEMMA LocatedIsFinite ==
    ASSUME doc \in Document
    PROVE  /\ Located \subseteq Stations /\ IsFiniteSet(Located)
           /\ LocatedBy(0) = {} /\ LocatedBy(Size) = Located
<1>1. Size \in Nat /\ \A k \in 1..Size : doc.measurements[k] \in Measurement
  BY DocumentFields
<1>2. \A k \in 1..Size : StationOf[doc.measurements[k].stream] \in Stations
  BY <1>1, StationAssumption DEF Measurement
<1>3. Located \subseteq Stations
  BY <1>2 DEF Located, StationEntries
<1> DEFINE K == {k \in StationEntries : doc.measurements[k].latitude = "good"}
<1>4. IsFiniteSet(K)
  <2>1. IsFiniteSet(1..Size) /\ K \in SUBSET (1..Size)
    BY <1>1, FS_Interval DEF StationEntries
  <2> QED  BY <2>1, FS_Subset
<1>5. Located = {StationOf[doc.measurements[k].stream] : k \in K}
  BY DEF Located
<1> HIDE DEF K
<1>6. IsFiniteSet(Located)
  <2> DEFINE f == [k \in K |-> StationOf[doc.measurements[k].stream]]
  <2>1. f \in Surjection(K, Located)
    BY <1>5 DEF Surjection
  <2> HIDE DEF f
  <2> QED  BY <1>4, <2>1, FS_Surjection
<1>7. LocatedBy(0) = {}
  BY <1>1 DEF LocatedBy, StationEntries
<1>8. LocatedBy(Size) = Located
  BY <1>1 DEF LocatedBy, Located, StationEntries
<1> QED  BY <1>3, <1>6, <1>7, <1>8

LEMMA LocatedNext ==
    ASSUME doc \in Document, i \in 0..Size, i < Size
    PROVE  /\ LocatedBy(i + 1) = LocatedBy(i) \union
                IF /\ Current.waveform /\ Current.form = "station"
                   /\ Current.latitude = "good"
                THEN {StationOf[Current.stream]} ELSE {}
           /\ \A k \in StationEntries : k <= i + 1 <=> k <= i \/ k = i + 1
           /\ i + 1 \in StationEntries <=> Current.waveform /\ Current.form = "station"
<1>1. Size \in Nat /\ i \in Nat /\ i + 1 \in 1..Size
  BY DocumentFields
<1>2. \A k \in StationEntries : k <= i + 1 <=> k <= i \/ k = i + 1
  BY <1>1 DEF StationEntries
<1>3. i + 1 \in StationEntries <=> Current.waveform /\ Current.form = "station"
  BY <1>1 DEF StationEntries, Current
<1>4. Current = doc.measurements[i + 1]
  BY DEF Current
<1>5. LocatedBy(i + 1) = LocatedBy(i) \union
                IF i + 1 \in StationEntries /\ Current.latitude = "good"
                THEN {StationOf[Current.stream]} ELSE {}
  BY <1>2, <1>4 DEF LocatedBy
<1> QED  BY <1>2, <1>3, <1>5

LEMMA DocumentOnly ==
    ASSUME doc' = doc
    PROVE  /\ Counted' = Counted /\ Located' = Located /\ Size' = Size
           /\ StationEntries' = StationEntries
           /\ Interrupted' = Interrupted /\ HaveDistances' = HaveDistances
           /\ AzimuthalGap(Located)' = AzimuthalGap(Located)
<1>1. Counted' = Counted /\ StationEntries' = StationEntries /\ Size' = Size
  BY DEF Counted, StationEntries, Size
<1>2. Located' = Located /\ Interrupted' = Interrupted
  BY <1>1 DEF Located, Interrupted
<1>3. HaveDistances' = HaveDistances
  BY <1>2 DEF HaveDistances
<1>4. AzimuthalGap(Located)' = AzimuthalGap(Located)
  BY <1>2 DEF AzimuthalGap, EmptyArcs
<1> QED  BY <1>1, <1>2, <1>3, <1>4

LEMMA CountedIsFinite ==
    ASSUME doc \in Document
    PROVE  /\ IsFiniteSet(Counted) /\ Cardinality(Counted) \in Nat
           /\ \A n : IsFiniteSet(CountedBy(n)) /\ Cardinality(CountedBy(n)) \in Nat
           /\ CountedBy(Size) = Counted
           /\ CountedBy(0) = {} /\ Cardinality(CountedBy(0)) = 0
<1>1. Size \in Nat
  BY DocumentFields
<1>2. IsFiniteSet(1..Size) /\ Counted \in SUBSET (1..Size)
  BY <1>1, FS_Interval DEF Counted
<1>3. IsFiniteSet(Counted)
  BY <1>2, FS_Subset
<1>4. \A n : CountedBy(n) \in SUBSET Counted
  BY DEF CountedBy
<1>5. \A n : IsFiniteSet(CountedBy(n))
  BY <1>3, <1>4, FS_Subset
<1>6. CountedBy(Size) = Counted /\ CountedBy(0) = {}
  BY <1>1 DEF CountedBy, Counted
<1> QED  BY <1>3, <1>5, <1>6, FS_CardinalityType, FS_EmptySet

LEMMA CountedNext ==
    ASSUME doc \in Document, i \in 0..Size, i < Size
    PROVE  Cardinality(CountedBy(i + 1)) =
                IF Current.pathAndSiteCorrected \notin {Absent, Wrong}
                THEN Cardinality(CountedBy(i)) + 1 ELSE Cardinality(CountedBy(i))
<1>1. Size \in Nat /\ i \in Nat /\ i + 1 \in 1..Size
  BY DocumentFields
<1>2. i + 1 \notin CountedBy(i)
  BY <1>1 DEF CountedBy
<1>3. CountedBy(i + 1) = IF i + 1 \in Counted THEN CountedBy(i) \union {i + 1}
                         ELSE CountedBy(i)
  BY <1>1 DEF CountedBy, Counted
<1>4. i + 1 \in Counted <=> Current.pathAndSiteCorrected \notin {Absent, Wrong}
  BY <1>1 DEF Counted, Current
<1>5. IsFiniteSet(CountedBy(i))
  BY CountedIsFinite
<1>6. Cardinality(CountedBy(i) \union {i + 1}) = Cardinality(CountedBy(i)) + 1
  BY <1>2, <1>5, FS_AddElement
<1> QED  BY <1>3, <1>4, <1>6

LEMMA NearestIsNear ==
    ASSUME doc \in Document, locations \subseteq Stations, locations # {}
    PROVE  /\ Nearest \in {doc.distance[s] : s \in locations}
           /\ \A s \in locations : Nearest <= doc.distance[s]
<1> DEFINE D == {doc.distance[s] : s \in locations}
<1>1. \A s \in locations : doc.distance[s] \in Nat
  BY DEF Document
<1>2. D \in SUBSET Nat /\ D # {}
  BY <1>1
<1>3. \E d \in D : \A y \in D : d <= y
  BY ONLY <1>2, LeastElement
<1>4. \E d \in D : \A s \in locations : d <= doc.distance[s]
  BY <1>3
<1> QED  BY <1>4 DEF Nearest

LEMMA CountStep ==
    ASSUME RowInv, CountMeasurement
    PROVE  CountInv' /\ ReadInv'
<1>1. /\ stage = "count" /\ i < Size /\ doc \in Document /\ doc' = doc
      /\ i \in 0..Size /\ Size \in Nat /\ Size' = Size
      /\ locations \subseteq Stations /\ IsFiniteSet(locations)
      /\ doc.stationCount # Wrong /\ locations = LocatedBy(i)
      /\ \A k \in StationEntries : k <= i => doc.measurements[k].latitude # "wrong"
  BY DocumentFields DEF RowInv, DetailsInv, CountInv, CountMeasurement, Size
<1> DEFINE m == Current
           described == m.waveform /\ m.form = "station"
<1>2. i + 1 \in 1..Size /\ m \in Measurement /\ m = doc.measurements[i + 1]
  BY <1>1, DocumentFields DEF Current
<1>3. StationOf[m.stream] \in Stations
  BY <1>2, StationAssumption DEF Measurement
<1>4. details = [magnitude |-> doc.mw, distance |-> Unknown, gap |-> Unknown,
                 nStations |-> IF doc.stationCount = Absent THEN Unknown
                               ELSE doc.stationCount,
                 nObservations |-> Cardinality(CountedBy(i))]
  BY <1>1 DEF RowInv, CountInv
<1>5. CASE described /\ m.latitude = "wrong"
  <2>1. /\ stage' = "read" /\ locations' = locations
        /\ details' = [details EXCEPT !.nObservations = Unknown]
    BY <1>5 DEF CountMeasurement, Goto
  <2>2. /\ details'.magnitude = doc.mw /\ details'.nObservations = Unknown
        /\ details'.distance = Unknown /\ details'.gap = Unknown
        /\ details'.nStations = IF doc.stationCount = Absent THEN Unknown
                                ELSE doc.stationCount
    BY <1>4, <2>1
  <2>3. Interrupted /\ ~HaveDistances
    BY <1>1, <1>2, <1>5, LocatedNext DEF Interrupted, HaveDistances
  <2>4. ReadInv'
    BY <1>1, <2>2, <2>3, DocumentOnly DEF ReadInv, GivenOrUnknown
  <2> QED  BY <1>1, <2>1, <2>4 DEF CountInv
<1>6. CASE ~(described /\ m.latitude = "wrong")
  <2>1. /\ stage' = stage /\ i' = i + 1
        /\ details' = [details EXCEPT !.nObservations =
                            IF m.pathAndSiteCorrected \notin {Absent, Wrong}
                            THEN @ + 1 ELSE @]
        /\ locations' = locations \union IF described /\ m.latitude = "good"
                                         THEN {StationOf[m.stream]} ELSE {}
    BY <1>6 DEF CountMeasurement
  <2>2. locations' \subseteq Stations /\ IsFiniteSet(locations')
    BY <1>1, <1>3, <2>1, FS_AddElement
  <2>3. details' = [details EXCEPT !.nObservations = Cardinality(CountedBy(i + 1))]
    BY <1>1, <1>4, <2>1, CountedNext
  <2>4. CountedBy(i)' = CountedBy(i + 1) /\ LocatedBy(i)' = LocatedBy(i + 1)
    BY <1>1, <2>1 DEF CountedBy, Counted, LocatedBy, StationEntries
  <2>5. details' = [magnitude |-> doc.mw, distance |-> Unknown, gap |-> Unknown,
                    nStations |-> IF doc.stationCount = Absent THEN Unknown
                                  ELSE doc.stationCount,
                    nObservations |-> Cardinality(CountedBy(i + 1))]
    BY <1>4, <2>3
  <2>6. i' \in 0..Size
    BY <1>2, <2>1
  <2>7. locations' = LocatedBy(i + 1)
    BY <1>1, <2>1, LocatedNext
  <2>8. \A k \in StationEntries : k <= i' => doc.measurements[k].latitude # "wrong"
    BY <1>1, <1>2, <1>6, <2>1, LocatedNext
  <2>9. CountInv'
    BY <1>1, <2>1, <2>2, <2>4, <2>5, <2>6, <2>7, <2>8, DocumentOnly DEF CountInv
  <2> QED  BY <1>1, <2>1, <2>9 DEF ReadInv
<1> QED  BY <1>5, <1>6

LEMMA ComputeStep ==
    ASSUME RowInv, ComputeDistanceAndAzimuth
    PROVE  CountInv' /\ ReadInv'
<1>1. /\ stage = "count" /\ i = Size /\ doc \in Document
      /\ stage' = "read" /\ doc' = doc /\ locations' = locations
      /\ locations \subseteq Stations /\ IsFiniteSet(locations)
      /\ doc.stationCount # Wrong /\ locations = LocatedBy(i)
      /\ \A k \in StationEntries : k <= i => doc.measurements[k].latitude # "wrong"
      /\ details = [magnitude |-> doc.mw, distance |-> Unknown, gap |-> Unknown,
                    nStations |-> IF doc.stationCount = Absent THEN Unknown
                                  ELSE doc.stationCount,
                    nObservations |-> Cardinality(CountedBy(i))]
  BY DEF RowInv, DetailsInv, CountInv, ComputeDistanceAndAzimuth, Goto
<1>2. details.nObservations = Cardinality(Counted) /\ locations = Located
  BY <1>1, CountedIsFinite, LocatedIsFinite
<1>3. ~Interrupted
  BY <1>1, DocumentFields DEF Interrupted, StationEntries
<1>4. HaveDistances <=> ~(doc.latitude = "bad" \/ locations = {})
  BY <1>1, <1>2, <1>3 DEF HaveDistances, Document
<1>5. CASE doc.latitude = "bad" \/ locations = {}
  <2>1. details' = details
    BY <1>5 DEF ComputeDistanceAndAzimuth
  <2>2. GivenOrUnknown'
    BY <1>1, <1>2, <1>3, <1>4, <1>5, <2>1, DocumentOnly DEF GivenOrUnknown
  <2> QED  BY <1>1, <2>1, <2>2 DEF CountInv, ReadInv
<1>6. CASE ~(doc.latitude = "bad" \/ locations = {})
  <2>1. details' = [details EXCEPT !.distance = Nearest, !.gap = Gap(BackAzimuths)]
    BY <1>6 DEF ComputeDistanceAndAzimuth
  <2>2. Gap(BackAzimuths) = AzimuthalGap(Located) /\ AzimuthalGap(Located) \in 1..Circle
    BY <1>1, <1>2, <1>6, GapIsAzimuthalGap
  <2>3. /\ Nearest \in {doc.distance[s] : s \in Located}
        /\ \A s \in Located : Nearest <= doc.distance[s]
    BY <1>1, <1>2, <1>6, NearestIsNear
  <2>4. /\ details'.magnitude = doc.mw /\ details'.distance = Nearest
        /\ details'.gap = AzimuthalGap(Located)
        /\ details'.nStations = IF doc.stationCount = Absent THEN Unknown
                                ELSE doc.stationCount
        /\ details'.nObservations = Cardinality(Counted)
    BY <1>1, <1>2, <2>1, <2>2
  <2>5. GivenOrUnknown'
    BY <1>1, <1>3, <1>4, <1>6, <2>2, <2>3, <2>4, DocumentOnly DEF GivenOrUnknown
  <2> QED  BY <1>1, <2>4, <2>5 DEF CountInv, ReadInv
<1> QED  BY <1>5, <1>6

LEMMA ReadStep ==
    ASSUME RowInv, ReadMagnitude
    PROVE  CountInv' /\ ReadInv'
<1>1. /\ stage = "shown" /\ i = 0 /\ i' = i /\ doc \in Document
      /\ doc' = doc /\ locations' = locations /\ locations = {}
      /\ locations \subseteq Stations /\ IsFiniteSet(locations)
  BY DEF RowInv, DetailsInv, CountInv, ReadMagnitude
<1>2. Size' = Size /\ 0 \in 0..Size
  BY <1>1, DocumentFields DEF Size
<1>3. CASE doc.mw = Absent \/ doc.mw = Wrong
  <2>1. stage' = "read" /\ details' = NoDetails
    BY <1>3 DEF ReadMagnitude, Goto
  <2>2. details'.magnitude = -MaxMagnitude
    BY <2>1 DEF NoDetails
  <2> QED  BY <1>1, <2>1, <2>2 DEF CountInv, ReadInv
<1>4. CASE ~(doc.mw = Absent \/ doc.mw = Wrong) /\ doc.stationCount = Wrong
  <2>1. stage' = "read" /\ details' = [NoDetails EXCEPT !.magnitude = doc.mw]
    BY <1>4 DEF ReadMagnitude, Goto
  <2>2. /\ details'.magnitude = doc.mw
        /\ details'.distance = Unknown /\ details'.gap = Unknown
        /\ details'.nStations = Unknown /\ details'.nObservations = Unknown
    BY <2>1 DEF NoDetails
  <2>3. Interrupted /\ ~HaveDistances
    BY <1>4 DEF Interrupted, HaveDistances
  <2>4. GivenOrUnknown'
    BY <1>1, <1>4, <2>2, <2>3, DocumentOnly DEF GivenOrUnknown
  <2> QED  BY <1>1, <2>1, <2>2, <2>4 DEF CountInv, ReadInv
<1>5. CASE ~(doc.mw = Absent \/ doc.mw = Wrong \/ doc.stationCount = Wrong)
  <2>1. stage' = "count"
        /\ details' = [magnitude |-> doc.mw, distance |-> Unknown, gap |-> Unknown,
                       nStations |-> IF doc.stationCount = Absent THEN Unknown
                                     ELSE doc.stationCount,
                       nObservations |-> 0]
    BY <1>5 DEF ReadMagnitude, Goto, NoDetails
  <2>2. /\ Cardinality(CountedBy(0)) = 0 /\ LocatedBy(0) = {}
        /\ CountedBy(0)' = CountedBy(0) /\ LocatedBy(0)' = LocatedBy(0)
    BY <1>1, CountedIsFinite, LocatedIsFinite
       DEF CountedBy, Counted, Size, LocatedBy, StationEntries
  <2>3. CountedBy(i)' = CountedBy(0) /\ LocatedBy(i)' = {}
    BY <1>1, <2>2
  <2>4. \A k \in StationEntries : ~(k <= 0)
    BY <1>1, DocumentFields DEF StationEntries
  <2>5. CountInv'
    BY <1>1, <1>2, <1>5, <2>1, <2>2, <2>3, <2>4, DocumentOnly DEF CountInv
  <2> QED  BY <2>1, <2>5 DEF ReadInv
<1> QED  BY <1>3, <1>4, <1>5

LEMMA ShownStep == RowInv /\ Next => ShownInv'
<1> SUFFICES ASSUME RowInv, Next PROVE ShownInv'
  OBVIOUS
<1> DEFINE ValueOf(k) == [nr |-> k, residual |-> Residual(doc.measurements[k])]
<1>1. doc' = doc
  BY DEF Next, UnpackBasics, UnpackMeasurement, ShowStations, ReadMagnitude,
         CountMeasurement, ComputeDistanceAndAzimuth, MakeNetMag
<1>2. SpectralFit' = SpectralFit
  BY <1>1 DEF SpectralFit, Numbers
<1>3. \A k : Residual(doc.measurements[k])' = Residual(doc.measurements[k])
  BY <1>1 DEF Residual, FitPoints, PointAt, Numbers
<1>4. CASE UnpackBasics
  BY <1>2, <1>4 DEF UnpackBasics, Goto, ShownInv
<1>5. CASE UnpackMeasurement
  <2>1. spectra' = spectra /\ stage = "unpack" /\ stage' \in {"unpack", "thrown"}
    BY <1>5 DEF UnpackMeasurement, Goto
  <2> QED  BY <1>2, <2>1 DEF ShownInv, RowInv
<1>6. CASE ShowStations
  <2>1. spectra' = spectra /\ stage = "unpack" /\ stage' = "shown"
    BY <1>6 DEF ShowStations, Goto
  <2>2. shown' = {[stream |-> s, station |-> StationOf[s],
                   values |-> {ValueOf(k) : k \in ToSet(measured[s])}] :
                  s \in {s \in stationMap : measured[s] # <<>>}}
    BY <1>6 DEF ShowStations
  <2>3. \A k : ValueOf(k) = ValueOf(ValueOf(k).nr)
    OBVIOUS
  <2> HIDE DEF ValueOf
  <2>4. \A e \in shown' : \A v \in e.values : v = ValueOf(v.nr)
    BY <2>2, <2>3
  <2> QED  BY <1>2, <1>3, <2>1, <2>4 DEF ShownInv, RowInv, ValueOf
<1>7. CASE ReadMagnitude \/ CountMeasurement \/ ComputeDistanceAndAzimuth \/ MakeNetMag
  <2>1. /\ spectra' = spectra /\ shown' = shown
        /\ stage \notin {"row", "unpack", "thrown", "aborted"}
    BY <1>7 DEF ReadMagnitude, CountMeasurement, ComputeDistanceAndAzimuth,
                MakeNetMag, unpackVars
  <2> QED  BY <1>2, <1>3, <2>1 DEF ShownInv, RowInv
<1> QED  BY <1>4, <1>5, <1>6, <1>7 DEF Next

LEMMA RowStep == RowInv /\ [Next]_vars => RowInv'
<1> SUFFICES ASSUME RowInv, [Next]_vars PROVE RowInv'
  OBVIOUS
<1>1. DetailsInv'
  BY DetailsStep DEF RowInv
<1>2. CASE UnpackBasics \/ UnpackMeasurement
  <2>1. /\ locations' = locations /\ stage' \in {"unpack", "thrown", "aborted"}
        /\ stage \in {"row", "unpack"}
    BY <1>2 DEF UnpackBasics, UnpackMeasurement, Goto, acceptVars, RowInv
  <2>2. ShownInv'
    BY <1>2, ShownStep DEF Next
  <2> QED  BY <1>1, <2>1, <2>2 DEF RowInv, CountInv, ReadInv, StoredInv
<1>3. CASE ShowStations
  <2>1. /\ locations' = locations /\ stage' = "shown" /\ i' = 0
        /\ stage = "unpack"
    BY <1>3 DEF ShowStations, Goto, acceptVars
  <2>2. ShownInv'
    BY <1>3, ShownStep DEF Next
  <2> QED  BY <1>1, <2>1, <2>2 DEF RowInv, CountInv, ReadInv, StoredInv
<1>4. CASE ReadMagnitude \/ CountMeasurement \/ ComputeDistanceAndAzimuth
  <2>1. stage' # "stored"
    BY <1>4 DEF ReadMagnitude, CountMeasurement, ComputeDistanceAndAzimuth, Goto
  <2>2. ShownInv'
    BY <1>4, ShownStep DEF Next
  <2>3. CountInv' /\ ReadInv'
    BY <1>4, ReadStep, CountStep, ComputeStep
  <2> QED  BY <1>1, <2>1, <2>2, <2>3 DEF RowInv, StoredInv
<1>5. CASE MakeNetMag
  <2>1. /\ stage = "read" /\ stage' \in {"stored", "refused"}
        /\ details' = details /\ locations' = locations /\ doc' = doc
        /\ stage' = "stored" => /\ details.magnitude > -MaxMagnitude
                                /\ details.magnitude < MaxMagnitude
                                /\ netmag' = Columns(details)
    BY <1>5 DEF MakeNetMag, Goto
  <2>2. ShownInv'
    BY <1>5, ShownStep DEF Next
  <2>3. GivenOrUnknown => GivenOrUnknown'
    BY <2>1, DocumentOnly DEF GivenOrUnknown
  <2>4. ReadInv'
    BY <2>1, <2>3 DEF RowInv, ReadInv
  <2>5. StoredInv'
    BY <2>1 DEF StoredInv, Columns, SetIf
  <2> QED  BY <1>1, <2>1, <2>2, <2>4, <2>5 DEF RowInv, CountInv
<1>6. CASE UNCHANGED vars
  <2>1. /\ doc' = doc /\ stage' = stage /\ i' = i /\ spectra' = spectra
        /\ shown' = shown /\ details' = details /\ locations' = locations
        /\ netmag' = netmag
    BY <1>6 DEF vars, unpackVars, acceptVars
  <2>2. /\ SpectralFit' = SpectralFit
        /\ \A k : Residual(doc.measurements[k])' = Residual(doc.measurements[k])
    BY <2>1 DEF SpectralFit, Numbers, Residual, FitPoints, PointAt
  <2>3. ShownInv'
    BY <2>1, <2>2 DEF RowInv, ShownInv
  <2>4. /\ CountedBy(i)' = CountedBy(i) /\ LocatedBy(i)' = LocatedBy(i)
        /\ GivenOrUnknown => GivenOrUnknown'
    BY <2>1, DocumentOnly DEF CountedBy, LocatedBy, GivenOrUnknown
  <2>5. CountInv'
    BY <2>1, <2>4, DocumentOnly DEF RowInv, CountInv
  <2>6. ReadInv' /\ StoredInv'
    BY <2>1, <2>4 DEF RowInv, ReadInv, StoredInv, Columns, SetIf
  <2> QED  BY <1>1, <2>3, <2>5, <2>6 DEF RowInv
<1> QED  BY <1>2, <1>3, <1>4, <1>5, <1>6 DEF Next

LEMMA RowInit == Init => RowInv
<1> SUFFICES ASSUME Init PROVE RowInv
  OBVIOUS
<1>1. DetailsInv
  BY DetailsInit
<1>2. locations = {} /\ stage = "row"
  BY DEF Init
<1>3. IsFiniteSet(locations)
  BY <1>2, FS_EmptySet
<1> QED  BY <1>1, <1>2, <1>3 DEF RowInv, ShownInv, CountInv, ReadInv, StoredInv

(* The curves are five different entries of the document, and with one fit *)
(* every residual is the distance from the fit that is shown, whatever     *)
(* other curves the document lists before or after it.                     *)
THEOREM ResidualsAreOfTheFitHolds == Spec => []ResidualsAreOfTheFit
<1>1. RowInv => ResidualsAreOfTheFit
  <2> SUFFICES ASSUME RowInv, stage = "shown" PROVE ResidualsAreOfTheFit
    BY DEF ResidualsAreOfTheFit
  <2>1. /\ doc \in Document /\ spectra = SpectralFit
        /\ \A e \in shown : \A v \in e.values :
            v = [nr |-> v.nr, residual |-> Residual(doc.measurements[v.nr])]
    BY DEF RowInv, DetailsInv, ShownInv
  <2>2. ASSUME NEW e \in shown, NEW v \in e.values, v.residual # Absent,
               Cardinality(Numbers("FIT")) = 1
        PROVE  \E p \in ToSet(doc.fits[spectra["fit"]].points) :
                    /\ p.x = doc.measurements[v.nr].frequency
                    /\ v.residual =
                        doc.measurements[v.nr].pathAndSiteCorrected - p.y
    <3>1. v.residual = Residual(doc.measurements[v.nr])
      BY <2>1
    <3>2. Numbers("FIT") = {spectra["fit"]}
      BY <2>1, <2>2, SpectralFitIsRight
    <3> DEFINE m == doc.measurements[v.nr]
               f == spectra["fit"]
    <3>3. Residual(m) # Absent /\ Numbers("FIT") = {f}
      BY <2>2, <3>1, <3>2
    <3> HIDE DEF m, f
    <3>4. \E p \in ToSet(doc.fits[f].points) :
            p.x = m.frequency /\ Residual(m) = m.pathAndSiteCorrected - p.y
      BY <2>1, <3>3, ResidualOfTheFit
    <3> QED  BY <3>1, <3>4 DEF m, f
  <2>3. \A l, k \in Labels : l # k /\ spectra[l] # 0 => spectra[l] # spectra[k]
    BY <2>1, SpectralFitIsRight
  <2> QED  BY <2>2, <2>3 DEF ResidualsAreOfTheFit
<1> QED  BY RowInit, RowStep, <1>1, PTL DEF Spec

(* Whatever stations a document lists, in whatever order and direction,    *)
(* and whatever of it is missing or of the wrong type: each column is what *)
(* the document gives or null, the distance that of its nearest station    *)
(* and the gap that of the widest arc without one.                         *)
THEOREM ColumnsAreRightHolds == Spec => []ColumnsAreRight
<1>1. RowInv => ColumnsAreRight
  <2> SUFFICES ASSUME RowInv, stage = "stored" PROVE ColumnsAreRight
    BY DEF ColumnsAreRight
  <2>1. /\ doc \in Document /\ doc.mw \in Int /\ doc.stationCount \in Int
        /\ \A s \in Stations : doc.distance[s] \in Nat
        /\ Located \subseteq Stations /\ IsFiniteSet(Located)
    BY LocatedIsFinite DEF RowInv, DetailsInv, Document
  <2>2. /\ netmag = Columns(details)
        /\ details.magnitude > -MaxMagnitude /\ details.magnitude < MaxMagnitude
        /\ details.magnitude \in {-MaxMagnitude, doc.mw}
        /\ details.magnitude # -MaxMagnitude => GivenOrUnknown
    BY DEF RowInv, ReadInv, StoredInv
  <2>3. GivenOrUnknown /\ details.magnitude = doc.mw
    BY <2>1, <2>2 DEF MaxMagnitude
  <2>4. /\ netmag.magnitude = details.magnitude
        /\ netmag.nsta = SetIf(details.nStations, details.nStations >= 0)
        /\ netmag.nobs = SetIf(details.nObservations, details.nObservations >= 0)
        /\ netmag.gap = SetIf(details.gap, details.gap >= 0 /\ details.gap < Circle)
        /\ netmag.distance = SetIf(details.distance, details.distance >= 0)
    BY <2>2 DEF Columns
  <2>5. ~ (Unknown >= 0) /\ ~ (Absent >= 0) /\ ~ (Wrong >= 0)
    BY DEF Unknown, Absent, Wrong
  <2>6. netmag.nsta = IF doc.stationCount >= 0 THEN doc.stationCount ELSE Null
    BY <2>3, <2>4, <2>5 DEF GivenOrUnknown, SetIf
  <2>7. netmag.nobs = Null <=> Interrupted
    <3>1. Cardinality(Counted) \in Nat
      BY <2>1, CountedIsFinite
    <3>2. Cardinality(Counted) >= 0 /\ Cardinality(Counted) # Null
      BY <3>1 DEF Null
    <3> QED  BY <2>3, <2>4, <2>5, <3>2 DEF GivenOrUnknown, SetIf
  <2>8. netmag.gap =
            IF ~HaveDistances \/ AzimuthalGap(Located) = Circle
            THEN Null ELSE AzimuthalGap(Located)
    <3>1. CASE ~HaveDistances
      BY <2>3, <2>4, <2>5, <3>1 DEF GivenOrUnknown, SetIf
    <3>2. CASE HaveDistances
      <4>1. details.gap = AzimuthalGap(Located)
        BY <2>3, <3>2 DEF GivenOrUnknown
      <4>2. AzimuthalGap(Located) \in 1..Circle
        BY <2>3, <3>2, <4>1 DEF GivenOrUnknown
      <4>3. AzimuthalGap(Located) >= 0
            /\ (AzimuthalGap(Located) < Circle <=> AzimuthalGap(Located) # Circle)
        BY <4>2 DEF Circle
      <4> QED  BY <2>4, <3>2, <4>1, <4>3 DEF SetIf
    <3> QED  BY <3>1, <3>2
  <2>9. IF HaveDistances
        THEN /\ netmag.distance \in {doc.distance[s] : s \in Located}
             /\ \A s \in Located : netmag.distance <= doc.distance[s]
        ELSE netmag.distance = Null
    <3>1. CASE HaveDistances
      <4>1. /\ details.distance \in {doc.distance[s] : s \in Located}
            /\ \A s \in Located : details.distance <= doc.distance[s]
        BY <2>3, <3>1 DEF GivenOrUnknown
      <4>2. details.distance >= 0
        BY <2>1, <4>1
      <4> QED  BY <2>4, <3>1, <4>1, <4>2 DEF SetIf
    <3>2. CASE ~HaveDistances
      BY <2>3, <2>4, <2>5, <3>2 DEF GivenOrUnknown, SetIf
    <3> QED  BY <3>1, <3>2
  <2> QED  BY <2>2, <2>3, <2>4, <2>6, <2>7, <2>8, <2>9 DEF ColumnsAreRight
<1> QED  BY RowInit, RowStep, <1>1, PTL DEF Spec

(* The number of observations stored is that of the values the document    *)
(* gives, and of the values shown unless one could not be shown.           *)
THEOREM StoredIsShownHolds == Spec => []StoredIsShown
<1>1. RowInv => StoredIsShown
  <2> SUFFICES ASSUME RowInv, stage = "stored", netmag.nobs # Null
               PROVE  StoredIsShown
    BY DEF StoredIsShown
  <2>1. doc \in Document /\ EveryValueShown
        /\ \A e \in shown : \A v \in e.values :
            v = [nr |-> v.nr, residual |-> Residual(doc.measurements[v.nr])]
    BY DEF RowInv, DetailsInv, ShownInv
  <2>2. netmag.nobs = Cardinality(Counted)
    <3>0. /\ doc.mw \in Int /\ details.magnitude > -MaxMagnitude
          /\ details.magnitude # -MaxMagnitude => GivenOrUnknown
      BY <2>1 DEF RowInv, ReadInv, StoredInv, Document
    <3>1. /\ netmag.nobs = SetIf(details.nObservations, details.nObservations >= 0)
          /\ details.nObservations \in {Unknown, Cardinality(Counted)}
      <4>1. GivenOrUnknown
        BY <3>0 DEF MaxMagnitude
      <4> QED  BY <4>1 DEF GivenOrUnknown, RowInv, StoredInv, Columns
    <3>2. ~ (Unknown >= 0)
      BY DEF Unknown
    <3> QED  BY <3>1, <3>2 DEF SetIf
  <2>3. IsFiniteSet(Counted) /\ Showable \in SUBSET Counted
    BY <2>1, CountedIsFinite DEF Showable
  <2>4. Cardinality(Showable) <= Cardinality(Counted) /\ IsFiniteSet(Showable)
        /\ Cardinality(Showable) \in Nat /\ Cardinality(Counted) \in Nat
    BY <2>3, FS_Subset, FS_CardinalityType
  <2> DEFINE ValueOf(k) == [nr |-> k, residual |-> Residual(doc.measurements[k])]
             U == UNION {e.values : e \in shown}
             f == [k \in Showable |-> ValueOf(k)]
  <2>5. \A k : ValueOf(k).nr = k
    OBVIOUS
  <2>6. \A e \in shown : \A v \in e.values : v = ValueOf(v.nr)
    BY <2>1
  <2>7. UNION {{v.nr : v \in e.values} : e \in shown} = Showable
    BY <2>1 DEF EveryValueShown
  <2> HIDE DEF ValueOf
  <2>8. \A v \in U : v.nr \in Showable /\ v = ValueOf(v.nr)
    BY <2>6, <2>7
  <2>9. ASSUME NEW k \in Showable PROVE ValueOf(k) \in U
    <3>1. PICK e \in shown : k \in {v.nr : v \in e.values}
      BY <2>7
    <3>2. PICK v \in e.values : v.nr = k
      BY <3>1
    <3> QED  BY <2>6, <3>1, <3>2
  <2>10. f \in [Showable -> U] /\ DOMAIN f = Showable
         /\ \A k \in Showable : f[k] = ValueOf(k)
    BY <2>9
  <2> HIDE DEF f, U
  <2>11. f \in Bijection(Showable, U)
    <3>1. \A k, j \in Showable : f[k] = f[j] => k = j
      BY <2>5, <2>10
    <3>2. \A v \in U : \E k \in Showable : f[k] = v
      BY <2>8, <2>10
    <3> QED  BY <2>10, <3>1, <3>2
             DEF Bijection, Injection, Surjection, IsInjective
  <2>12. Cardinality(U) = Cardinality(Showable)
    <3>1. ExistsBijection(Showable, U)
      BY <2>11 DEF ExistsBijection
    <3> QED  BY <2>4, <3>1, FS_Bijection
  <2> QED  BY <2>2, <2>4, <2>12 DEF StoredIsShown, U
<1> QED  BY RowInit, RowStep, <1>1, PTL DEF Spec
=============================================================================
