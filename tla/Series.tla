------------------------------- MODULE Series -------------------------------
(***************************************************************************)
(* What the reports of successive scans say together: the trend of one     *)
(* metric of a cluster, its break from its own past, the drift ledger of   *)
(* its flag, how persistent the finding on it is, and the forecast of the  *)
(* fleet's score.                                                          *)
(*                                                                         *)
(* Scans are recorded one after the other.  Every fit is done on integers: *)
(* a slope is Slope/Spread, so that each threshold is a comparison of      *)
(* products.                                                               *)
(***************************************************************************)
EXTENDS Norms, SequencesExt

CONSTANTS
    Observations, \* what the report of one scan may say
    Cadences,     \* the sequences of gaps between the scans of a history
    Unread,       \* no value: the run was blind or lacks the field; the fleet was not graded
    HigherIsBad   \* the polarity of the metric

\* A value off the fleet norm that no cohort explains is flagged (flagged, drift.go);
\* the outlier finding on it (outlierFindings) is there only then, unless dropRedundant
\* has dropped it.  The score is the fleet's.
ASSUME SeriesAssumption ==
    /\ HigherIsBad \in BOOLEAN
    /\ \A o \in Observations :
           /\ o.value \in Nat \cup {Unread} /\ o.score \in (0 .. 100) \cup {Unread}
           /\ o.flagged \in BOOLEAN /\ o.found \in BOOLEAN
           /\ (o.found => o.flagged) /\ (o.flagged => o.value # Unread)

Observation(value, flagged, found, score) ==
    [value |-> value, flagged |-> flagged, found |-> found, score |-> score]

VARIABLES
    cadence,      \* the gaps between the scans
    history       \* the scans, oldest first: when, and what their reports say

seriesVars == <<cadence, history>>

------------------------------------------------------------------------------
(* Points and sums. *)

\* seriesFor: the readings, oldest first.
seriesFor(h) == SelectSeq(h, LAMBDA e : e.value # Unread)

sum(s) == FoldLeft(LAMBDA a, b : a + b, 0, s)

values(points) == [i \in DOMAIN points |-> points[i].value]

\* Least squares over points: n times the sums of products about the means.
fit(points) ==
    LET n == Len(points)
        xs == [i \in 1 .. n |-> points[i].at - points[1].at]
        ys == values(points)
        product(a, b) == [i \in 1 .. n |-> a[i] * b[i]]
    IN [slope |-> n * sum(product(xs, ys)) - sum(xs) * sum(ys),
        spread |-> n * sum(product(xs, xs)) - sum(xs) * sum(xs),
        scatter |-> n * sum(product(ys, ys)) - sum(ys) * sum(ys),
        total |-> sum(ys), first |-> sum(xs), span |-> xs[n]]

abs(x) == IF x < 0 THEN -x ELSE x

\* R-squared of at least a quarter.
explains(f) == f.scatter > 0 /\ 4 * f.slope * f.slope >= f.spread * f.scatter

------------------------------------------------------------------------------
(* trend.go *)
minTrendSample == 5

\* A slope of at least five hundredths of the mean per scan, an R-squared of at least
\* a quarter, and a t-statistic of at least two.
steep(f, n) == f.total > 0 /\ 20 * abs(f.slope) * f.span * n >= f.spread * (n - 1) * f.total

\* A t-statistic of at least one.
LooselySignificant(f, n) == (n - 2) * f.slope * f.slope >= f.spread * f.scatter - f.slope * f.slope

significant(f, n) == (n - 2) * f.slope * f.slope >= 4 * (f.spread * f.scatter - f.slope * f.slope)

fitDirection(points, upIsBad) ==
    LET n == Len(points)
        f == fit(points)
    IN IF n < minTrendSample \/ f.spread = 0 \/ ~steep(f, n) \/ ~explains(f) \/ ~significant(f, n)
       THEN "stable"
       ELSE IF (f.slope > 0) = upIsBad THEN "worsening" ELSE "improving"

\* The trend of the cluster's metric; none below the sample.
ComputeClusterTrends(h) ==
    LET points == seriesFor(h)
    IN IF Len(points) < minTrendSample THEN {} ELSE {fitDirection(points, HigherIsBad)}

\* The metric read as the number of distinct values in the fleet: a scan without any has no point.
ComputeFleetTrends(h) ==
    LET points == SelectSeq(seriesFor(h), LAMBDA e : e.value > 0)
    IN IF Len(points) < 2 THEN {} ELSE {fitDirection(points, TRUE)}

trendSeverity(direction) == IF direction = "worsening" THEN "warning" ELSE "info"

GenerateTrendFindings(trends) == {trendSeverity(d) : d \in trends \ {"stable"}}

------------------------------------------------------------------------------
(* changepoint.go *)
minSelfDriftBaseline == 5

minSelfDriftSample == minSelfDriftBaseline + 1

\* The first split with the largest weighted difference of the means.
changePointIndex(vals) ==
    LET n == Len(vals)
        gap(k) == k * sum(SubSeq(vals, k + 1, n)) - (n - k) * sum(SubSeq(vals, 1, k))
        beats(k, j) == gap(k) * gap(k) * j * (n - j) - gap(j) * gap(j) * k * (n - k)
        splits == minSelfDriftBaseline .. n - 1
    IN CHOOSE k \in splits : \A j \in splits : beats(k, j) > 0 \/ (beats(k, j) = 0 /\ k <= j)

\* Beyond 3.5 MADs of the past, or half of it away when the past was flat.
DetectSelfDrift(h) ==
    LET vals == values(seriesFor(h))
        n == Len(vals)
        k == changePointIndex(vals)
        past == SubSeq(vals, 1, k)
        x == 2 * sum(SubSeq(vals, k + 1, n)) - (n - k) * Median2(past)
        mad == MAD4(past)
        far == IF mad > 0 THEN 1349 * abs(x) >= 3500 * (n - k) * mad
               ELSE 2 * abs(x) >= (n - k) * Max({Median2(past), 2})
    IN IF n < minSelfDriftSample \/ ~far THEN {}
       ELSE {IF (x > 0) = HigherIsBad THEN "worsening" ELSE "improving"}

------------------------------------------------------------------------------
(* persistence.go and drift.go *)
present(h) == Cardinality({i \in DOMAIN h : h[i].found})

\* The scans since the last one without the finding.
recentStreak(h) == Len(h) - Max({0} \cup {i \in DOMAIN h : ~h[i].found})

persistenceClass(count, total) ==
    IF 10 * count >= 7 * total THEN "chronic"
    ELSE IF 10 * count <= 3 * total THEN "transient" ELSE "intermittent"

ComputePersistence(h) ==
    IF present(h) = 0 THEN {}
    ELSE {[present |-> present(h), streak |-> recentStreak(h), class |-> persistenceClass(present(h), Len(h))]}

\* The flag gained or lost between the first scan and the last, at the scan where
\* it last flipped.
flagChanges(h) ==
    LET last == Len(h)
        flips == {i \in 2 .. last : h[i].flagged # h[i - 1].flagged}
    IN IF last < 2 \/ h[1].flagged = h[last].flagged THEN {}
       ELSE {[gained |-> h[last].flagged, scan |-> Max(flips)]}

movedFields(h) == IF Len(h) < 2 \/ h[1].value = h[Len(h)].value THEN {} ELSE {<<h[1].value, h[Len(h)].value>>}

DriftLedger(h) == [moved |-> movedFields(h), flags |-> flagChanges(h)]

------------------------------------------------------------------------------
(* forecast.go, over the scores of the graded scans, the times as hours.  The *)
(* band around the prediction is left out.                                    *)
minForecastPoints == 4

\* fleetScoreHistory: the graded scans and their scores.
fleetScoreHistory(h) ==
    LET graded == SelectSeq(h, LAMBDA e : e.score # Unread)
    IN [i \in DOMAIN graded |-> [at |-> graded[i].at, value |-> graded[i].score]]

medianGap(points) ==
    LET gaps == [i \in 1 .. Len(points) - 1 |-> points[i + 1].at - points[i].at]
        mid == ranked(gaps, Len(gaps) \div 2 + 1)
    IN IF mid <= 0 THEN 1 ELSE mid

ForecastFleetScore(points) ==
    LET n == Len(points)
        f == fit(points)
        x == f.span + medianGap(points)
        top == IF f.spread = 0 THEN f.total ELSE f.total * f.spread + f.slope * (n * x - f.first)
        bottom == IF f.spread = 0 THEN n ELSE n * f.spread
        rounded == (2 * Max({0, Min({100 * bottom, top})}) + bottom) \div (2 * bottom)
    IN IF n < minForecastPoints THEN {}
       ELSE {[predicted |-> rounded, sufficient |-> f.spread # 0 /\ (explains(f) \/ 10 * abs(f.slope) > f.spread)]}

------------------------------------------------------------------------------
SeriesStart(gaps) ==
    /\ cadence = gaps
    /\ history = <<>>

SeriesInit == \E gaps \in Cadences : SeriesStart(gaps)

\* The series with one more scan, at its time.
RecordScan(o) ==
    /\ Len(history) < Len(cadence)
    /\ history' = Append(history, [at |-> sum(SubSeq(cadence, 1, Len(history) + 1)), value |-> o.value,
                                   flagged |-> o.flagged, found |-> o.found, score |-> o.score])
    /\ UNCHANGED cadence

SeriesNext == \E o \in Observations : RecordScan(o)

SeriesSpec == SeriesInit /\ [][SeriesNext]_seriesVars

------------------------------------------------------------------------------
(* Properties *)
Even(points) ==
    \A i \in 2 .. Len(points) - 1 : points[i + 1].at - points[i].at = points[i].at - points[i - 1].at

\* All readings but one agree.
Bump(points) ==
    \E i \in DOMAIN points : Cardinality({points[j].value : j \in DOMAIN points \ {i}}) = 1

moving(h) == ComputeClusterTrends(h) \ {"stable"}

\* A single bump of evenly spaced scans is no trend ("so a single transient bump does
\* not flip the direction", fitDirection), and a metric that never moved has not
\* broken from its past (DetectSelfDrift).
QuietSeriesStayQuiet ==
    LET points == seriesFor(history)
    IN /\ Even(points) /\ Bump(points) => moving(history) = {}
       /\ DetectSelfDrift(history) # {} => Cardinality(Range(values(points))) > 1

lastScans(h, w) == SubSeq(h, Len(h) - w + 1, Len(h))

\* The streak of a finding (ComputePersistence) never reaches back beyond the scan where
\* the ledger says its flag was gained, and is over when the flag was lost, whatever
\* window of scans the ledger looks at (DriftLedger), although findings of flagged values
\* may be missing from any scan.
StreakWithinFlag ==
    \A w \in 2 .. Len(history) :
        \A g \in DriftLedger(lastScans(history, w)).flags : \A p \in ComputePersistence(history) :
            p.streak <= (IF g.gained THEN w - g.scan + 1 ELSE 0)

\* Between any two scans the score moves as fast as between the first two.
OnLine(points) ==
    \A i \in 1 .. Len(points) - 1 :
        (points[i + 1].value - points[i].value) * (points[2].at - points[1].at)
            = (points[2].value - points[1].value) * (points[i + 1].at - points[i].at)

\* Scores on a line are forecast to go on along it, within 0 to 100, and never called a
\* trend when flat; scores that never fell are not forecast below their mean, nor scores
\* that never rose above it (ForecastFleetScore).
ForecastFollowsScores ==
    LET points == fleetScoreHistory(history)
        n == Len(points)
        unit == points[2].at - points[1].at
        next == points[n].value * unit + (points[2].value - points[1].value) * medianGap(points)
        within == Max({0, Min({100 * unit, next})})
        aboveMean(p) == 2 * n * p - 2 * sum(values(points))
    IN \A fc \in ForecastFleetScore(points) :
           /\ OnLine(points) => 2 * abs(fc.predicted * unit - within) <= unit
           /\ Cardinality(Range(values(points))) = 1 => ~fc.sufficient
           /\ (\A i \in 2 .. n : points[i].value >= points[i - 1].value) => aboveMean(fc.predicted) >= -n
           /\ (\A i \in 2 .. n : points[i].value <= points[i - 1].value) => aboveMean(fc.predicted) <= n

\* What the series tell an operator follows from what the scans saw.
SeriesSound == QuietSeriesStayQuiet /\ StreakWithinFlag /\ ForecastFollowsScores
=============================================================================
