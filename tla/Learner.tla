------------------------------ MODULE Learner ------------------------------
(***************************************************************************)
(* The WAF's adaptive learner: a window of samples for every hour of the   *)
(* day, a threshold learned from all of them now and then, and the         *)
(* challenge it recommends for the rate a request comes with.  A mean is   *)
(* kept as a sum over a number of samples.                                 *)
(***************************************************************************)
EXTENDS Integers, Sequences, FiniteSetsExt

CONSTANTS
  Hours,          \* hours of the day (24)
  Rates,          \* requests a second that are sampled and asked about
  MaxSamples,     \* samples in an hour's window (720)
  FewSamples,     \* an hour with no more does not count when calibrating (10)
  MinPoints,      \* samples before the first calibration (3600)
  MinThreshold,   \* smallest threshold (100)
  MaxPoints       \* bound on the samples taken

ASSUME LearnerAssumption ==
  /\ Hours # {} /\ Rates \subseteq Nat /\ MaxSamples \in Nat \ {0}
  /\ FewSamples \in Nat /\ MinPoints \in Nat /\ MinThreshold \in Nat \ {0} /\ MaxPoints \in Nat

VARIABLES
  hour,
  samples,        \* per hour: Samples of its profile
  maxRPS,         \* per hour: the highest sample ever
  dataPoints,
  learned         \* LearnedRPSThreshold, 0 until IsCalibrated

learnerVars == <<hour, samples, maxRPS, dataPoints, learned>>

LearnerInit ==
  /\ hour \in Hours
  /\ samples = [h \in Hours |-> <<>>] /\ maxRPS = [h \in Hours |-> 0]
  /\ dataPoints = 0 /\ learned = 0

\* meanFloat is this over the length.
Total(data) ==
  LET sum[i \in 0 .. Len(data)] == IF i = 0 THEN 0 ELSE sum[i - 1] + data[i] IN sum[Len(data)]

(* calibrate: the threshold is the greater of twice the peak and the mean  *)
(* of the hourly means plus three standard deviations, which for values    *)
(* between 0 and the peak is at most two and a half peaks.                 *)
calibrate(window, peaks) ==
  LET counted == {h \in Hours : Len(window[h]) > FewSamples}
      peak == Max({peaks[h] : h \in counted})
      floor(t) == Max({t, MinThreshold})
  IN  IF counted = {} THEN {learned} ELSE floor(2 * peak) .. floor((5 * peak) \div 2)

(* RecordSample: the window slides; the first calibration waits for enough *)
(* samples, later ones come every six hours.                               *)
RecordSample(rps) ==
  /\ dataPoints < MaxPoints /\ dataPoints' = dataPoints + 1
  /\ LET window == samples[hour]
         kept == IF Len(window) >= MaxSamples THEN Tail(window) ELSE window
     IN  samples' = [samples EXCEPT ![hour] = Append(kept, rps)]
  /\ maxRPS' = [maxRPS EXCEPT ![hour] = Max({@, rps})]
  /\ \/ learned' \in IF dataPoints' > MinPoints THEN calibrate(samples', maxRPS') ELSE {learned}
     \/ learned # 0 /\ UNCHANGED learned   \* not six hours yet
  /\ UNCHANGED hour

NextHour == hour' \in Hours /\ UNCHANGED <<samples, maxRPS, dataPoints, learned>>

LearnerNext == NextHour \/ \E rps \in Rates : RecordSample(rps)

LearnerSpec == LearnerInit /\ [][LearnerNext]_learnerVars

\* The level for a rate of rps where sum over n was expected.
LevelFor(rps, sum, n) ==
  IF rps * n > 10 * sum THEN 2 ELSE IF rps * n > 3 * sum THEN 1 ELSE 0

\* Mutant: GetDecision without the case of an hour that has seen nothing.
GetDecisionPlain(rps) ==
  IF learned = 0 THEN 0 ELSE LevelFor(rps, Total(samples[hour]), Len(samples[hour]))

\* GetDecision: what ChallengeLevel becomes; an hour without traffic expects a third of the threshold.
GetDecision(rps) ==
  IF learned = 0 THEN 0   \* not calibrated
  ELSE IF Total(samples[hour]) = 0 THEN LevelFor(rps, learned, 3)
  ELSE LevelFor(rps, Total(samples[hour]), Len(samples[hour]))

(* Nobody is challenged on account of the learner in traffic like that it  *)
(* has learned: a raised level needs more than three times the least of    *)
(* the hour's samples, and in an hour that has been idle so far more than  *)
(* the learned threshold, which is at least twice the peak of every hour   *)
(* it was learned from (adaptive.go, RecordSample, calibrate, GetDecision).*)
ChallengeNeedsSpike ==
  \A rps \in Rates :
    GetDecision(rps) > 0 =>
      /\ \A i \in DOMAIN samples[hour] : rps > 3 * Min({samples[hour][j] : j \in DOMAIN samples[hour]})
      /\ Total(samples[hour]) = 0 => rps > MinThreshold /\ rps > learned
=============================================================================
