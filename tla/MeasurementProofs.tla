------------------------- MODULE MeasurementProofs -------------------------
(***************************************************************************)
(* What makes a measurement one can trust, for every value of the          *)
(* constants: the rig it runs on is its own, nothing of it is left behind, *)
(* and the runs implement RigOwner (NetnsRig); the marker that ends a ramp *)
(* names the score (RampScore); accepted evidence of loss is from inside   *)
(* the window (LossEvidence); a load that was offered as planned is never  *)
(* refused for its counts (OfferedLoad); and what is merged and judged is  *)
(* what the processes counted (MetricsMerge).  The five share no state,    *)
(* and each part below has an inductive invariant of its own.              *)
(***************************************************************************)
EXTENDS NetnsRig, RampScore, LossEvidence, OfferedLoad, MetricsMerge, NumberProofs

-----------------------------------------------------------------------------
(* The score of a ramp                                                     *)

LEMMA LevelsType == Levels \in Nat \ {0} /\ Phases = 0..(Levels - 1)
<1>1. /\ TotalConns - StartConns \in Nat /\ StepConns \in Nat \ {0}
  BY RampAssumption
<1>2. CeilDiv(TotalConns - StartConns, StepConns) \in Nat
  <2> DEFINE a == TotalConns - StartConns + StepConns - 1
  <2>1. a \in Nat  BY <1>1
  <2>2. CASE StepConns = 1
    <3>1. a \div 1 = a  BY <2>1
    <3> QED BY <2>1, <2>2, <3>1 DEF CeilDiv
  <2>3. CASE StepConns # 1
    <3> DEFINE s == StepConns
               q == a \div s
    <3>1. s \in Nat /\ s > 1  BY <1>1, <2>3
    <3> HIDE DEF a, s
    <3>2. q \in Int /\ a % s \in 0..(s - 1) /\ a = s * q + (a % s)  BY <2>1, <3>1
    <3> HIDE DEF q
    <3>3. q >= 0
      <4> SUFFICES ASSUME q <= -1 PROVE FALSE  BY <3>2
      <4>1. s * (q + 1) <= 0 /\ s * (q + 1) = s * q + s  BY <3>1, <3>2
      <4> QED BY <2>1, <3>1, <3>2, <4>1
    <3>4. CeilDiv(TotalConns - StartConns, StepConns) = q  BY DEF CeilDiv, q, a, s
    <3> QED BY <3>2, <3>3, <3>4
  <2> QED BY <2>2, <2>3
<1> QED BY <1>2 DEF Levels, LevelCount, Phases

RampTypes ==
  /\ snapshot \in [Endpoints -> [Phases -> {"none", "partial", "whole"}]]
  /\ content \in [Phases -> {"none", "ok", "break", "error"}]
  /\ level \in [Endpoints -> Phases]
  /\ endpoint \in [Endpoints -> {"running", "writing", "boundary", "stopped", "dead"}]
  /\ watchAt \in 0..Levels /\ watching \in {"on", "publishing", "off"}
  /\ marker \in Phases \cup {-1}

(* An endpoint has the snapshots of the levels behind it and none of those  *)
(* ahead, and has stopped only for the marker or at the end.                *)
Progress(e) ==
  /\ \A i \in Phases : (i > level[e] \/ (i = level[e] /\ endpoint[e] = "running")) =>
                         snapshot[e][i] = "none"
  /\ \A i \in Phases : (i < level[e] \/ (i = level[e] /\ endpoint[e] \in {"boundary", "stopped"})) =>
                         snapshot[e][i] = "whole"
  /\ endpoint[e] = "writing" => snapshot[e][level[e]] = "partial"
  /\ endpoint[e] = "stopped" => level[e] + 1 = Levels \/ marker # -1

HasContent == \A i \in Phases : snapshot["client"][i] # "none" => content[i] # "none"

(* The watcher has seen everything pass up to where it is, and what it      *)
(* publishes is the first break.                                            *)
Watched ==
  /\ \A j \in Phases : j < watchAt => Evaluate(j) = "ok"
  /\ watching = "publishing" => watchAt \in Phases /\ Evaluate(watchAt) = "break"
  /\ marker # -1 => watching = "off" /\ marker = watchAt /\ Evaluate(marker) = "break"

Scored == score.kind # "none" => Gone /\ score = ScoreOf

RampInv == RampTypes /\ (\A e \in Endpoints : Progress(e)) /\ HasContent /\ Watched /\ Scored

(* What is written in full stays as it is, and so does the judgement on it. *)
LEMMA VerdictStays ==
  ASSUME RampInv, NEW e \in Endpoints, NEW i \in Phases, BeginSnapshot(e) \/ EndSnapshot(e),
         Evaluate(i) \in {"ok", "break"}
  PROVE  Evaluate(i)' = Evaluate(i)
<1>1. CASE \A f \in Endpoints : snapshot[f][i] = "whole"
  <2>1. level[e] \in Phases /\ snapshot[e][level[e]] # "whole"
    BY DEF RampInv, RampTypes, Progress, BeginSnapshot, EndSnapshot
  <2>2. i # level[e]  BY <1>1, <2>1
  <2>3. \A f \in Endpoints : snapshot'[f][i] = snapshot[f][i]
    BY <2>1, <2>2 DEF RampInv, RampTypes, BeginSnapshot, EndSnapshot
  <2>4. content'[i] = content[i]
    BY <2>1, <2>2 DEF RampInv, RampTypes, BeginSnapshot, EndSnapshot
  <2>5. \A f \in Endpoints : snapshot'[f][i] = "whole"  BY <1>1, <2>3
  <2> QED BY <1>1, <2>4, <2>5 DEF Evaluate
<1>2. CASE ~ \A f \in Endpoints : snapshot[f][i] = "whole"  BY <1>2 DEF Evaluate
<1> QED BY <1>1, <1>2

LEMMA WatchedStays ==
  ASSUME RampInv, NEW e \in Endpoints, BeginSnapshot(e) \/ EndSnapshot(e)
  PROVE  Watched'
<1>1. watchAt' = watchAt /\ watching' = watching /\ marker' = marker
  BY DEF BeginSnapshot, EndSnapshot
<1>2. watchAt \in 0..Levels /\ marker \in Phases \cup {-1} /\ Watched  BY DEF RampInv, RampTypes
<1>3. ASSUME NEW j \in Phases, j < watchAt PROVE Evaluate(j)' = "ok"
  <2>1. Evaluate(j) = "ok"  BY <1>2, <1>3 DEF Watched
  <2> QED BY <2>1, VerdictStays
<1>4. ASSUME watching = "publishing" PROVE watchAt \in Phases /\ Evaluate(watchAt)' = "break"
  <2>1. watchAt \in Phases /\ Evaluate(watchAt) = "break"  BY <1>2, <1>4 DEF Watched
  <2>2. PICK i \in Phases : i = watchAt  BY <2>1
  <2>3. Evaluate(i) = "break"  BY <2>1, <2>2
  <2>4. Evaluate(i)' = "break"  BY <2>3, VerdictStays
  <2> QED BY <1>1, <2>1, <2>2, <2>4 DEF Evaluate
<1>5. ASSUME marker # -1 PROVE watching = "off" /\ marker = watchAt /\ Evaluate(marker)' = "break"
  <2>1. watching = "off" /\ marker = watchAt /\ Evaluate(marker) = "break" /\ marker \in Phases
    BY <1>2, <1>5 DEF Watched
  <2>2. PICK i \in Phases : i = marker  BY <2>1
  <2>3. Evaluate(i) = "break"  BY <2>1, <2>2
  <2>4. Evaluate(i)' = "break"  BY <2>3, VerdictStays
  <2> QED BY <1>1, <2>1, <2>2, <2>4 DEF Evaluate
<1> QED BY <1>1, <1>3, <1>4, <1>5 DEF Watched, Evaluate

LEMMA AssessType ==
  ASSUME NEW i \in Phases, NEW s \in Snapshots PROVE Assess(i, s) \in {"ok", "break", "error"}
BY DEF Assess

(* Nobody takes a snapshot of what is over.                                 *)
LEMMA NotGone ==
  ASSUME NEW e \in Endpoints, endpoint[e] \in {"running", "writing", "boundary"}
  PROVE  ~Gone
BY DEF Gone

LEMMA BeginSnapshotKeeps ==
  ASSUME RampInv, NEW e \in Endpoints, BeginSnapshot(e) PROVE RampInv'
<1> DEFINE l == level[e]
<1>1. /\ endpoint[e] = "running" /\ l \in Phases /\ RampTypes
      /\ endpoint' = [endpoint EXCEPT ![e] = "writing"]
      /\ snapshot' = [snapshot EXCEPT ![e][l] = "partial"]
      /\ level' = level /\ watchAt' = watchAt /\ watching' = watching
      /\ marker' = marker /\ score' = score
  BY DEF BeginSnapshot, RampInv, RampTypes
<1>2. \/ content' = content /\ e # "client"
      \/ \E v \in {"ok", "break", "error"} : content' = [content EXCEPT ![l] = v]
  BY <1>1, AssessType DEF BeginSnapshot, Endpoints
<1>3. RampTypes'  BY <1>1, <1>2 DEF RampTypes
<1>4. \A f \in Endpoints : Progress(f)'
  <2> SUFFICES ASSUME NEW f \in Endpoints PROVE Progress(f)'  OBVIOUS
  <2>1. Progress(f)  BY DEF RampInv
  <2> QED BY <1>1, <2>1 DEF RampTypes, Progress
<1>5. HasContent'
  <2>1. HasContent  BY DEF RampInv
  <2> QED BY <1>1, <1>2, <2>1 DEF RampTypes, HasContent, Endpoints
<1>6. Watched'  BY WatchedStays
<1>7. Scored'
  <2>1. ~Gone  BY <1>1, NotGone
  <2>2. score.kind = "none"  BY <2>1 DEF RampInv, Scored
  <2> QED BY <1>1, <2>2 DEF Scored
<1> QED BY <1>3, <1>4, <1>5, <1>6, <1>7 DEF RampInv

LEMMA EndSnapshotKeeps ==
  ASSUME RampInv, NEW e \in Endpoints, EndSnapshot(e) PROVE RampInv'
<1> DEFINE l == level[e]
<1>1. /\ endpoint[e] = "writing" /\ l \in Phases /\ RampTypes
      /\ endpoint' = [endpoint EXCEPT ![e] = "boundary"]
      /\ snapshot' = [snapshot EXCEPT ![e][l] = "whole"]
      /\ level' = level /\ watchAt' = watchAt /\ watching' = watching
      /\ marker' = marker /\ score' = score /\ content' = content
  BY DEF EndSnapshot, RampInv, RampTypes
<1>3. RampTypes'  BY <1>1 DEF RampTypes
<1>4. \A f \in Endpoints : Progress(f)'
  <2> SUFFICES ASSUME NEW f \in Endpoints PROVE Progress(f)'  OBVIOUS
  <2>1. Progress(f)  BY DEF RampInv
  <2> QED BY <1>1, <2>1 DEF RampTypes, Progress
<1>5. HasContent'
  <2>1. HasContent /\ Progress(e)  BY DEF RampInv
  <2> QED BY <1>1, <2>1 DEF RampTypes, HasContent, Endpoints, Progress
<1>6. Watched'  BY WatchedStays
<1>7. Scored'
  <2>1. ~Gone  BY <1>1, NotGone
  <2>2. score.kind = "none"  BY <2>1 DEF RampInv, Scored
  <2> QED BY <1>1, <2>2 DEF Scored
<1> QED BY <1>3, <1>4, <1>5, <1>6, <1>7 DEF RampInv

LEMMA BoundaryKeeps ==
  ASSUME RampInv, NEW e \in Endpoints, Boundary(e) \/ Die(e) PROVE RampInv'
<1>1. RampTypes /\ Progress(e) /\ HasContent /\ Watched /\ Scored  BY DEF RampInv
<1>2. /\ endpoint[e] \in {"running", "writing", "boundary"}
      /\ snapshot' = snapshot /\ content' = content /\ watchAt' = watchAt
      /\ watching' = watching /\ marker' = marker /\ score' = score
  BY DEF Boundary, Die
<1>3. \/ /\ endpoint[e] = "boundary" /\ level' = level
         /\ level[e] + 1 = Levels \/ marker # -1
         /\ endpoint' = [endpoint EXCEPT ![e] = "stopped"]
      \/ /\ endpoint[e] = "boundary" /\ level[e] + 1 # Levels
         /\ endpoint' = [endpoint EXCEPT ![e] = "running"]
         /\ level' = [level EXCEPT ![e] = level[e] + 1]
      \/ endpoint' = [endpoint EXCEPT ![e] = "dead"] /\ level' = level
  BY <1>1 DEF Boundary, Die, RampTypes
<1>4. RampTypes'
  <2>1. level[e] \in Phases  BY <1>1 DEF RampTypes
  <2>2. level[e] + 1 # Levels => level[e] + 1 \in Phases  BY <2>1, LevelsType
  <2> QED BY <1>1, <1>2, <1>3, <2>2 DEF RampTypes
<1>5. \A f \in Endpoints : Progress(f)'
  <2> SUFFICES ASSUME NEW f \in Endpoints PROVE Progress(f)'  OBVIOUS
  <2>1. Progress(f)  BY DEF RampInv
  <2>2. CASE f # e  BY <1>1, <1>2, <1>3, <2>1, <2>2 DEF RampTypes, Progress
  <2>3. CASE f = e
    <3>1. level[e] \in Nat /\ Phases \subseteq Nat  BY <1>1, LevelsType DEF RampTypes
    <3>2. endpoint'[e] \in {"stopped", "running", "dead"} /\ level'[e] \in {level[e], level[e] + 1}
      BY <1>1, <1>3 DEF RampTypes
    <3>3. \/ level'[e] = level[e] /\ endpoint'[e] = "dead"
          \/ level'[e] = level[e] /\ endpoint[e] = "boundary" /\ endpoint'[e] = "stopped"
             /\ (level[e] + 1 = Levels \/ marker # -1)
          \/ level'[e] = level[e] + 1 /\ endpoint[e] = "boundary" /\ endpoint'[e] = "running"
      BY <1>1, <1>3 DEF RampTypes
    <3> QED BY <1>2, <2>1, <2>3, <3>1, <3>3 DEF Progress
  <2> QED BY <2>2, <2>3
<1>6. HasContent'  BY <1>1, <1>2 DEF HasContent
<1>7. Watched'  BY <1>1, <1>2 DEF Watched, Evaluate
<1>8. Scored'
  <2>1. ~Gone  BY <1>2, NotGone
  <2> QED BY <1>1, <1>2, <2>1 DEF Scored
<1> QED BY <1>4, <1>5, <1>6, <1>7, <1>8 DEF RampInv

(* The watcher moves, and nobody else does.                                 *)
LEMMA WatcherKeeps ==
  ASSUME RampInv, Watch \/ Publish \/ StopWatch PROVE RampInv'
<1>1. RampTypes /\ HasContent /\ Watched /\ Scored  BY DEF RampInv
<1>2. /\ snapshot' = snapshot /\ content' = content /\ level' = level
      /\ endpoint' = endpoint /\ score' = score
  BY DEF Watch, Publish, StopWatch
<1>3. /\ watchAt \in 0..Levels /\ Levels \in Nat \ {0} /\ Phases = 0..(Levels - 1)
      /\ marker \in Phases \cup {-1} /\ watching \in {"on", "publishing", "off"}
  BY <1>1, LevelsType DEF RampTypes
<1>4. \A i : Evaluate(i)' = Evaluate(i)
  <2> SUFFICES ASSUME NEW i PROVE Evaluate(i)' = Evaluate(i)  OBVIOUS
  <2> QED BY <1>2 DEF Evaluate
<1>5. RampTypes' /\ Watched' /\ (marker # -1 => marker' = marker)
  <2>1. CASE Watch
    <3>1. watching = "on" /\ watchAt \in Phases /\ marker' = marker /\ marker = -1
      BY <1>1, <1>3, <2>1 DEF Watch, Watched
    <3>2. \/ Evaluate(watchAt) = "ok" /\ watchAt' = watchAt + 1 /\ watching' = watching
          \/ Evaluate(watchAt) = "break" /\ watching' = "publishing" /\ watchAt' = watchAt
      BY <2>1 DEF Watch
    <3>3. RampTypes'  BY <1>1, <1>2, <1>3, <3>1, <3>2 DEF RampTypes
    <3>4. \A j \in Phases : j < watchAt' => Evaluate(j) = "ok"
      BY <1>1, <1>3, <3>1, <3>2 DEF Watched
    <3>5. \A j \in Phases : j < watchAt' => Evaluate(j)' = "ok"  BY <1>4, <3>4
    <3>6. watching' = "publishing" =>
            watchAt' = watchAt /\ watchAt' \in Phases /\ Evaluate(watchAt)' = "break"
      <4>1. watching' = "publishing" => Evaluate(watchAt) = "break" /\ watchAt' = watchAt
        BY <3>1, <3>2
      <4> QED BY <1>2, <3>1, <4>1 DEF Evaluate
    <3> QED BY <3>1, <3>3, <3>5, <3>6 DEF Watched
  <2>2. CASE Publish
    <3>1. /\ watching = "publishing" /\ watching' = "off" /\ watchAt' = watchAt
          /\ marker' \in {watchAt, -1} /\ watchAt \in Phases /\ Evaluate(watchAt) = "break"
          /\ marker = -1
      BY <1>1, <2>2 DEF Publish, Watched
    <3>2. RampTypes'  BY <1>1, <1>2, <1>3, <3>1 DEF RampTypes
    <3>3. \A j \in Phases : j < watchAt' => Evaluate(j)' = "ok"
      BY <1>1, <1>4, <3>1 DEF Watched
    <3>4. marker' # -1 => marker' = watchAt' /\ Evaluate(marker)' = "break"
      BY <1>2, <3>1 DEF Evaluate
    <3> QED BY <3>1, <3>2, <3>3, <3>4 DEF Watched
  <2>3. CASE StopWatch
    <3>1. watching = "on" /\ watching' = "off" /\ watchAt' = watchAt /\ marker' = marker
      BY <2>3 DEF StopWatch
    <3>2. RampTypes'  BY <1>1, <1>2, <1>3, <3>1 DEF RampTypes
    <3>3. \A j \in Phases : j < watchAt' => Evaluate(j)' = "ok"
      BY <1>1, <1>4, <3>1 DEF Watched
    <3> QED BY <1>1, <3>1, <3>2, <3>3 DEF Watched
  <2> QED BY <2>1, <2>2, <2>3
<1>6. \A f \in Endpoints : Progress(f)'
  <2> SUFFICES ASSUME NEW f \in Endpoints PROVE Progress(f)'  OBVIOUS
  <2>1. Progress(f)  BY DEF RampInv
  <2> QED BY <1>2, <1>5, <1>3, <2>1 DEF Progress
<1>7. HasContent'  BY <1>1, <1>2 DEF HasContent
<1>8. Scored'
  <2>1. FirstUnpassed' = FirstUnpassed  BY <1>2 DEF FirstUnpassed, Evaluate
  <2>2. ScoreOf' = ScoreOf  BY <1>2, <2>1 DEF ScoreOf, Evaluate
  <2> QED BY <1>1, <1>2, <2>2 DEF Scored, Gone
<1> QED BY <1>5, <1>6, <1>7, <1>8 DEF RampInv

LEMMA ScoreKeeps == ASSUME RampInv, Score PROVE RampInv'
<1>1. RampTypes /\ HasContent /\ Watched /\ Scored  BY DEF RampInv
<1>2. /\ snapshot' = snapshot /\ content' = content /\ level' = level
      /\ endpoint' = endpoint /\ marker' = marker /\ watchAt' = watchAt
      /\ watching' = watching /\ score' = ScoreOf /\ Gone
  BY DEF Score
<1>3. RampTypes'  BY <1>1, <1>2 DEF RampTypes
<1>4. \A f \in Endpoints : Progress(f)'
  <2> SUFFICES ASSUME NEW f \in Endpoints PROVE Progress(f)'  OBVIOUS
  <2>1. Progress(f)  BY DEF RampInv
  <2> QED BY <1>2, <2>1 DEF Progress
<1>5. HasContent'  BY <1>1, <1>2 DEF HasContent
<1>6. Watched'  BY <1>1, <1>2 DEF Watched, Evaluate
<1>7. Scored'
  <2>1. FirstUnpassed' = FirstUnpassed  BY <1>2 DEF FirstUnpassed, Evaluate
  <2>2. ScoreOf' = ScoreOf  BY <1>2, <2>1 DEF ScoreOf, Evaluate
  <2> QED BY <1>2, <2>2 DEF Scored, Gone
<1> QED BY <1>3, <1>4, <1>5, <1>6, <1>7 DEF RampInv

LEMMA RampInitInv == RampInit => RampInv
<1> SUFFICES ASSUME RampInit PROVE RampInv  OBVIOUS
<1>1. Levels \in Nat \ {0} /\ Phases = 0..(Levels - 1)  BY LevelsType
<1>2. RampTypes  BY <1>1 DEF RampInit, RampTypes, Endpoints
<1>3. \A e \in Endpoints : Progress(e)  BY <1>1 DEF RampInit, Progress
<1>4. HasContent  BY DEF RampInit, HasContent, Endpoints
<1>5. Watched  BY <1>1 DEF RampInit, Watched
<1>6. Scored  BY DEF RampInit, Scored
<1> QED BY <1>2, <1>3, <1>4, <1>5, <1>6 DEF RampInv

LEMMA RampInductive == RampInv /\ [RampNext]_rampVars => RampInv'
<1> SUFFICES ASSUME RampInv, [RampNext]_rampVars PROVE RampInv'  OBVIOUS
<1>1. CASE \E e \in Endpoints : BeginSnapshot(e) \/ EndSnapshot(e) \/ Boundary(e) \/ Die(e)
  BY <1>1, BeginSnapshotKeeps, EndSnapshotKeeps, BoundaryKeeps
<1>2. CASE Watch \/ Publish \/ StopWatch  BY <1>2, WatcherKeeps
<1>3. CASE Score  BY <1>3, ScoreKeeps
<1>4. CASE UNCHANGED rampVars
  <2>1. FirstUnpassed' = FirstUnpassed  BY <1>4 DEF FirstUnpassed, Evaluate, rampVars
  <2>2. ScoreOf' = ScoreOf  BY <1>4, <2>1 DEF ScoreOf, Evaluate, rampVars
  <2>3. Watched'  BY <1>4 DEF RampInv, Watched, Evaluate, rampVars
  <2>4. \A f \in Endpoints : Progress(f)'
    <3> SUFFICES ASSUME NEW f \in Endpoints PROVE Progress(f)'  OBVIOUS
    <3>1. Progress(f)  BY DEF RampInv
    <3> QED BY <1>4, <3>1 DEF Progress, rampVars
  <2>5. Scored'  BY <1>4, <2>2 DEF RampInv, Scored, Gone, rampVars
  <2>6. RampTypes' /\ HasContent'  BY <1>4 DEF RampInv, RampTypes, HasContent, rampVars
  <2> QED BY <2>3, <2>4, <2>5, <2>6 DEF RampInv
<1> QED BY <1>1, <1>2, <1>3, <1>4 DEF RampNext

LEMMA RampInvariance == RampSpec => []RampInv
BY RampInitInv, RampInductive, PTL DEF RampSpec

(* The first phase that is not passed exists, and nothing else is.          *)
LEMMA FirstIsUnpassed ==
  /\ FirstUnpassed \in 0..Levels
  /\ \A j \in 0..(FirstUnpassed - 1) : Evaluate(j) = "ok"
  /\ FirstUnpassed < Levels => Evaluate(FirstUnpassed) # "ok"
<1> DEFINE S == {i \in 0..Levels : i = Levels \/ Evaluate(i) # "ok"}
<1>1. Levels \in Nat  BY LevelsType
<1>2. S \in SUBSET Nat /\ Levels \in S  BY <1>1
<1> HIDE DEF S
<1>3. PICK i \in S : \A j \in S : i <= j  BY <1>2, LeastExists
<1>4. i \in 0..Levels /\ (i < Levels => Evaluate(i) # "ok")  BY <1>1, <1>3 DEF S
<1>5. \A j \in 0..(i - 1) : Evaluate(j) = "ok"
  <2> SUFFICES ASSUME NEW j \in 0..(i - 1), Evaluate(j) # "ok" PROVE FALSE  OBVIOUS
  <2>1. j \in S  BY <1>1, <1>4 DEF S
  <2> QED BY <1>1, <1>3, <1>4, <2>1
<1> QED BY <1>4, <1>5 DEF FirstUnpassed

LEMMA MarkerIsFirst ==
  ASSUME RampInv, marker # -1
  PROVE  FirstUnpassed = marker /\ marker \in Phases /\ Evaluate(marker) = "break"
<1> DEFINE i == FirstUnpassed
<1>1. /\ marker \in Phases /\ Evaluate(marker) = "break"
      /\ \A j \in Phases : j < marker => Evaluate(j) = "ok"
  BY DEF RampInv, RampTypes, Watched
<1>2. Levels \in Nat \ {0} /\ Phases = 0..(Levels - 1)  BY LevelsType
<1>3. /\ i \in 0..Levels /\ (\A j \in 0..(i - 1) : Evaluate(j) = "ok")
      /\ i < Levels => Evaluate(i) # "ok"
  BY FirstIsUnpassed
<1> HIDE DEF i
<1>4. ~(marker < i)
  <2> SUFFICES ASSUME marker < i PROVE FALSE  OBVIOUS
  <2>1. marker \in 0..(i - 1)  BY <1>1, <1>2, <1>3
  <2> QED BY <1>1, <1>3, <2>1
<1>5. ~(i < marker)
  <2> SUFFICES ASSUME i < marker PROVE FALSE  OBVIOUS
  <2>1. i \in Phases /\ i < Levels  BY <1>1, <1>2, <1>3
  <2> QED BY <1>1, <1>3, <2>1
<1>6. i = marker  BY <1>1, <1>2, <1>3, <1>4, <1>5
<1> QED BY <1>1, <1>6 DEF i

(* Whatever the ramp: the marker that ends it early and the score computed  *)
(* from the files afterwards name the same break.                           *)
THEOREM MarkerAgreesWithScore == RampSpec => []MarkerIsScore
<1>1. RampInv => MarkerIsScore
  <2> SUFFICES ASSUME RampInv, marker # -1, score.kind # "none"
               PROVE  score = [kind |-> "score", conns |-> ActiveAt(marker)]
    BY DEF MarkerIsScore
  <2>1. score = ScoreOf  BY DEF RampInv, Scored
  <2>2. FirstUnpassed = marker /\ marker \in Phases /\ Evaluate(marker) = "break"
    BY MarkerIsFirst
  <2>3. marker # Levels  BY <2>2, LevelsType
  <2> QED BY <2>1, <2>2, <2>3 DEF ScoreOf
<1> QED BY <1>1, RampInvariance, PTL

(* Whatever the ramp: stopping early costs no score.                        *)
THEOREM StoppingKeepsTheScore == RampSpec => []StopLosesNoScore
<1>1. RampInv => StopLosesNoScore
  <2> SUFFICES ASSUME RampInv, score.kind = "error",
                      \A e \in Endpoints : endpoint[e] = "stopped"
               PROVE  \E i \in Phases : content[i] = "error"
    BY DEF StopLosesNoScore
  <2> DEFINE i == FirstUnpassed
  <2>1. score = ScoreOf  BY DEF RampInv, Scored
  <2>2. i \in 0..Levels /\ (i < Levels => Evaluate(i) # "ok")  BY FirstIsUnpassed
  <2>3. Levels \in Nat \ {0} /\ Phases = 0..(Levels - 1)  BY LevelsType
  <2>4. i # Levels /\ Evaluate(i) # "break"  BY <2>1 DEF ScoreOf
  <2> HIDE DEF i
  <2>5. i \in Phases /\ Evaluate(i) \notin {"ok", "break"}  BY <2>2, <2>3, <2>4
  <2>6. marker = -1
    <3>1. marker # -1 => Evaluate(i) = "break"  BY MarkerIsFirst DEF i
    <3> QED BY <2>4, <3>1
  <2>7. \A e \in Endpoints : snapshot[e][i] = "whole"
    <3> SUFFICES ASSUME NEW e \in Endpoints PROVE snapshot[e][i] = "whole"  OBVIOUS
    <3>1. Progress(e) /\ endpoint[e] = "stopped" /\ level[e] \in Phases
      BY DEF RampInv, RampTypes
    <3>2. level[e] + 1 = Levels  BY <2>6, <3>1 DEF Progress
    <3>3. i < level[e] \/ i = level[e]  BY <2>3, <2>5, <3>1, <3>2
    <3> QED BY <2>5, <3>1, <3>3 DEF Progress
  <2>8. content[i] \notin {"ok", "break"}  BY <2>5, <2>7 DEF Evaluate
  <2>9. content[i] # "none"  BY <2>5, <2>7 DEF RampInv, HasContent, Endpoints
  <2>10. content[i] \in {"none", "ok", "break", "error"}  BY <2>5 DEF RampInv, RampTypes
  <2> QED BY <2>5, <2>8, <2>9, <2>10
<1> QED BY <1>1, RampInvariance, PTL

-----------------------------------------------------------------------------
(* The evidence of loss                                                    *)

LEMMA TraceType == Len(Trace) \in Nat \ {0} /\ \A i \in 1..Len(Trace) : Trace[i] \in BOOLEAN
BY EvidenceAssumption

(* A whole round of a trace drops the same wherever it begins.              *)
Round(f) == {i \in 0..(Len(Trace) - 1) : Drops(f + i)}
Dropping == {i \in DOMAIN Trace : Trace[i]}

LEMMA DroppingFinite == IsFiniteSet(Dropping) /\ Cardinality(Dropping) \in Nat
<1>1. Dropping \in SUBSET (1..Len(Trace))  BY EvidenceAssumption DEF Dropping
<1>2. IsFiniteSet(1..Len(Trace))  BY TraceType, FS_Interval
<1> QED BY <1>1, <1>2, FS_Subset, FS_CardinalityType

LEMMA RoundDrops ==
  ASSUME NEW f \in 0..(Len(Trace) - 1)
  PROVE  Cardinality(Round(f)) = Cardinality(Dropping)
<1> DEFINE L == Len(Trace)
           At(i) == ((f + i) % L) + 1
           h == [i \in Round(f) |-> At(i)]
<1>1. L \in Nat \ {0} /\ DOMAIN Trace = 1..L  BY TraceType, EvidenceAssumption
<1> HIDE DEF L
<1>2. f \in Nat /\ f < L  BY <1>1 DEF L
<1>3. \A i \in 0..(L - 1) : At(i) \in 1..L /\ (f + i < L => At(i) = f + i + 1)
                            /\ (f + i >= L => At(i) = f + i - L + 1)
  <2> SUFFICES ASSUME NEW i \in 0..(L - 1)
               PROVE  At(i) \in 1..L /\ (f + i < L => At(i) = f + i + 1)
                      /\ (f + i >= L => At(i) = f + i - L + 1)
    OBVIOUS
  <2> DEFINE a == f + i
  <2>1. a \in Nat /\ a < 2 * L /\ i \in Nat  BY <1>1, <1>2
  <2> HIDE DEF a
  <2>2. CASE a < L
    <3>1. a = L * 0 + a /\ a \in 0..(L - 1) /\ a \in Int /\ 0 \in Int  BY <1>1, <2>1, <2>2
    <3>2. a % L = a  BY ONLY <1>1, <3>1, Quotient
    <3> QED BY <1>1, <2>1, <2>2, <3>2 DEF a
  <2>3. CASE a >= L
    <3>1. a = L * 1 + (a - L) /\ a - L \in 0..(L - 1) /\ a \in Int /\ 1 \in Int  BY <1>1, <2>1, <2>3
    <3>2. a % L = a - L  BY ONLY <1>1, <3>1, Quotient
    <3> QED BY <1>1, <2>1, <2>3, <3>2 DEF a
  <2> QED BY <1>1, <2>1, <2>2, <2>3
<1>4. \A i \in 0..(L - 1) : Drops(f + i) = Trace[At(i)]  BY DEF Drops, L
<1> HIDE DEF At
<1>5. Round(f) = {i \in 0..(L - 1) : Trace[At(i)]}  BY <1>4 DEF Round, L
<1>6. h \in [Round(f) -> Dropping]  BY <1>1, <1>3, <1>5 DEF Dropping
<1>7. \A i, j \in Round(f) : h[i] = h[j] => i = j
  <2> SUFFICES ASSUME NEW i \in Round(f), NEW j \in Round(f), h[i] = h[j] PROVE i = j  OBVIOUS
  <2>1. i \in 0..(L - 1) /\ j \in 0..(L - 1) /\ At(i) = At(j)  BY <1>5
  <2>2. i \in Int /\ j \in Int /\ 0 <= i /\ i < L /\ 0 <= j /\ j < L  BY <1>1, <2>1
  <2>3. (At(i) = f + i + 1 /\ f + i < L) \/ (At(i) = f + i - L + 1 /\ f + i >= L)
    BY <1>1, <1>2, <1>3, <2>1, <2>2
  <2>4. (At(j) = f + j + 1 /\ f + j < L) \/ (At(j) = f + j - L + 1 /\ f + j >= L)
    BY <1>1, <1>2, <1>3, <2>1, <2>2
  <2> DEFINE u == At(i)  v == At(j)
  <2>5. u = v  BY <2>1
  <2> HIDE DEF u, v
  <2> QED BY <1>1, <1>2, <2>2, <2>3, <2>4, <2>5 DEF u, v
<1>8. \A m \in Dropping : \E i \in Round(f) : h[i] = m
  <2> SUFFICES ASSUME NEW m \in Dropping PROVE \E i \in Round(f) : h[i] = m  OBVIOUS
  <2>1. m \in 1..L /\ Trace[m]  BY <1>1 DEF Dropping
  <2> DEFINE i == IF m > f THEN m - 1 - f ELSE m - 1 - f + L
  <2>2. i \in 0..(L - 1) /\ (m > f => f + i = m - 1) /\ (~(m > f) => f + i = m - 1 + L)
    BY <1>1, <1>2, <2>1
  <2> HIDE DEF i
  <2>3. At(i) = m  BY <1>1, <1>2, <1>3, <2>1, <2>2
  <2>4. i \in Round(f)  BY <1>5, <2>1, <2>2, <2>3
  <2> QED BY <2>3, <2>4
<1>9. IsFiniteSet(Round(f))
  <2>1. IsFiniteSet(0..(L - 1))  BY <1>1, FS_Interval
  <2>2. Round(f) \in SUBSET (0..(L - 1))  BY <1>5
  <2> QED BY <2>1, <2>2, FS_Subset
<1>10. h \in Bijection(Round(f), Dropping)
  <2> HIDE DEF h
  <2> QED BY <1>6, <1>7, <1>8 DEF Bijection, Injection, Surjection, IsInjective
<1>11. ExistsBijection(Round(f), Dropping)  BY <1>10 DEF ExistsBijection
<1> QED BY <1>9, <1>11, FS_Bijection

(* What CountDropsInRange adds for one more packet is what that packet      *)
(* suffers.                                                                 *)
LEMMA OneMoreDrop ==
  ASSUME NEW from \in Nat, NEW to \in Nat, from <= to
  PROVE  /\ CountDropsInRange(from, to) \in Nat
         /\ CountDropsInRange(from, to + 1) =
              CountDropsInRange(from, to) + (IF Drops(to) THEN 1 ELSE 0)
<1> DEFINE L == Len(Trace)
           K == Cardinality(Dropping)
           n == to - from
           q == n \div L
           r == n % L
           f == from % L
           g == from \div L
           Part(k) == {i \in 0..(k - 1) : Drops(f + i)}
           C(k) == Cardinality(Part(k))
<1>1. L \in Nat \ {0} /\ n \in Nat /\ K \in Nat  BY TraceType, DroppingFinite
<1>2. q \in Int /\ r \in 0..(L - 1) /\ n = L * q + r
  <2>1. n \in Int  BY <1>1
  <2> HIDE DEF n, L
  <2> QED BY ONLY <1>1, <2>1, DivMod DEF q, r
<1>3. f \in 0..(L - 1) /\ g \in Int /\ from = L * g + f
  <2>1. from \in Int  OBVIOUS
  <2> HIDE DEF n, L
  <2> QED BY ONLY <1>1, <2>1, DivMod DEF f, g
<1>4. \A k \in Nat : IsFiniteSet(Part(k)) /\ C(k) \in Nat
  <2> SUFFICES ASSUME NEW k \in Nat PROVE IsFiniteSet(Part(k)) /\ C(k) \in Nat  OBVIOUS
  <2>1. IsFiniteSet(0..(k - 1)) /\ Part(k) \in SUBSET (0..(k - 1))  BY FS_Interval
  <2>2. IsFiniteSet(Part(k))  BY <2>1, FS_Subset
  <2> QED BY <2>2, FS_CardinalityType
<1>5. CountDropsInRange(from, to) = q * K + C(r)
  BY DEF CountDropsInRange, Dropping
<1>6. CountDropsInRange(from, to + 1) = ((n + 1) \div L) * K + C((n + 1) % L)
  <2>1. (to + 1) - from = n + 1  OBVIOUS
  <2> QED BY <2>1 DEF CountDropsInRange, Dropping
<1>7. Drops(f + r) = Drops(to)
  <2> DEFINE p == (f + r) \div L
             t == (f + r) % L
  <2>1. f + r \in Int  BY <1>1, <1>2, <1>3
  <2> HIDE DEF L, f, r, q, g, n
  <2>2. p \in Int /\ t \in 0..(L - 1) /\ f + r = L * p + t  BY <1>1, <2>1, DivMod
  <2> HIDE DEF p, t
  <2>3. to = L * (g + q + p) + t
    <3>1. to = from + n  BY DEF n
    <3>2. to = L * g + f + (L * q + r)  BY <1>2, <1>3, <3>1
    <3>3. L * (g + q + p) = L * g + L * q + L * p  BY <1>1, <1>2, <1>3, <2>2
    <3>4. to = L * g + f + (L * q + r) /\ f + r = L * p + t  BY <2>2, <3>2
    <3>5. L * g \in Int /\ L * q \in Int /\ L * p \in Int /\ f \in Int /\ r \in Int /\ t \in Int
      BY <1>1, <1>2, <1>3, <2>2
    <3> DEFINE x == L * g  y == L * q  z == L * p
    <3> HIDE DEF x, y, z
    <3>6. to = x + y + z + t  BY ONLY <3>4, <3>5 DEF x, y, z
    <3> QED BY ONLY <3>3, <3>6 DEF x, y, z
  <2> DEFINE w == g + q + p
  <2>4. to \in Int /\ w \in Int /\ L \in Nat \ {0} /\ t \in 0..(L - 1)  BY <1>1, <1>2, <1>3, <2>2
  <2>6. to = L * w + t  BY <2>3
  <2> HIDE DEF w
  <2>5. to % L = t  BY ONLY <2>4, <2>6, Quotient
  <2> QED BY <2>5 DEF Drops, t, L
<1>8. C(r + 1) = C(r) + (IF Drops(to) THEN 1 ELSE 0)
  <2> HIDE DEF L, f, q, g, n
  <2>0. r \in Nat  BY <1>1, <1>2
  <2> HIDE DEF r
  <2>1. CASE Drops(to)
    <3>1. Part(r + 1) = Part(r) \cup {r}
      <4>1. \A i : i \in 0..((r + 1) - 1) <=> i \in 0..(r - 1) \/ i = r  BY <2>0
      <4> QED BY <1>7, <2>1, <4>1
    <3>2. r \notin Part(r)  BY <2>0
    <3> HIDE DEF Part
    <3>3. IsFiniteSet(Part(r))  BY <1>4, <2>0
    <3>4. Cardinality(Part(r) \cup {r}) = Cardinality(Part(r)) + 1  BY <3>2, <3>3, FS_AddElement
    <3> QED BY <2>1, <3>1, <3>4
  <2>2. CASE ~Drops(to)
    <3>1. Part(r + 1) = Part(r)
      <4>1. \A i : i \in 0..((r + 1) - 1) <=> i \in 0..(r - 1) \/ i = r  BY <2>0
      <4> QED BY <1>7, <2>2, <4>1
    <3>2. C(r) \in Nat  BY <1>4, <2>0
    <3>3. C(r + 1) = C(r)  BY <3>1
    <3> HIDE DEF C
    <3> QED BY <2>2, <3>2, <3>3
  <2> HIDE DEF C
  <2> QED BY <2>1, <2>2
<1>9. q \in Nat
  <2> HIDE DEF q, r, n, L
  <2> SUFFICES ASSUME q <= -1 PROVE FALSE  BY <1>2
  <2>1. L * q = L * (q + 1) - L /\ L * (q + 1) <= 0  BY <1>1, <1>2
  <2> QED BY <1>1, <1>2, <2>1
<1>10. C(r) \in Nat
  <2>1. r \in Nat  BY <1>1, <1>2
  <2> HIDE DEF r, C
  <2> QED BY <1>4, <2>1
<1>11. C(L) = K
  <2>1. Part(L) = Round(f)  BY DEF Round
  <2>2. Cardinality(Round(f)) = K
    <3> HIDE DEF f, K
    <3> QED BY ONLY <1>3, RoundDrops DEF K, L
  <2> QED BY <2>1, <2>2
<1>12. C(0) = 0
  <2>1. Part(0) = {}  OBVIOUS
  <2> QED BY <2>1, FS_EmptySet
<1> HIDE DEF C, K, q, r, f, g, n, L
<1>13. q * K + C(r) \in Nat
  <2>1. q * K \in Nat  BY <1>1, <1>9
  <2> QED BY <1>10, <2>1
<1>14. CASE r + 1 < L
  <2>1. n + 1 = L * q + (r + 1) /\ r + 1 \in 0..(L - 1) /\ n + 1 \in Int  BY <1>1, <1>2, <1>14
  <2>2. (n + 1) \div L = q /\ (n + 1) % L = r + 1  BY ONLY <1>1, <1>2, <2>1, Quotient
  <2>3. CountDropsInRange(from, to + 1) = q * K + C(r + 1)  BY <1>6, <2>2
  <2>4. q * K \in Nat  BY <1>1, <1>9
  <2> QED BY <1>5, <1>8, <1>10, <1>13, <2>3, <2>4
<1>15. CASE r + 1 = L
  <2>1. n + 1 = L * (q + 1) + 0 /\ 0 \in 0..(L - 1) /\ n + 1 \in Int /\ q + 1 \in Int
    <3>1. L * (q + 1) = L * q + L  BY <1>1, <1>2
    <3> QED BY <1>1, <1>2, <1>15, <3>1
  <2>2. (n + 1) \div L = q + 1 /\ (n + 1) % L = 0  BY ONLY <1>1, <2>1, Quotient
  <2>3. CountDropsInRange(from, to + 1) = (q + 1) * K + 0  BY <1>6, <1>12, <2>2
  <2>4. (q + 1) * K = q * K + K /\ q * K \in Nat  BY <1>1, <1>9
  <2>5. K = C(r) + (IF Drops(to) THEN 1 ELSE 0)  BY <1>8, <1>11, <1>15
  <2> QED BY <1>1, <1>5, <1>10, <1>13, <2>3, <2>4, <2>5
<1> QED BY <1>1, <1>2, <1>5, <1>13, <1>14, <1>15

LEMMA NoDropYet == ASSUME NEW from \in Nat PROVE CountDropsInRange(from, from) = 0
<1> DEFINE L == Len(Trace)
           n == from - from
           Empty == {i \in 0..((n % L) - 1) : Drops((from % L) + i)}
<1>1. L \in Nat \ {0} /\ Cardinality(Dropping) \in Nat  BY TraceType, DroppingFinite
<1>2. CountDropsInRange(from, from) = (n \div L) * Cardinality(Dropping) + Cardinality(Empty)
  BY DEF CountDropsInRange, Dropping
<1>3. n \div L = 0 /\ n % L = 0
  <2>1. n = L * 0 + 0 /\ n \in Int /\ 0 \in 0..(L - 1) /\ 0 \in Int  BY <1>1
  <2> HIDE DEF n, L
  <2> QED BY ONLY <1>1, <2>1, Quotient
<1>4. Empty = {}  BY <1>3
<1>5. Cardinality(Empty) = 0  BY <1>4, FS_EmptySet
<1> HIDE DEF Empty, n, L
<1> QED BY <1>1, <1>2, <1>3, <1>5

EvidenceTypes ==
  /\ loss \in {"random", "trace"} /\ now \in Nat
  /\ counter \in [Directions -> Nat] /\ dropped \in [Directions -> Nat]
  /\ before \in [Directions -> Int] /\ after \in [Directions -> Int]
  /\ begun \in [Samples -> Nat] /\ ended \in [Samples -> Nat]

(* The phases in which a direction has been sampled before, and after.      *)
HasBefore(d) ==
  \/ phase \in {"between", "after_server", "after_client", "sampled"}
  \/ phase = "before_client" /\ d = "server_egress"
HasAfter(d) == phase = "sampled" \/ (phase = "after_client" /\ d = "server_egress")

(* What the evidence would show between two values of a counter             *)
Shows(from, to) == IF loss = "random" THEN to - from ELSE CountDropsInRange(from, to)

(* From its first sample on, while the window is open, a counter gains no   *)
(* more than the window drops; what ended with the window stays as it was.  *)
Inside(d, from, to) ==
  /\ from \in Nat /\ to \in Nat /\ (loss = "trace" => from <= to)
  /\ Shows(from, to) <= dropped[d]

EvidenceInv ==
  /\ EvidenceTypes
  /\ phase \notin {"waiting", "done"} => StartAt <= now
  /\ \A d \in Directions : HasBefore(d) /\ now <= StopAt => Inside(d, before[d], counter[d])
  /\ \A d \in Directions : HasAfter(d) /\ now <= StopAt => Inside(d, before[d], after[d])
  /\ phase = "sampled" => ended["after"] = now
  /\ accepted = "yes" => phase = "done" /\ EvidenceIsInner

LEMMA EvidenceConstants ==
  /\ StartAt \in Nat /\ StopAt \in Nat /\ MinLead \in Nat /\ Slack \in Nat
  /\ "server_egress" \in Directions /\ "client_egress" \in Directions
  /\ \A d \in Directions : d = "server_egress" \/ d = "client_egress"
BY EvidenceAssumption DEF Directions

LEMMA EvidenceInitInv == EvidenceInit => EvidenceInv
<1> SUFFICES ASSUME EvidenceInit PROVE EvidenceInv  OBVIOUS
<1>1. EvidenceTypes  BY DEF EvidenceInit, EvidenceTypes, NoSample
<1>2. phase = "waiting" /\ accepted = "pending"  BY DEF EvidenceInit
<1>3. \A d \in Directions : ~HasBefore(d) /\ ~HasAfter(d)  BY <1>2 DEF HasBefore, HasAfter
<1> QED BY <1>1, <1>2, <1>3 DEF EvidenceInv

(* A packet that passes inside the window shows if it is dropped.           *)
LEMMA InsideStep ==
  ASSUME EvidenceTypes, NEW d \in Directions, NEW from, NEW to, Inside(d, from, to),
         loss' = loss, dropped'[d] \in Nat, dropped[d] <= dropped'[d], NEW to2 \in Nat,
         \/ to2 = to
         \/ to2 = to + 1 /\ dropped'[d] = dropped[d]
              + (IF loss = "random" \/ Drops(to) THEN 1 ELSE 0)
  PROVE  Inside(d, from, to2)'
<1>1. /\ from \in Nat /\ to \in Nat /\ (loss = "trace" => from <= to) /\ Shows(from, to) <= dropped[d]
      /\ loss \in {"random", "trace"} /\ dropped[d] \in Nat
  BY DEF Inside, EvidenceTypes
<1>2. CASE loss = "random"
  <2>1. to - from <= dropped[d]  BY <1>1, <1>2 DEF Shows
  <2>2. to2 - from <= dropped'[d]  BY <1>1, <1>2, <2>1
  <2> QED BY <1>1, <1>2, <2>2 DEF Inside, Shows
<1>3. CASE loss = "trace"
  <2>1. from <= to /\ CountDropsInRange(from, to) <= dropped[d]  BY <1>1, <1>3 DEF Shows
  <2>2. /\ CountDropsInRange(from, to) \in Nat
        /\ CountDropsInRange(from, to + 1) = CountDropsInRange(from, to) + (IF Drops(to) THEN 1 ELSE 0)
    BY <1>1, <2>1, OneMoreDrop
  <2>3. CountDropsInRange(from, to2) <= dropped'[d]
    <3>1. CASE to2 = to  BY <1>1, <2>1, <2>2, <3>1
    <3>2. CASE to2 = to + 1 /\ dropped'[d] = dropped[d]
                 + (IF loss = "random" \/ Drops(to) THEN 1 ELSE 0)
      BY <1>1, <1>3, <2>1, <2>2, <3>2
    <3> QED BY <3>1, <3>2
  <2>4. from <= to2  BY <1>1, <2>1
  <2> QED BY <1>1, <1>3, <2>3, <2>4 DEF Inside, Shows
<1> QED BY <1>1, <1>2, <1>3

LEMMA TickKeepsEvidence == ASSUME EvidenceInv, Tick PROVE EvidenceInv'
<1>1. EvidenceTypes  BY DEF EvidenceInv
<1>2. PICK hit \in SUBSET Directions :
        /\ counter' = [d \in Directions |-> counter[d] + (IF d \in hit THEN 1 ELSE 0)]
        /\ dropped' = [d \in Directions |-> dropped[d] +
             (IF d \in hit /\ InWindow /\ (loss = "random" \/ Drops(counter[d])) THEN 1 ELSE 0)]
  BY DEF Tick
<1>3. /\ phase \notin {"sampled", "done"} /\ now' = now + 1 /\ loss' = loss /\ phase' = phase
      /\ before' = before /\ after' = after /\ begun' = begun /\ ended' = ended
      /\ errors' = errors /\ replaced' = replaced /\ accepted' = accepted
  BY DEF Tick
<1>4. \A d \in Directions : /\ dropped[d] \in Nat /\ dropped'[d] \in Nat /\ dropped[d] <= dropped'[d]
                            /\ counter[d] \in Nat /\ counter'[d] \in Nat
  BY <1>1, <1>2 DEF EvidenceTypes
<1>5. EvidenceTypes'
  <2>1. counter' \in [Directions -> Nat] /\ dropped' \in [Directions -> Nat]
    <3>1. \A d \in Directions : counter[d] + (IF d \in hit THEN 1 ELSE 0) \in Nat
      BY <1>4
    <3> HIDE DEF Directions
    <3> QED BY <1>1, <1>2 DEF EvidenceTypes
  <2> QED BY <1>1, <1>3, <2>1 DEF EvidenceTypes
<1>6. now \in Nat /\ accepted # "yes"  BY <1>1, <1>3 DEF EvidenceInv, EvidenceTypes
<1>7. phase \notin {"waiting", "done"} => StartAt <= now'
  BY <1>3, <1>6, EvidenceConstants DEF EvidenceInv
<1>8. ASSUME NEW d \in Directions, HasBefore(d), now' <= StopAt
      PROVE  Inside(d, before[d], counter[d])'
  <2>1. now <= StopAt /\ now < StopAt  BY <1>3, <1>6, <1>8, EvidenceConstants
  <2>2. phase \notin {"waiting", "done"}  BY <1>8 DEF HasBefore
  <2>3. StartAt <= now /\ Inside(d, before[d], counter[d])  BY <1>8, <2>1, <2>2 DEF EvidenceInv
  <2>4. InWindow  BY <2>1, <2>3 DEF InWindow
  <2>5. PICK b, c, c2 : b = before[d] /\ c = counter[d] /\ c2 = counter'[d]  OBVIOUS
  <2>6. c2 \in Nat /\ Inside(d, b, c)  BY <1>4, <2>3, <2>5
  <2>7. \/ c2 = c
        \/ c2 = c + 1 /\ dropped'[d] = dropped[d] + (IF loss = "random" \/ Drops(c) THEN 1 ELSE 0)
    BY <1>2, <1>4, <2>4, <2>5
  <2>8. Inside(d, b, c2)'  BY ONLY <1>1, <1>3, <1>4, <2>6, <2>7, InsideStep
  <2>9. before'[d] = b /\ counter'[d] = c2  BY <1>3, <2>5
  <2> QED BY <2>8, <2>9 DEF Inside, Shows
<1>9. ASSUME NEW d \in Directions, HasAfter(d), now' <= StopAt
      PROVE  Inside(d, before[d], after[d])'
  <2>1. now <= StopAt  BY <1>3, <1>6, <1>9, EvidenceConstants
  <2>2. Inside(d, before[d], after[d])  BY <1>9, <2>1 DEF EvidenceInv
  <2>3. PICK b, c : b = before[d] /\ c = after[d]  OBVIOUS
  <2>4. c \in Nat /\ Inside(d, b, c)  BY <2>2, <2>3 DEF Inside
  <2>5. Inside(d, b, c)'  BY ONLY <1>1, <1>3, <1>4, <2>4, InsideStep
  <2>6. before'[d] = b /\ after'[d] = c  BY <1>3, <2>3
  <2> QED BY <2>5, <2>6 DEF Inside, Shows
<1>10. \A d \in Directions : (HasBefore(d)' <=> HasBefore(d)) /\ (HasAfter(d)' <=> HasAfter(d))
  BY <1>3 DEF HasBefore, HasAfter
<1> QED BY <1>3, <1>5, <1>6, <1>7, <1>8, <1>9, <1>10 DEF EvidenceInv

(* A counter that starts over shows less.                                   *)
LEMMA ReplaceKeepsEvidence ==
  ASSUME EvidenceInv, NEW e \in Directions, Replace(e) PROVE EvidenceInv'
<1>1. EvidenceTypes  BY DEF EvidenceInv
<1>2. /\ phase \notin {"sampled", "done"} /\ now' = now /\ loss' = loss /\ phase' = phase
      /\ before' = before /\ after' = after /\ begun' = begun /\ ended' = ended
      /\ errors' = errors /\ accepted' = accepted /\ dropped' = dropped
      /\ loss = "random" /\ counter' = [counter EXCEPT ![e] = 0]
  BY DEF Replace
<1>3. EvidenceTypes'  BY <1>1, <1>2 DEF EvidenceTypes
<1>4. accepted # "yes"  BY <1>2 DEF EvidenceInv
<1>5. \A d \in Directions : (HasBefore(d)' <=> HasBefore(d)) /\ (HasAfter(d)' <=> HasAfter(d))
  BY <1>2 DEF HasBefore, HasAfter
<1>6. ASSUME NEW d \in Directions, HasBefore(d), now <= StopAt
      PROVE  Inside(d, before[d], counter[d])'
  <2>1. Inside(d, before[d], counter[d])  BY <1>6 DEF EvidenceInv
  <2>2. /\ before[d] \in Nat /\ counter[d] \in Nat /\ counter[d] - before[d] <= dropped[d]
        /\ dropped[d] \in Nat
    BY <1>1, <1>2, <2>1 DEF Inside, Shows, EvidenceTypes
  <2>3. counter'[d] = counter[d] \/ counter'[d] = 0  BY <1>1, <1>2 DEF EvidenceTypes
  <2>4. counter'[d] \in Nat /\ counter'[d] - before[d] <= dropped[d]  BY <2>2, <2>3
  <2> QED BY <1>2, <2>2, <2>4 DEF Inside, Shows
<1>7. ASSUME NEW d \in Directions, HasAfter(d), now <= StopAt
      PROVE  Inside(d, before[d], after[d])'
  <2>1. Inside(d, before[d], after[d])  BY <1>7 DEF EvidenceInv
  <2> QED BY <1>2, <2>1 DEF Inside, Shows
<1>8. phase \notin {"waiting", "done"} => StartAt <= now  BY DEF EvidenceInv
<1> QED BY <1>2, <1>3, <1>4, <1>5, <1>6, <1>7, <1>8 DEF EvidenceInv

(* What a step of the collector leaves alone                                *)
LEMMA InsideFrame ==
  ASSUME loss' = loss, dropped' = dropped, NEW d, NEW from, NEW to, Inside(d, from, to)
  PROVE  Inside(d, from, to)'
BY DEF Inside, Shows

LEMMA BeginKeepsEvidence ==
  ASSUME EvidenceInv, BeginBefore \/ BeginAfter \/ GiveUpSampling PROVE EvidenceInv'
<1>1. EvidenceTypes  BY DEF EvidenceInv
<1>2. /\ now' = now /\ loss' = loss /\ counter' = counter /\ dropped' = dropped
      /\ before' = before /\ after' = after /\ ended' = ended
  BY DEF BeginBefore, BeginAfter, GiveUpSampling
<1>3. \/ /\ phase = "waiting" /\ phase' = "before_server" /\ StartAt <= now /\ accepted' = accepted
      \/ /\ phase = "between" /\ phase' = "after_server" /\ accepted' = accepted
      \/ /\ phase \notin {"sampled", "done"} /\ phase' = "done" /\ accepted' = "no"
  BY <1>1, EvidenceConstants DEF BeginBefore, BeginAfter, GiveUpSampling, Reached, EvidenceTypes
<1>4. EvidenceTypes'
  <2>1. begun' \in [Samples -> Nat]
    BY <1>1 DEF EvidenceTypes, BeginBefore, BeginAfter, GiveUpSampling, Samples
  <2> QED BY <1>1, <1>2, <2>1 DEF EvidenceTypes
<1>5. accepted' # "yes"  BY <1>3 DEF EvidenceInv
<1>6. phase' \notin {"waiting", "done"} => StartAt <= now  BY <1>3 DEF EvidenceInv
<1>7. ASSUME NEW d \in Directions PROVE (HasBefore(d)' => HasBefore(d)) /\ ~HasAfter(d)'
  BY <1>3 DEF HasBefore, HasAfter
<1>8. ASSUME NEW d \in Directions, HasBefore(d), now <= StopAt
      PROVE  Inside(d, before[d], counter[d])'
  <2>1. Inside(d, before[d], counter[d])  BY <1>8 DEF EvidenceInv
  <2> QED BY <1>2, <2>1 DEF Inside, Shows
<1>9. phase' # "sampled"  BY <1>3
<1> QED BY <1>2, <1>4, <1>5, <1>6, <1>7, <1>8, <1>9 DEF EvidenceInv

(* A counter that is read has gained nothing yet.                           *)
LEMMA ReadBeforeKeeps == ASSUME EvidenceInv, ReadBefore PROVE EvidenceInv'
<1>1. EvidenceTypes  BY DEF EvidenceInv
<1>2. /\ now' = now /\ loss' = loss /\ counter' = counter /\ dropped' = dropped
      /\ after' = after /\ begun' = begun /\ accepted' = accepted
  BY DEF ReadBefore
<1>3. PICK e \in Directions :
        /\ before' = [before EXCEPT ![e] = counter[e]]
        /\ \/ phase = "before_server" /\ phase' = "before_client" /\ e = "server_egress"
           \/ phase = "before_client" /\ phase' = "between" /\ e = "client_egress"
        /\ ended' \in [Samples -> Nat]
  BY <1>1, EvidenceConstants DEF ReadBefore, EvidenceTypes, Samples
<1>4. EvidenceTypes'
  <2>1. counter[e] \in Int  BY <1>1 DEF EvidenceTypes
  <2>2. before' \in [Directions -> Int]  BY <1>1, <1>3, <2>1 DEF EvidenceTypes
  <2> QED BY <1>1, <1>2, <1>3, <2>2 DEF EvidenceTypes
<1>5. accepted' # "yes"  BY <1>2, <1>3 DEF EvidenceInv
<1>6. StartAt <= now  BY <1>3 DEF EvidenceInv
<1>7. ASSUME NEW d \in Directions PROVE (HasBefore(d)' => HasBefore(d) \/ d = e) /\ ~HasAfter(d)'
  BY <1>3, EvidenceConstants DEF HasBefore, HasAfter
<1>8. ASSUME NEW d \in Directions, HasBefore(d) \/ d = e, now <= StopAt
      PROVE  Inside(d, before[d], counter[d])'
  <2>1. CASE d = e
    <3>1. PICK c \in Nat : c = counter[e]  BY <1>1 DEF EvidenceTypes
    <3>2. before'[e] = c /\ counter'[e] = c /\ dropped'[e] \in Nat
      BY <1>1, <1>2, <1>3, <3>1 DEF EvidenceTypes
    <3>3. CountDropsInRange(c, c) = 0 /\ c - c = 0  BY NoDropYet
    <3>4. Shows(c, c)' = 0  BY <3>3 DEF Shows
    <3>5. Inside(e, c, c)'  BY <3>2, <3>4 DEF Inside
    <3> QED BY <2>1, <3>2, <3>5 DEF Inside, Shows
  <2>2. CASE d # e
    <3>1. Inside(d, before[d], counter[d])  BY <1>8, <2>2 DEF EvidenceInv
    <3>2. before'[d] = before[d]  BY <1>1, <1>3, <2>2 DEF EvidenceTypes
    <3> QED BY <1>2, <3>1, <3>2 DEF Inside, Shows
  <2> QED BY <2>1, <2>2
<1>9. phase' # "sampled"  BY <1>3
<1> QED BY <1>2, <1>4, <1>5, <1>6, <1>7, <1>8, <1>9 DEF EvidenceInv

LEMMA ReadAfterKeeps == ASSUME EvidenceInv, ReadAfter PROVE EvidenceInv'
<1>1. EvidenceTypes  BY DEF EvidenceInv
<1>2. /\ now' = now /\ loss' = loss /\ counter' = counter /\ dropped' = dropped
      /\ before' = before /\ begun' = begun /\ accepted' = accepted
  BY DEF ReadAfter
<1>3. PICK e \in Directions :
        /\ after' = [after EXCEPT ![e] = counter[e]]
        /\ \/ phase = "after_server" /\ phase' = "after_client" /\ e = "server_egress"
           \/ phase = "after_client" /\ phase' = "sampled" /\ e = "client_egress"
        /\ ended' \in [Samples -> Nat]
        /\ phase' = "sampled" => ended'["after"] = now
  BY <1>1, EvidenceConstants DEF ReadAfter, EvidenceTypes, Samples
<1>4. EvidenceTypes'
  <2>1. counter[e] \in Int  BY <1>1 DEF EvidenceTypes
  <2>2. after' \in [Directions -> Int]  BY <1>1, <1>3, <2>1 DEF EvidenceTypes
  <2> QED BY <1>1, <1>2, <1>3, <2>2 DEF EvidenceTypes
<1>5. accepted' # "yes"  BY <1>2, <1>3 DEF EvidenceInv
<1>6. StartAt <= now  BY <1>3 DEF EvidenceInv
<1>7. \A d \in Directions : HasBefore(d)  BY <1>3 DEF HasBefore
<1>8. ASSUME NEW d \in Directions PROVE HasAfter(d)' => HasAfter(d) \/ d = e
  BY <1>3, EvidenceConstants DEF HasAfter
<1>9. ASSUME NEW d \in Directions, now <= StopAt PROVE Inside(d, before[d], counter[d])'
  <2>1. Inside(d, before[d], counter[d])  BY <1>7, <1>9 DEF EvidenceInv
  <2> QED BY <1>2, <2>1 DEF Inside, Shows
<1>10. ASSUME NEW d \in Directions, HasAfter(d) \/ d = e, now <= StopAt
       PROVE  Inside(d, before[d], after[d])'
  <2>1. CASE d = e
    <3>1. after'[d] = counter'[d]  BY <1>1, <1>2, <1>3, <2>1 DEF EvidenceTypes
    <3>2. Inside(d, before[d], counter[d])'  BY <1>9, <1>10
    <3> QED BY <3>1, <3>2 DEF Inside, Shows
  <2>2. CASE d # e
    <3>1. Inside(d, before[d], after[d])  BY <1>10, <2>2 DEF EvidenceInv
    <3>2. after'[d] = after[d]  BY <1>1, <1>3, <2>2 DEF EvidenceTypes
    <3> QED BY <1>2, <3>1, <3>2 DEF Inside, Shows
  <2> QED BY <2>1, <2>2
<1> QED BY <1>2, <1>3, <1>4, <1>5, <1>6, <1>8, <1>9, <1>10 DEF EvidenceInv

(* The gate accepts nothing but what happened while the window was open.    *)
LEMMA ValidateKeeps == ASSUME EvidenceInv, Validate PROVE EvidenceInv'
<1>1. EvidenceTypes /\ phase = "sampled" /\ ended["after"] = now  BY DEF EvidenceInv, Validate
<1>2. /\ now' = now /\ loss' = loss /\ counter' = counter /\ dropped' = dropped
      /\ before' = before /\ after' = after /\ begun' = begun /\ ended' = ended
      /\ phase' = "done" /\ (accepted' = "yes" => ValidateNetemLossEvidence)
  BY DEF Validate
<1>3. EvidenceTypes'  BY <1>1, <1>2 DEF EvidenceTypes
<1>4. \A d \in Directions : ~HasBefore(d)' /\ ~HasAfter(d)'  BY <1>2 DEF HasBefore, HasAfter
<1>5. ASSUME accepted' = "yes" PROVE EvidenceIsInner'
  <2>1. now <= StopAt  BY <1>1, <1>2, <1>5 DEF ValidateNetemLossEvidence, WithinBounds
  <2>2. ASSUME NEW d \in Directions PROVE Shown(d) \in 1..dropped[d]
    <3>1. Inside(d, before[d], after[d])  BY <1>1, <2>1 DEF EvidenceInv, HasAfter
    <3>2. Shown(d) = Shows(before[d], after[d])  BY DEF Shown, Shows
    <3>3. before[d] \in Nat /\ after[d] \in Nat /\ (loss = "trace" => before[d] <= after[d])
          /\ Shows(before[d], after[d]) <= dropped[d]
      BY <3>1 DEF Inside
    <3>4. Shows(before[d], after[d]) \in Int
      <4>1. CASE loss = "random"  BY <3>3, <4>1 DEF Shows
      <4>2. CASE loss = "trace"
        <5>1. CountDropsInRange(before[d], after[d]) \in Nat  BY <3>3, <4>2, OneMoreDrop
        <5> QED BY <4>2, <5>1 DEF Shows
      <4> QED BY <1>1, <4>1, <4>2 DEF EvidenceTypes
    <3>5. Shown(d) > 0  BY <1>2, <1>5 DEF ValidateNetemLossEvidence
    <3>6. dropped[d] \in Nat  BY <1>1 DEF EvidenceTypes
    <3> QED BY <3>2, <3>3, <3>4, <3>5, <3>6
  <2>3. \A d \in Directions : (Shown(d) \in 1..dropped[d])'
    BY <1>2, <2>2 DEF Shown
  <2> QED BY <2>3 DEF EvidenceIsInner
<1> QED BY <1>2, <1>3, <1>4, <1>5 DEF EvidenceInv

LEMMA EvidenceInductive == EvidenceInv /\ [EvidenceNext]_evidenceVars => EvidenceInv'
<1> SUFFICES ASSUME EvidenceInv, [EvidenceNext]_evidenceVars PROVE EvidenceInv'  OBVIOUS
<1>1. CASE Tick \/ \E d \in Directions : Replace(d)
  BY <1>1, TickKeepsEvidence, ReplaceKeepsEvidence
<1>2. CASE BeginBefore \/ BeginAfter \/ GiveUpSampling  BY <1>2, BeginKeepsEvidence
<1>3. CASE ReadBefore \/ ReadAfter \/ Validate
  BY <1>3, ReadBeforeKeeps, ReadAfterKeeps, ValidateKeeps
<1>4. CASE UNCHANGED evidenceVars
  <2>1. EvidenceTypes'  BY <1>4 DEF EvidenceInv, EvidenceTypes, evidenceVars
  <2>2. EvidenceIsInner => EvidenceIsInner'
    BY <1>4 DEF EvidenceIsInner, Shown, evidenceVars
  <2>3. ASSUME NEW d \in Directions, HasBefore(d)', (now <= StopAt)'
        PROVE  Inside(d, before[d], counter[d])'
    <3>1. Inside(d, before[d], counter[d])
      BY <1>4, <2>3 DEF EvidenceInv, HasBefore, evidenceVars
    <3> QED BY <1>4, <3>1 DEF Inside, Shows, evidenceVars
  <2>4. ASSUME NEW d \in Directions, HasAfter(d)', (now <= StopAt)'
        PROVE  Inside(d, before[d], after[d])'
    <3>1. Inside(d, before[d], after[d])
      BY <1>4, <2>4 DEF EvidenceInv, HasAfter, evidenceVars
    <3> QED BY <1>4, <3>1 DEF Inside, Shows, evidenceVars
  <2> QED BY <1>4, <2>1, <2>2, <2>3, <2>4 DEF EvidenceInv, evidenceVars
<1> QED BY <1>1, <1>2, <1>3, <1>4 DEF EvidenceNext

(* Whatever the window, the trace and the tempo of the collector: accepted  *)
(* evidence shows a drop in every direction, and none that was not inside   *)
(* the window.                                                              *)
THEOREM EvidenceShowsTheWindow == EvidenceSpec => []EvidenceIsInner
<1>1. EvidenceInv => EvidenceIsInner  BY DEF EvidenceInv, EvidenceIsInner
<1> QED BY <1>1, EvidenceInitInv, EvidenceInductive, PTL DEF EvidenceSpec

-----------------------------------------------------------------------------
(* The load on offer                                                       *)

Interval == load.interval
Period == load.period
Length == load.duration

LoadTypes ==
  /\ load \in [interval : Nat \ {0}, first : 0..WindowAt, period : Nat \ {0}, duration : Nat]
  /\ load.duration >= load.period /\ load.duration >= load.interval
  /\ clock \in Nat /\ nextSlot \in Nat /\ slots \in Nat /\ nextSample \in Nat /\ samples \in Nat

(* The first sample was taken within a period of the start of the window,   *)
(* the others in step; the next one is due within a period of the loop.     *)
SamplesInv ==
  /\ clock < WindowAt => nextSample = 0 /\ samples = 0
  /\ clock >= WindowAt =>
       \E s \in WindowAt..(WindowAt + Period - 1) :
         /\ samples >= 1 /\ nextSample = s + samples * Period
         /\ clock < WindowEnd => clock < nextSample /\ nextSample <= clock + Period
         /\ WindowEnd - Period < nextSample \/ clock < WindowEnd
         /\ nextSample < WindowEnd + Period

(* The slots counted are those from the first one of the window on.         *)
SlotsInv ==
  /\ \E w \in WindowAt..(WindowAt + Interval - 1), k \in Nat :
       /\ nextSlot + k * Interval = w + slots * Interval
       /\ k = 0 \/ slots = 0
  /\ nextSlot < WindowEnd + Interval
  /\ clock >= WindowEnd => nextSlot >= WindowEnd

LoadInv == LoadTypes /\ SamplesInv /\ SlotsInv

LEMMA LoadConstants ==
  ASSUME LoadTypes
  PROVE  /\ WindowAt \in Nat \ {0} /\ WindowEnd \in Nat /\ WindowEnd = WindowAt + Length
         /\ Interval \in Nat \ {0} /\ Period \in Nat \ {0} /\ Length \in Nat \ {0}
         /\ Interval <= Length /\ Period <= Length
BY LoadAssumption DEF LoadTypes, Interval, Period, Length, WindowEnd

LEMMA LoadInitInv == LoadInit => LoadInv
<1> SUFFICES ASSUME LoadInit PROVE LoadInv  OBVIOUS
<1>1. LoadTypes  BY LoadAssumption DEF LoadInit, LoadTypes
<1>2. /\ clock = 0 /\ slots = 0 /\ nextSample = 0 /\ samples = 0
      /\ nextSlot = load.first /\ load.first \in 0..WindowAt
  BY <1>1 DEF LoadInit, LoadTypes
<1>3. SamplesInv  BY <1>1, <1>2, LoadConstants DEF SamplesInv
<1>4. SlotsInv
  <2> DEFINE I == Interval
             a == WindowAt - nextSlot + I - 1
             k == a \div I
  <2>1. I \in Nat \ {0} /\ a \in Nat /\ nextSlot \in Nat /\ WindowAt \in Nat /\ nextSlot <= WindowAt
    BY <1>1, <1>2, LoadConstants
  <2> HIDE DEF I
  <2>2. k \in Nat /\ I * k <= a /\ a < I * k + I
    <3> HIDE DEF a
    <3> QED BY ONLY <2>1, NatDivMod DEF k
  <2> HIDE DEF k
  <2>3. k * I = I * k /\ I * k \in Int  BY <2>1, <2>2
  <2>5. k \in Nat /\ k * I \in Int /\ nextSlot + k * I \in WindowAt..(WindowAt + I - 1)
    BY <2>1, <2>2, <2>3
  <2> DEFINE w == nextSlot + k * I
  <2>6. w \in WindowAt..(WindowAt + I - 1) /\ nextSlot + k * I = w + slots * I
    BY <1>2, <2>1, <2>5
  <2> HIDE DEF w
  <2>7. nextSlot < WindowEnd + Interval /\ ~(clock >= WindowEnd)
    BY <1>1, <1>2, <2>1, LoadConstants
  <2> QED BY <1>2, <2>5, <2>6, <2>7 DEF SlotsInv, I
<1> QED BY <1>1, <1>3, <1>4 DEF LoadInv

(* The slots that are due, first and last                                   *)
LEMMA DueShape ==
  ASSUME NEW from \in Nat, NEW upto \in Nat, Interval \in Nat \ {0}
  PROVE  /\ from > upto => Due(from, upto) = {}
         /\ from <= upto => \E j \in Nat :
              /\ from + j * Interval <= upto /\ upto < from + (j + 1) * Interval
              /\ Due(from, upto) = {from + i * Interval : i \in 0..j}
<1> DEFINE I == Interval
           D == Due(from, upto)
           n == upto - from
           j == n \div I
<1>1. D = {t \in from..upto : (t - from) % I = 0}  BY DEF Due, Interval
<1>2. I \in Nat \ {0}  OBVIOUS
<1> HIDE DEF I, D
<1>3. from > upto => D = {}  BY <1>1
<1>4. ASSUME from <= upto
      PROVE  /\ j \in Nat /\ from + j * I <= upto /\ upto < from + (j + 1) * I
             /\ D = {from + i * I : i \in 0..j}
  <2>1. n \in Nat  BY <1>4
  <2>2. j \in Nat /\ I * j <= n /\ n < I * j + I
    <3> HIDE DEF n
    <3> QED BY ONLY <1>2, <2>1, NatDivMod DEF j
  <2> HIDE DEF j
  <2>3. j * I = I * j /\ (j + 1) * I = I * j + I /\ I * j \in Int  BY <1>2, <2>2
  <2>5. j \in Nat /\ from + j * I <= upto /\ upto < from + (j + 1) * I
    BY <1>2, <2>2, <2>3
  <2>6. ASSUME NEW t \in D PROVE \E i \in 0..j : t = from + i * I
    <3>1. t \in from..upto /\ (t - from) % I = 0  BY <1>1
    <3> DEFINE u == t - from
               i == u \div I
    <3>2. u \in Int /\ u % I = 0 /\ 0 <= u /\ u <= n  BY <3>1
    <3> HIDE DEF u
    <3>3. i \in Nat /\ u = I * i
      <4>1. u \in Nat  BY <3>2
      <4>2. u = I * i + (u % I)  BY ONLY <1>2, <3>2, DivMod DEF i
      <4>3. i \in Nat  BY ONLY <1>2, <4>1, NatDivMod DEF i
      <4> HIDE DEF i
      <4> QED BY <1>2, <3>2, <4>2, <4>3
    <3> HIDE DEF i
    <3>4. u = I * i /\ I * i = i * I  BY <1>2, <3>2, <3>3
    <3>6. i <= j
      <4> SUFFICES ASSUME i >= j + 1 PROVE FALSE  BY <2>2, <3>3
      <4>1. I * i = I * (i - j - 1) + I * j + I /\ I * (i - j - 1) >= 0  BY <1>2, <2>2, <3>3
      <4> HIDE DEF n
      <4> QED BY <1>2, <2>1, <2>2, <2>3, <3>2, <3>3, <3>4, <4>1
    <3>7. t = from + i * I  BY <3>1, <3>3, <3>4 DEF u
    <3> QED BY <2>2, <3>3, <3>6, <3>7
  <2>7. ASSUME NEW i \in 0..j PROVE from + i * I \in D
    <3> DEFINE t == from + i * I
    <3>1. i \in Nat /\ i * I \in Nat /\ i * I = I * i /\ (j - i) * I >= 0 /\ (j - i) * I = j * I - i * I
      BY <1>2, <2>2
    <3>2. t \in Nat /\ from <= t /\ t <= upto  BY <2>5, <3>1, <1>2
    <3>3. t - from = I * i + 0 /\ t - from \in Int /\ 0 \in 0..(I - 1) /\ i \in Int
      BY <1>2, <3>1, <3>2
    <3> HIDE DEF t
    <3>4. (t - from) % I = 0  BY ONLY <1>2, <3>3, Quotient
    <3> QED BY <1>1, <3>2, <3>4 DEF t
  <2>8. D = {from + i * I : i \in 0..j}  BY <2>6, <2>7
  <2> QED BY <2>5, <2>8
<1> HIDE DEF j
<1> QED BY <1>3, <1>4 DEF I, D

LEMMA LastIs ==
  ASSUME NEW S \in SUBSET Nat, NEW l \in S, \A t \in S : t <= l
  PROVE  LastOf(S) = l
<1>1. LastOf(S) \in S /\ \A t \in S : t <= LastOf(S)  BY DEF LastOf
<1>2. LastOf(S) <= l /\ l <= LastOf(S) /\ LastOf(S) \in Nat /\ l \in Nat  BY <1>1
<1> QED BY <1>2

LEMMA CountOf ==
  ASSUME NEW S \in SUBSET Nat, NEW f \in S, NEW l \in S, \A t \in S : f <= t /\ t <= l,
         Interval \in Nat \ {0}, NEW n \in Nat, l = f + n * Interval
  PROVE  Count(S) = n + 1
<1> DEFINE first == CHOOSE t \in S : \A u \in S : t <= u
<1>1. first \in S /\ \A u \in S : first <= u  OBVIOUS
<1>2. first <= f /\ f <= first /\ first \in Nat /\ f \in Nat  BY <1>1
<1>3. first = f  BY <1>2
<1>4. LastOf(S) = l  BY LastIs
<1>5. Count(S) = 1 + (LastOf(S) - first) \div load.interval
  <2>1. S # {}  OBVIOUS
  <2> QED BY <2>1 DEF Count
<1> HIDE DEF first
<1>6. LastOf(S) - first = Interval * n + 0 /\ 0 \in 0..(Interval - 1) /\ n \in Int
      /\ LastOf(S) - first \in Int
  <2>1. l - f = Interval * n  BY <1>2
  <2> QED BY <1>2, <1>3, <1>4, <2>1
<1>7. (LastOf(S) - first) \div Interval = n  BY <1>6, Quotient
<1> QED BY <1>5, <1>7 DEF Interval

(* What an iteration sends                                                  *)
LEMMA SendStep ==
  ASSUME LoadTypes, SlotsInv, NEW cutoff \in Nat, cutoff < WindowEnd
  PROVE  LET due == Due(nextSlot, cutoff)
             sent == slots + Count(Measured(due))
             then == IF due = {} THEN nextSlot ELSE LastOf(due) + Interval
         IN /\ sent \in Nat /\ then \in Nat /\ cutoff < then /\ then < WindowEnd + Interval
            /\ \E w \in WindowAt..(WindowAt + Interval - 1), k \in Nat :
                 /\ then + k * Interval = w + sent * Interval
                 /\ k = 0 \/ sent = 0
<1> DEFINE I == Interval
           due == Due(nextSlot, cutoff)
           sent == slots + Count(Measured(due))
           then == IF due = {} THEN nextSlot ELSE LastOf(due) + I
<1>1. /\ I \in Nat \ {0} /\ nextSlot \in Nat /\ slots \in Nat /\ WindowAt \in Nat
      /\ WindowEnd \in Nat /\ nextSlot < WindowEnd + I
  BY LoadConstants DEF LoadTypes, SlotsInv
<1>2. PICK w \in WindowAt..(WindowAt + I - 1), k \in Nat :
        nextSlot + k * I = w + slots * I /\ (k = 0 \/ slots = 0)
  BY DEF SlotsInv
<1>3. CASE nextSlot > cutoff
  <2>1. due = {}  BY <1>1, <1>3, DueShape
  <2>2. Measured(due) = {}  BY <2>1 DEF Measured
  <2>3. sent = slots  BY <1>1, <2>2 DEF Count
  <2>4. then = nextSlot  BY <2>1
  <2> HIDE DEF due, sent, then, I
  <2> QED BY <1>1, <1>2, <1>3, <2>3, <2>4 DEF due, sent, then, I
<1>4. CASE nextSlot <= cutoff
  <2>1. PICK j \in Nat : /\ nextSlot + j * I <= cutoff /\ cutoff < nextSlot + (j + 1) * I
                         /\ due = {nextSlot + i * I : i \in 0..j}
    BY <1>1, <1>4, DueShape
  <2> DEFINE l == nextSlot + j * I
  <2> HIDE DEF due, I
  <2>2. /\ l \in due /\ due \in SUBSET Nat /\ \A t \in due : t <= l
        /\ l \in Nat
    <3>1. \A i \in 0..j : nextSlot + i * I \in Nat /\ nextSlot + i * I <= l
      <4> SUFFICES ASSUME NEW i \in 0..j PROVE nextSlot + i * I \in Nat /\ nextSlot + i * I <= l
        OBVIOUS
      <4>1. i * I \in Nat /\ (j - i) * I >= 0 /\ (j - i) * I = j * I - i * I /\ j * I \in Nat
        BY <1>1, <2>1
      <4> QED BY <1>1, <4>1
    <3>2. j \in 0..j  BY <2>1
    <3> QED BY <2>1, <3>1, <3>2
  <2>3. LastOf(due) = l  BY <2>2, LastIs
  <2>4. then = l + I /\ due # {}  BY <2>2, <2>3
  <2>5. cutoff < l + I /\ l <= cutoff
    <3>1. (j + 1) * I = j * I + I /\ j * I \in Nat  BY <1>1, <2>1
    <3> QED BY <1>1, <2>1, <3>1
  <2> HIDE DEF l
  <2>6. /\ then \in Nat /\ cutoff < then /\ then < WindowEnd + I
    BY <1>1, <2>2, <2>4, <2>5
  <2>7. Measured(due) = {t \in due : t >= WindowAt}
    <3>1. \A t \in due : t < WindowEnd  BY <1>1, <2>2, <2>5
    <3> QED BY <3>1 DEF Measured
  <2>8. CASE j < k
    <3>1. slots = 0 /\ nextSlot + k * I = w  BY <1>1, <1>2, <2>1, <2>8
    <3>2. k - j - 1 \in Nat /\ (k - j - 1) * I = k * I - j * I - I /\ (k - j - 1) * I >= 0
          /\ k * I \in Nat /\ j * I \in Nat
      BY <1>1, <1>2, <2>1, <2>8
    <3>3. l + I + (k - j - 1) * I = w /\ l < WindowAt
      BY <1>1, <1>2, <3>1, <3>2 DEF l
    <3>4. Measured(due) = {}
      <4>1. \A t \in due : t \in Nat /\ t <= l  BY <2>2
      <4>2. \A t \in due : ~(t >= WindowAt)  BY <1>1, <2>2, <3>3, <4>1
      <4> QED BY <2>7, <4>2
    <3>5. sent = 0  BY <3>1, <3>4 DEF Count
    <3>6. w + sent * I = w  BY <1>1, <1>2, <3>5
    <3>7. then + (k - j - 1) * I = w + sent * I  BY <2>4, <3>3, <3>6
    <3> HIDE DEF then, sent
    <3>8. \E w2 \in WindowAt..(WindowAt + I - 1), k2 \in Nat :
            then + k2 * I = w2 + sent * I /\ (k2 = 0 \/ sent = 0)
      BY <1>2, <3>2, <3>5, <3>7
    <3> QED BY <2>6, <3>5, <3>8 DEF due, I, then, sent
  <2>9. CASE j >= k
    <3> DEFINE f == nextSlot + k * I
               n == j - k
    <3>1. n \in Nat /\ n * I = j * I - k * I /\ k * I \in Nat /\ j * I \in Nat /\ slots * I \in Nat
      <4>1. I \in Int /\ j \in Int /\ k \in Int  BY <1>1, <1>2, <2>1
      <4>2. (j - k) * I = j * I - k * I  BY <4>1
      <4>3. k * I \in Nat /\ j * I \in Nat /\ slots * I \in Nat  BY <1>1, <1>2, <2>1
      <4>4. j - k \in Nat  BY <1>2, <2>1, <2>9
      <4> QED BY <4>2, <4>3, <4>4
    <3>2. l = f + n * I /\ f \in Nat  BY <1>1, <3>1 DEF l
    <3>3. f = w + slots * I /\ f >= WindowAt  BY <1>1, <1>2, <3>1
    <3>4. f \in due
      <4>1. k \in 0..j  BY <1>2, <2>1, <2>9
      <4> QED BY <2>1, <4>1
    <3>5. ASSUME NEW t \in due, t >= WindowAt PROVE f <= t
      <4>1. PICK i \in 0..j : t = nextSlot + i * I  BY <2>1
      <4>2. CASE i >= k
        <5>1. (i - k) * I >= 0 /\ (i - k) * I = i * I - k * I /\ i * I \in Nat
          BY <1>1, <1>2, <2>1, <4>2
        <5> QED BY <1>1, <3>1, <4>1, <5>1
      <4>3. CASE i < k
        <5>1. slots = 0 /\ f = w  BY <1>1, <1>2, <2>1, <4>3
        <5>2. (k - i - 1) * I >= 0 /\ (k - i - 1) * I = k * I - i * I - I /\ i * I \in Nat
          BY <1>1, <1>2, <2>1, <4>3
        <5>3. t + I <= w  BY <1>1, <3>1, <4>1, <5>1, <5>2
        <5>4. t \in Nat /\ I \in Nat /\ w <= WindowAt + I - 1  BY <1>1, <1>2, <2>2
        <5> QED BY <1>1, <3>5, <5>3, <5>4
      <4> QED BY <1>2, <2>1, <4>2, <4>3
    <3> DEFINE S == Measured(due)
    <3> HIDE DEF f, n
    <3>6. S \in SUBSET Nat /\ f \in S /\ l \in S /\ \A t \in S : f <= t /\ t <= l
      <4>1. l >= WindowAt
        <5>1. n * I >= 0  BY <1>1, <3>1
        <5> QED BY <1>1, <3>1, <3>2, <3>3, <5>1
      <4> QED BY <2>2, <2>7, <3>3, <3>4, <3>5, <4>1
    <3> HIDE DEF S
    <3>7. Count(S) = n + 1  BY <1>1, <3>1, <3>2, <3>6, CountOf DEF I
    <3>8. sent = slots + n + 1  BY <1>1, <3>1, <3>7 DEF S
    <3>9. sent \in Nat /\ sent * I = slots * I + n * I + I  BY <1>1, <3>1, <3>8
    <3>10. l + I = w + sent * I  BY <1>1, <1>2, <3>1, <3>2, <3>3, <3>9
    <3>11. then + 0 * I = w + sent * I  BY <1>1, <2>2, <2>4, <3>10
    <3> HIDE DEF then, sent
    <3>12. \E w2 \in WindowAt..(WindowAt + I - 1), k2 \in Nat :
             then + k2 * I = w2 + sent * I /\ (k2 = 0 \/ sent = 0)
      BY <1>2, <3>11
    <3> QED BY <2>6, <3>9, <3>12 DEF due, I, then, sent
  <2> QED BY <1>2, <2>1, <2>8, <2>9
<1>5. nextSlot > cutoff \/ nextSlot <= cutoff  BY <1>1
<1> HIDE DEF I, due, sent, then
<1> QED BY ONLY <1>3, <1>4, <1>5, Zenon

(* What an iteration samples                                                *)
LEMMA SampleStep ==
  ASSUME LoadTypes, SamplesInv, NEW t \in (clock + 1)..(clock + Period), Iterate(t)
  PROVE  SamplesInv' /\ nextSample' \in Nat /\ samples' \in Nat
<1> DEFINE P == Period
           inWindow == WindowAt <= t /\ t < WindowEnd
           next == IF nextSample = 0 THEN t ELSE nextSample
           taken == IF inWindow /\ next <= t THEN 1 + (t - next) \div P ELSE 0
<1>1. /\ P \in Nat \ {0} /\ WindowAt \in Nat \ {0} /\ WindowEnd \in Nat
      /\ WindowAt + P <= WindowEnd /\ clock \in Nat /\ nextSample \in Nat /\ samples \in Nat
  BY LoadConstants DEF LoadTypes
<1>2. /\ samples' = samples + taken /\ clock < WindowEnd /\ clock' = t /\ load' = load
      /\ nextSample' = IF inWindow THEN next + taken * P ELSE nextSample
  BY DEF Iterate, Period
<1>3. WindowEnd' = WindowEnd /\ Period' = P  BY <1>2 DEF WindowEnd, Period
<1>4. t \in Nat /\ clock < t /\ t <= clock + P  BY <1>1
<1> HIDE DEF P, inWindow, next, taken
<1>5. CASE clock < WindowAt
  <2>1. nextSample = 0 /\ samples = 0  BY <1>5 DEF SamplesInv
  <2>2. CASE t < WindowAt
    <3>1. ~inWindow  BY <1>1, <1>4, <2>2 DEF inWindow
    <3>2. taken = 0  BY <3>1 DEF taken
    <3>3. nextSample' = 0 /\ samples' = 0  BY <1>2, <2>1, <3>1, <3>2
    <3> QED BY <1>1, <1>2, <1>4, <2>2, <3>3 DEF SamplesInv
  <2>3. CASE t >= WindowAt
    <3>1. inWindow  BY <1>1, <1>4, <1>5, <2>3 DEF inWindow
    <3>2. next = t  BY <2>1 DEF next
    <3>3. (t - t) \div P = 0
      <4>1. t - t = P * 0 + 0 /\ t - t \in Int /\ 0 \in Int /\ 0 \in 0..(P - 1)  BY <1>1, <1>4
      <4> QED BY ONLY <1>1, <4>1, Quotient
    <3>4. taken = 1  BY <1>4, <3>1, <3>2, <3>3 DEF taken
    <3>5. nextSample' = t + P /\ samples' = 1  BY <1>1, <1>2, <1>4, <2>1, <3>1, <3>2, <3>4
    <3>6. t \in WindowAt..(WindowAt + P - 1) /\ nextSample' = t + samples' * P
      BY <1>1, <1>4, <1>5, <2>3, <3>5
    <3>7. t < WindowEnd  BY <3>1 DEF inWindow
    <3> QED BY <1>1, <1>2, <1>3, <1>4, <2>3, <3>5, <3>6, <3>7 DEF SamplesInv
  <2> QED BY <1>1, <1>4, <2>2, <2>3
<1>6. CASE clock >= WindowAt
  <2>1. PICK s \in WindowAt..(WindowAt + P - 1) :
          /\ samples >= 1 /\ nextSample = s + samples * P
          /\ clock < nextSample /\ nextSample <= clock + P /\ nextSample < WindowEnd + P
    BY <1>2, <1>6 DEF SamplesInv, P
  <2>2. next = nextSample  BY <1>1, <1>4, <2>1 DEF next
  <2>3. CASE ~inWindow
    <3>1. taken = 0 /\ nextSample' = nextSample /\ samples' = samples
      <4>1. taken = 0  BY <2>3 DEF taken
      <4> QED BY <1>1, <1>2, <2>3, <4>1
    <3>2. t >= WindowEnd  BY <1>1, <1>4, <1>6, <2>3 DEF inWindow
    <3>3. WindowEnd - P < nextSample  BY <1>1, <1>4, <2>1, <3>2
    <3> QED BY <1>1, <1>2, <1>3, <1>4, <2>1, <3>1, <3>2, <3>3 DEF SamplesInv
  <2>4. CASE inWindow
    <3>1. t < WindowEnd /\ t >= WindowAt  BY <2>4 DEF inWindow
    <3>2. taken \in Nat /\ nextSample + taken * P > t /\ nextSample + taken * P <= t + P
      <4>1. CASE nextSample > t
        <5>1. taken = 0  BY <1>1, <1>4, <2>2, <4>1 DEF taken
        <5> QED BY <1>1, <1>4, <2>1, <4>1, <5>1
      <4>2. CASE nextSample <= t
        <5> DEFINE a == t - nextSample
                   q == a \div P
        <5>1. a \in Nat  BY <1>1, <1>4, <4>2
        <5> HIDE DEF a
        <5>2. q \in Nat /\ P * q <= a /\ a < P * q + P  BY ONLY <1>1, <5>1, NatDivMod DEF q
        <5>3. taken = 1 + q  BY <2>2, <2>4, <4>2 DEF taken, q, a
        <5> HIDE DEF q
        <5>4. taken * P = P * q + P /\ P * q \in Nat  BY <1>1, <5>2, <5>3
        <5>5. a = t - nextSample  BY DEF a
        <5> QED BY <1>1, <1>4, <5>2, <5>3, <5>4, <5>5
      <4> QED BY <1>1, <1>4, <4>1, <4>2
    <3>3. nextSample' = nextSample + taken * P  BY <1>2, <2>2, <2>4
    <3>4. samples' \in Nat /\ samples' >= 1 /\ samples' * P = samples * P + taken * P
          /\ samples * P \in Nat /\ taken * P \in Nat
      BY <1>1, <1>2, <2>1, <3>2
    <3>5. nextSample' = s + samples' * P  BY <1>1, <2>1, <3>3, <3>4
    <3>6. t < nextSample' /\ nextSample' <= t + P  BY <3>2, <3>3
    <3>7. nextSample' < WindowEnd + P /\ nextSample' \in Nat
      BY <1>1, <1>4, <2>1, <3>1, <3>3, <3>4, <3>6
    <3> QED BY <1>1, <1>2, <1>3, <1>4, <2>1, <3>1, <3>4, <3>5, <3>6, <3>7 DEF SamplesInv
  <2> QED BY <2>3, <2>4
<1> QED BY <1>1, <1>5, <1>6

LEMMA LoadInductive == LoadInv /\ [LoadNext]_loadVars => LoadInv'
<1>1. ASSUME LoadInv, NEW t \in (clock + 1)..(clock + load.period), Iterate(t) PROVE LoadInv'
  <2>1. LoadTypes /\ SamplesInv /\ SlotsInv  BY <1>1 DEF LoadInv
  <2>2. SamplesInv' /\ nextSample' \in Nat /\ samples' \in Nat
    BY <1>1, <2>1, SampleStep DEF Period
  <2> DEFINE cutoff == IF t < WindowEnd THEN t ELSE WindowEnd - 1
             due == Due(nextSlot, cutoff)
  <2>3. /\ clock' = t /\ load' = load /\ slots' = slots + Count(Measured(due))
        /\ nextSlot' = IF due = {} THEN nextSlot ELSE LastOf(due) + Interval
    BY <1>1 DEF Iterate, Interval
  <2>4. t \in Nat /\ WindowEnd \in Nat \ {0}  BY <1>1, <2>1, LoadConstants DEF LoadTypes
  <2>5. cutoff \in Nat /\ cutoff < WindowEnd /\ (t >= WindowEnd => cutoff = WindowEnd - 1)
    BY <2>4
  <2> HIDE DEF cutoff
  <2>6. /\ slots' \in Nat /\ nextSlot' \in Nat /\ cutoff < nextSlot'
        /\ nextSlot' < WindowEnd + Interval
        /\ \E w \in WindowAt..(WindowAt + Interval - 1), k \in Nat :
             nextSlot' + k * Interval = w + slots' * Interval /\ (k = 0 \/ slots' = 0)
    BY <2>1, <2>3, <2>5, SendStep
  <2>7. WindowEnd' = WindowEnd /\ Interval' = Interval  BY <2>3 DEF WindowEnd, Interval
  <2>8. t >= WindowEnd => nextSlot' >= WindowEnd  BY <2>4, <2>5, <2>6
  <2>9. SlotsInv'  BY <2>3, <2>6, <2>7, <2>8 DEF SlotsInv
  <2>10. LoadTypes'  BY <2>1, <2>2, <2>3, <2>4, <2>6 DEF LoadTypes
  <2> QED BY <2>2, <2>9, <2>10 DEF LoadInv
<1>2. ASSUME LoadInv, UNCHANGED loadVars PROVE LoadInv'
  BY <1>2 DEF LoadInv, LoadTypes, SamplesInv, SlotsInv, WindowEnd, Period, Interval, loadVars
<1> QED BY <1>1, <1>2 DEF LoadNext

LEMMA Scaled ==
  ASSUME NEW a \in Int, NEW b \in Int, NEW x \in a..b, NEW s \in Nat
  PROVE  x * s \in (a * s)..(b * s)
<1>1. x \in Int /\ x - a \in Nat /\ b - x \in Nat  OBVIOUS
<1>2. (x - a) * s >= 0 /\ (x - a) * s = x * s - a * s  BY <1>1
<1>3. (b - x) * s >= 0 /\ (b - x) * s = b * s - x * s  BY <1>1
<1>4. x * s \in Int /\ a * s \in Int /\ b * s \in Int  BY <1>1
<1> QED BY <1>2, <1>3, <1>4

(* What a process has counted when it is past the window                    *)
LEMMA SlotsAtEnd ==
  ASSUME LoadInv, clock >= WindowEnd
  PROVE  slots \in (Length \div Interval)..CeilDiv(Length, Interval) /\ slots >= 1
<1>1. LoadTypes /\ SlotsInv  BY DEF LoadInv
<1>2. /\ WindowAt \in Nat /\ WindowEnd = WindowAt + Length /\ Interval \in Nat \ {0}
      /\ Length \in Nat \ {0} /\ Interval <= Length /\ slots \in Nat /\ nextSlot \in Nat
  BY <1>1, LoadConstants DEF LoadTypes
<1>3. PICK w \in WindowAt..(WindowAt + Interval - 1), k \in Nat :
        nextSlot + k * Interval = w + slots * Interval /\ (k = 0 \/ slots = 0)
  BY <1>1 DEF SlotsInv
<1>4. nextSlot >= WindowEnd /\ nextSlot < WindowEnd + Interval  BY <1>1 DEF SlotsInv
<1>5. k * Interval \in Nat /\ slots * Interval \in Nat  BY <1>2, <1>3
<1>6. slots # 0
  <2> SUFFICES ASSUME slots = 0 PROVE FALSE  OBVIOUS
  <2>1. nextSlot <= w  BY <1>2, <1>3, <1>5
  <2> QED BY <1>2, <1>3, <1>4, <2>1
<1>7. nextSlot = w + slots * Interval  BY <1>2, <1>3, <1>5, <1>6
<1>8. slots * Interval > Length - Interval /\ slots * Interval < Length + Interval
  BY <1>2, <1>3, <1>4, <1>5, <1>7
<1>9. slots \in (Length \div Interval)..((Length + Interval - 1) \div Interval)
  BY <1>2, <1>8, CountInRange
<1> QED BY <1>2, <1>6, <1>9 DEF CeilDiv

LEMMA SamplesAtEnd ==
  ASSUME LoadInv, clock >= WindowEnd
  PROVE  LET ticks == CeilDiv(Length, Period)
         IN ticks \in Int /\ samples \in (IF ticks > 2 THEN ticks - 2 ELSE 1)..(ticks + 2)
<1> DEFINE P == Period
           a == Length + P - 1
           c == a \div P
<1>1. LoadTypes /\ SamplesInv  BY DEF LoadInv
<1>2. /\ WindowAt \in Nat /\ WindowEnd = WindowAt + Length /\ P \in Nat \ {0}
      /\ Length \in Nat \ {0} /\ samples \in Nat /\ nextSample \in Nat
  BY <1>1, LoadConstants DEF LoadTypes
<1>3. clock >= WindowAt /\ clock \in Nat  BY <1>1, <1>2 DEF LoadTypes
<1>4. PICK s \in WindowAt..(WindowAt + P - 1) :
        /\ samples >= 1 /\ nextSample = s + samples * P
        /\ WindowEnd - P < nextSample /\ nextSample < WindowEnd + P
  BY <1>1, <1>2, <1>3 DEF SamplesInv
<1> HIDE DEF P
<1>5. samples * P \in Nat /\ samples * P > Length - 2 * P + 1 - 1 /\ samples * P < Length + P
  BY <1>2, <1>4
<1>6. a \in Nat  BY <1>2
<1>7. a = Length + P - 1  OBVIOUS
<1> HIDE DEF a
<1>8. c \in Nat /\ P * c <= a /\ a < P * c + P  BY ONLY <1>2, <1>6, NatDivMod DEF c
<1> HIDE DEF c
<1>9. P * c \in Nat  BY <1>2, <1>8
<1>10. ~(samples <= c - 3)
  <2> SUFFICES ASSUME samples <= c - 3 PROVE FALSE  OBVIOUS
  <2>1. c - 3 - samples \in Nat  BY <1>2, <1>8
  <2>2. (c - 3 - samples) * P >= 0 /\ (c - 3 - samples) * P = P * c - 3 * P - samples * P
    BY <1>2, <1>8, <2>1
  <2> QED BY <1>2, <1>5, <1>7, <1>8, <1>9, <2>2
<1>11. ~(samples >= c + 3)
  <2> SUFFICES ASSUME samples >= c + 3 PROVE FALSE  OBVIOUS
  <2>1. samples - c - 3 \in Nat  BY <1>2, <1>8
  <2>2. (samples - c - 3) * P >= 0 /\ (samples - c - 3) * P = samples * P - P * c - 3 * P
    BY <1>2, <1>8, <2>1
  <2> QED BY <1>2, <1>5, <1>7, <1>8, <1>9, <2>2
<1>12. samples \in (IF c > 2 THEN c - 2 ELSE 1)..(c + 2)
  BY <1>2, <1>4, <1>8, <1>10, <1>11
<1>13. CeilDiv(Length, Period) = c  BY DEF CeilDiv, c, a, P
<1> QED BY <1>8, <1>12, <1>13

-----------------------------------------------------------------------------
(* The connections of a run, shared out                                     *)

LEMMA SharesAddUp ==
  ASSUME NEW total \in Nat, NEW procs \in Nat \ {0}
  PROVE  SumFunction(SplitConns(total, procs)) = total
<1> DEFINE q == total \div procs
           r == total % procs
           g == SplitConns(total, procs)
           S == 1..procs
           T == 1..(q + 1)
           F == [i \in S |-> 1..g[i]]
<1>1. q \in Nat /\ r \in 0..(procs - 1) /\ total = procs * q + r
  <2>1. q \in Nat  BY NatDivMod
  <2>2. r \in 0..(procs - 1) /\ total = procs * q + r  BY DivMod
  <2> QED BY <2>1, <2>2
<1>2. g = [i \in S |-> q + (IF i <= r THEN 1 ELSE 0)]  BY DEF SplitConns
<1> HIDE DEF q, r, g
<1>3. \A i \in S : g[i] \in Nat /\ g[i] = (IF i <= r THEN q + 1 ELSE q)  BY <1>1, <1>2
<1>4. g \in [S -> Nat]  BY <1>1, <1>2
<1>5. F \in [S -> SUBSET T]
  <2>1. \A i \in S : 1..g[i] \in SUBSET T  BY <1>1, <1>3
  <2> QED BY <2>1
<1>6. \A i \in S : IsFiniteSet(F[i]) /\ g[i] = Cardinality(F[i])
  <2> SUFFICES ASSUME NEW i \in S PROVE IsFiniteSet(F[i]) /\ g[i] = Cardinality(F[i])  OBVIOUS
  <2>1. PICK n \in Nat : n = g[i]  BY <1>3
  <2>2. IsFiniteSet(1..n) /\ Cardinality(1..n) = IF 1 > n THEN 0 ELSE n - 1 + 1
    BY FS_Interval
  <2>3. Cardinality(1..n) = n  BY <2>2
  <2>4. F[i] = 1..n  BY <2>1
  <2> QED BY <2>1, <2>2, <2>3, <2>4
<1>7. IsFiniteSet(S) /\ Cardinality(S) = procs
  <2>1. Cardinality(S) = IF 1 > procs THEN 0 ELSE procs - 1 + 1  BY FS_Interval
  <2> QED BY <2>1, FS_Interval
<1>8. SumFunction(g) = Cardinality(Pairs(S, T, F))
  <2> HIDE DEF S, T, F
  <2> QED BY <1>4, <1>5, <1>6, <1>7, SumOfSizes
<1> DEFINE A == S \X (1..q)
           B == (1..r) \X {q + 1}
<1>9. Pairs(S, T, F) = A \cup B
  <2>1. ASSUME NEW i \in S, NEW k \in T PROVE k \in F[i] <=> k <= q \/ (i <= r /\ k = q + 1)
    <3>1. k \in F[i] <=> k <= g[i]  BY <1>3
    <3> QED BY <1>1, <1>3, <3>1
  <2>2. A \subseteq S \X T /\ B \subseteq S \X T
    <3>1. 1..q \subseteq T /\ 1..r \subseteq S /\ q + 1 \in T  BY <1>1
    <3> QED BY <3>1
  <2>3. ASSUME NEW t \in S \X T PROVE t \in Pairs(S, T, F) <=> t \in A \cup B
    <3>1. PICK i \in S, k \in T : t = <<i, k>>  OBVIOUS
    <3>2. t \in Pairs(S, T, F) <=> k \in F[i]  BY <3>1 DEF Pairs
    <3>3. t \in A <=> k <= q  BY <1>1, <3>1
    <3>4. t \in B <=> i <= r /\ k = q + 1  BY <1>1, <3>1
    <3> QED BY <2>1, <3>2, <3>3, <3>4
  <2>4. Pairs(S, T, F) \subseteq S \X T  BY DEF Pairs
  <2> HIDE DEF S, T, F, A, B
  <2> QED BY <2>2, <2>3, <2>4
<1>10. IsFiniteSet(A) /\ Cardinality(A) = procs * q
  <2>1. IsFiniteSet(1..q) /\ Cardinality(1..q) = q
    <3>1. Cardinality(1..q) = IF 1 > q THEN 0 ELSE q - 1 + 1  BY <1>1, FS_Interval
    <3> QED BY <1>1, <3>1, FS_Interval
  <2> HIDE DEF S
  <2> QED BY <1>7, <2>1, FS_Product
<1>11. IsFiniteSet(B) /\ Cardinality(B) = r
  <2>1. IsFiniteSet(1..r) /\ Cardinality(1..r) = r
    <3>1. r \in Nat /\ Cardinality(1..r) = IF 1 > r THEN 0 ELSE r - 1 + 1  BY <1>1, FS_Interval
    <3> QED BY <3>1, FS_Interval
  <2>2. IsFiniteSet({q + 1}) /\ Cardinality({q + 1}) = 1  BY FS_Singleton
  <2>3. IsFiniteSet(B) /\ Cardinality(B) = Cardinality(1..r) * Cardinality({q + 1})
    BY <2>1, <2>2, FS_Product
  <2> HIDE DEF B
  <2> QED BY <1>1, <2>1, <2>2, <2>3
<1>12. A \cap B = {}  BY <1>1
<1>13. Cardinality(A \cup B) = procs * q + r
  <2> HIDE DEF A, B
  <2>1. Cardinality(A \cap B) = 0  BY <1>12, FS_EmptySet
  <2>2. Cardinality(A \cup B) = Cardinality(A) + Cardinality(B) - Cardinality(A \cap B)
    BY <1>10, <1>11, FS_Union
  <2> QED BY <1>1, <1>10, <1>11, <2>1, <2>2
<1> HIDE DEF A, B
<1> QED BY <1>1, <1>8, <1>9, <1>13 DEF g

LEMMA NothingAddsUp ==
  ASSUME NEW procs \in Nat PROVE SumFunction([i \in 1..procs |-> 0]) = 0
<1> DEFINE S == 1..procs
           g == [i \in S |-> 0]
           F == [i \in S |-> {}]
           T == {0}
<1>1. IsFiniteSet(S)  BY FS_Interval
<1>2. g \in [S -> Nat] /\ F \in [S -> SUBSET T]  OBVIOUS
<1>3. IsFiniteSet({}) /\ Cardinality({}) = 0  BY FS_EmptySet
<1>4. \A i \in S : IsFiniteSet(F[i]) /\ g[i] = Cardinality(F[i])  BY <1>3
<1>5. Pairs(S, T, F) = {}  BY DEF Pairs
<1>6. SumFunction(g) = Cardinality(Pairs(S, T, F))
  <2> HIDE DEF S, g, F, T
  <2> QED BY <1>1, <1>2, <1>4, SumOfSizes
<1> QED BY <1>3, <1>5, <1>6

(* One stream and flow as they should be make all of them so.               *)
LEMMA EndIsAccepted ==
  ASSUME LoadInv, clock >= WindowEnd, NEW total \in Nat \ {0}, NEW procs \in 1..total
  PROVE  Accepted(total, procs)
<1> DEFINE kind == "authoritative_state"
           conns == SplitConns(total, procs)
           Server(d) == Registered("server", d, total, total)
           Client(d, i) == Registered("client", d, conns[i], total)
           OfClients(d) == SumFunction([i \in 1..procs |-> Client(d, i)])
           SlotsOK(s) == slots * s \in SlotRange(Interval, Length, s)
           SamplesOK(f) == samples * f \in SampleRange(Length, Period, f)
<1>1. /\ procs \in Nat \ {0} /\ SumFunction(conns) = total
      /\ conns = [i \in 1..procs |-> conns[i]]
      /\ \A i \in 1..procs : conns[i] \in Nat
  <2>1. procs \in Nat \ {0} /\ total \in Nat  OBVIOUS
  <2>2. conns = [i \in 1..procs |-> (total \div procs) + (IF i <= total % procs THEN 1 ELSE 0)]
    BY DEF SplitConns
  <2>3. total \div procs \in Nat  BY <2>1, NatDivMod
  <2>4. SumFunction(conns) = total  BY <2>1, SharesAddUp
  <2> HIDE DEF conns
  <2>5. \A i \in 1..procs : conns[i] \in Nat  BY <2>2, <2>3
  <2>6. conns = [i \in 1..procs |-> conns[i]]  BY <2>2
  <2> QED BY <2>1, <2>4, <2>5, <2>6
<1>2. \A s \in Nat : SlotsOK(s)
  <2> SUFFICES ASSUME NEW s \in Nat PROVE SlotsOK(s)  OBVIOUS
  <2> DEFINE a == Length \div Interval
             b == CeilDiv(Length, Interval)
  <2>1. slots \in a..b  BY SlotsAtEnd
  <2>2. Length \in Nat \ {0} /\ Interval \in Nat \ {0}  BY LoadConstants DEF LoadInv
  <2>3. a \in Int /\ b \in Int
    <3>1. a \in Int  BY <2>2, DivMod
    <3>2. Length + Interval - 1 \in Int  BY <2>2
    <3> QED BY <2>2, <3>1, <3>2, DivMod DEF CeilDiv
  <2> HIDE DEF a, b
  <2>4. slots * s \in (a * s)..(b * s)  BY ONLY <2>1, <2>3, Scaled
  <2> QED BY <2>4 DEF SlotRange, a, b
<1>3. \A f \in Nat : SamplesOK(f)
  <2> SUFFICES ASSUME NEW f \in Nat PROVE SamplesOK(f)  OBVIOUS
  <2> DEFINE c == CeilDiv(Length, Period)
             low == IF c > 2 THEN c - 2 ELSE 1
  <2>1. c \in Int /\ samples \in low..(c + 2)  BY SamplesAtEnd
  <2> HIDE DEF c
  <2>2. low \in Int /\ c + 2 \in Int  BY <2>1
  <2>3. SampleRange(Length, Period, f) = (low * f)..((c + 2) * f)  BY DEF SampleRange, c
  <2> HIDE DEF low
  <2>4. samples * f \in (low * f)..((c + 2) * f)
    <3> DEFINE high == c + 2
    <3> HIDE DEF high
    <3>1. low \in Int /\ high \in Int /\ samples \in low..high  BY <2>1, <2>2 DEF high
    <3>2. samples * f \in (low * f)..(high * f)  BY ONLY <3>1, Scaled
    <3> QED BY <3>2 DEF high
  <2> QED BY <2>3, <2>4
<1>4. slots * total > 0
  <2>1. slots >= 1 /\ slots \in Nat  BY SlotsAtEnd DEF LoadInv, LoadTypes
  <2>2. (slots - 1) * total >= 0 /\ (slots - 1) * total = slots * total - total  BY <2>1
  <2> QED BY <2>1, <2>2
<1>5. /\ Server("client_to_server") = total /\ Server("server_to_client") = 0
      /\ \A i \in 1..procs : Client("client_to_server", i) = 0
                             /\ Client("server_to_client", i) = conns[i]
  <2> HIDE DEF conns
  <2> QED BY DEF Registered
<1>6. OfClients("client_to_server") = 0 /\ OfClients("server_to_client") = total
  <2>1. [i \in 1..procs |-> Client("client_to_server", i)] = [i \in 1..procs |-> 0]  BY <1>5
  <2>2. [i \in 1..procs |-> Client("server_to_client", i)] = conns
    <3> HIDE DEF conns, Client
    <3> QED BY <1>1, <1>5
  <2>3. SumFunction([i \in 1..procs |-> 0]) = 0
    <3>1. procs \in Nat  BY <1>1
    <3> QED BY <3>1, NothingAddsUp
  <2> HIDE DEF conns, Client
  <2> QED BY <1>1, <2>1, <2>2, <2>3
<1> HIDE DEF conns, Server, Client, OfClients, SlotsOK, SamplesOK
<1>7. ASSUME NEW d \in {"client_to_server", "server_to_client"}
      PROVE  /\ ProcessMetricsOK(kind, "server", d, CountsOf(total, Server(d)), total, total)
             /\ \A i \in 1..procs :
                  ProcessMetricsOK(kind, "client", d, CountsOf(conns[i], Client(d, i)), conns[i], total)
             /\ MergedMetricsOK(kind, d, CountsOf(total, Server(d) + OfClients(d)), total)
  <2>1. Server(d) + OfClients(d) = total  BY <1>5, <1>6
  <2>2. ExpectedFlows(kind, "server", d, total, total) = Server(d)
    BY <1>5 DEF ExpectedFlows
  <2>3. \A i \in 1..procs : ExpectedFlows(kind, "client", d, conns[i], total) = Client(d, i)
    BY <1>5 DEF ExpectedFlows
  <2>4. ExpectedFlows(kind, "merged", d, total, total) = total  BY DEF ExpectedFlows
  <2>5. ProcessMetricsOK(kind, "server", d, CountsOf(total, Server(d)), total, total)
    <3>1. slots * total \in SlotRange(Interval, Length, total)  BY <1>2 DEF SlotsOK
    <3> QED BY <2>2, <3>1 DEF ProcessMetricsOK, CountsOf, Interval, Length
  <2>6. ASSUME NEW i \in 1..procs
        PROVE  ProcessMetricsOK(kind, "client", d, CountsOf(conns[i], Client(d, i)), conns[i], total)
    <3>1. slots * conns[i] \in SlotRange(Interval, Length, conns[i])  BY <1>1, <1>2 DEF SlotsOK
    <3> QED BY <2>3, <3>1 DEF ProcessMetricsOK, CountsOf, Interval, Length
  <2>7. MergedMetricsOK(kind, d, CountsOf(total, Server(d) + OfClients(d)), total)
    <3>1. samples * total \in SampleRange(Length, Period, total)  BY <1>3 DEF SamplesOK
    <3> QED BY <1>4, <2>1, <2>4, <3>1 DEF MergedMetricsOK, CountsOf, Period, Length
  <2> QED BY <2>5, <2>6, <2>7
<1> QED BY <1>7 DEF Accepted, DirectionsOf, Server, Client, OfClients, conns

(* Whatever the rates, the window and the bounds: a loop that is never held *)
(* up for longer than a sampling period has its counts accepted, however    *)
(* many connections there are and however they are shared out.              *)
THEOREM LoadIsAccepted == LoadSpec => []LoadIsInRange
<1>1. LoadInv => LoadIsInRange
  <2> SUFFICES ASSUME LoadInv, clock >= WindowEnd, NEW total \in 1..MaxConns, NEW procs \in 1..total
               PROVE  Accepted(total, procs)
    BY DEF LoadIsInRange
  <2>1. total \in Nat \ {0}  BY LoadAssumption
  <2> QED BY <2>1, EndIsAccepted
<1> QED BY <1>1, LoadInitInv, LoadInductive, PTL DEF LoadSpec

-----------------------------------------------------------------------------
(* The rig of a run.  The lock admits one run at a time, and what that run *)
(* knows - how many setup commands it has completed, which namespaces it   *)
(* has yet to delete - is exactly what it made, whatever debris others     *)
(* have left.                                                              *)

(* The lock is held by the run that is at work.                            *)
LockInv == \A r \in Runs : AtWork(r) <=> holder = r

(* An end of the pair is in a namespace of the same maker.                 *)
InsideInv == \A ns \in inside : maker[ns] # None /\ maker[ns] = maker["pair"]

(* A run that has not begun has made nothing.                              *)
NothingYet(r) ==
  at[r] = "locking" => completed[r] = 0 /\ \A p \in Pieces : maker[p] # r

(* During setup the completed commands tell what the run has made.         *)
SetupInv(r) ==
  at[r] = "setup" =>
    /\ completed[r] \in 0..5
    /\ completed[r] >= 1 <=> maker["server_ns"] = r
    /\ completed[r] >= 2 <=> maker["client_ns"] = r
    /\ completed[r] >= 3 <=> maker["pair"] = r
    /\ completed[r] >= 4 => "server_ns" \in inside
    /\ completed[r] >= 5 => "client_ns" \in inside

(* A finished rig is the run's own.                                        *)
Whole(r) == (\A p \in Pieces : maker[p] = r) /\ inside = Namespaces
RigInv(r) == at[r] \in {"checking", "measuring"} => Whole(r)

(* The checks end with the reset.                                          *)
CheckInv(r) ==
  /\ at[r] \in {"locking", "setup", "checking"} => checked[r] \in 0..4
  /\ at[r] = "measuring" => ~spent

(* What is to be deleted is the run's own, and when no command of it       *)
(* failed, it is everything of its own.                                    *)
TeardownInv(r) ==
  at[r] = "teardown" =>
    /\ \A ns \in todo[r] : maker[ns] = r
    /\ r \notin marred =>
         /\ \A ns \in Namespaces : maker[ns] = r => ns \in todo[r]
         /\ maker["pair"] = r => inside = Namespaces /\ todo[r] = Namespaces

(* A run that is over without a failed command has nothing.                *)
LeftInv(r) == (at[r] = "ended" /\ r \notin marred) => \A p \in Pieces : maker[p] # r

RunInv(r) ==
  /\ NothingYet(r) /\ SetupInv(r) /\ RigInv(r) /\ CheckInv(r) /\ TeardownInv(r) /\ LeftInv(r)

IInv == RigTypeOK /\ LockInv /\ InsideInv /\ \A r \in Runs : RunInv(r)

USE RigAssumption DEF Namespaces, Pieces, None

LEMMA Lengths == Commands = 6 /\ Len(Checks) = 5 /\ Checks[5] = "reset"
BY DEF Commands, Checks

LEMMA InitInv == RigInit => IInv
<1> SUFFICES ASSUME RigInit PROVE IInv  OBVIOUS
<1> USE Lengths DEF RigInit
<1>1. RigTypeOK
  <2>1. 0 \in 0..Commands /\ 0 \in 0..Len(Checks)  OBVIOUS
  <2>2. maker \in [Pieces -> Runs \union {None}]  OBVIOUS
  <2>3. completed \in [Runs -> 0..Commands] /\ checked \in [Runs -> 0..Len(Checks)]  BY <2>1
  <2>4. failures \in Nat /\ spent \in BOOLEAN  OBVIOUS
  <2> QED BY <2>2, <2>3, <2>4 DEF RigTypeOK
<1>2. LockInv  BY DEF LockInv, AtWork
<1>3. InsideInv  BY DEF InsideInv
<1>4. \A r \in Runs : RunInv(r)
  BY DEF RunInv, NothingYet, SetupInv, RigInv, CheckInv, TeardownInv, LeftInv
<1> QED BY <1>1, <1>2, <1>3, <1>4 DEF IInv

(* Whoever is not at work is not disturbed by what the run at work does to *)
(* its own pieces.                                                         *)
LEMMA OthersKeep ==
  ASSUME IInv, NEW r \in Runs, holder = r, NEW q \in Runs, q # r,
         at'[q] = at[q], completed'[q] = completed[q], checked'[q] = checked[q],
         marred \subseteq marred',
         \A p \in Pieces : maker'[p] = q => maker[p] = q
  PROVE  RunInv(q)'
<1>1. ~AtWork(q)  BY DEF IInv, LockInv, RigTypeOK
<1>2. RunInv(q)  BY DEF IInv
<1> QED BY <1>1, <1>2 DEF RunInv, NothingYet, SetupInv, RigInv, CheckInv, TeardownInv, LeftInv, AtWork

(* The invariant, part by part                                             *)
LEMMA Combine ==
  ASSUME IInv, NEW r \in Runs, RigTypeOK', LockInv', InsideInv', RunInv(r)',
         \A q \in Runs \ {r} : RunInv(q)'
  PROVE  IInv'
BY DEF IInv

LEMMA LockStep == ASSUME IInv, NEW r \in Runs, Lock(r) PROVE IInv'
<1> USE DEF Lock
<1>1. RigTypeOK'  BY DEF IInv, RigTypeOK
<1>2. LockInv'  BY DEF IInv, RigTypeOK, LockInv, AtWork
<1>3. InsideInv'  BY DEF IInv, InsideInv
<1>4. \A q \in Runs \ {r} : RunInv(q)'
  BY DEF IInv, RigTypeOK, RunInv, NothingYet, SetupInv, RigInv, Whole, CheckInv, TeardownInv, LeftInv
<1>5. RunInv(r)'
  <2>1. at'[r] = "setup" /\ \A p \in Pieces : maker'[p] # r
    BY DEF IInv, RigTypeOK, RunInv, NothingYet
  <2>2. completed'[r] = 0 /\ checked'[r] \in 0..4  BY DEF IInv, RunInv, NothingYet, CheckInv
  <2>3. /\ maker'["server_ns"] # r /\ maker'["client_ns"] # r /\ maker'["pair"] # r
    BY <2>1
  <2>4. SetupInv(r)'  BY <2>2, <2>3 DEF SetupInv
  <2> QED BY <2>1, <2>2, <2>4 DEF RunInv, NothingYet, RigInv, CheckInv, TeardownInv, LeftInv
<1> QED BY <1>1, <1>2, <1>3, <1>4, <1>5, Combine

LEMMA GiveUpStep == ASSUME IInv, NEW r \in Runs, GiveUp(r) PROVE IInv'
<1> USE DEF GiveUp
<1>1. RigTypeOK'  BY DEF IInv, RigTypeOK
<1>2. LockInv'  BY DEF IInv, RigTypeOK, LockInv, AtWork
<1>3. InsideInv'  BY DEF IInv, InsideInv
<1>4. \A q \in Runs \ {r} : RunInv(q)'
  BY DEF IInv, RigTypeOK, RunInv, NothingYet, SetupInv, RigInv, Whole, CheckInv, TeardownInv, LeftInv
<1>5. RunInv(r)'
  BY DEF IInv, RigTypeOK, RunInv, NothingYet, SetupInv, RigInv, CheckInv, TeardownInv, LeftInv
<1> QED BY <1>1, <1>2, <1>3, <1>4, <1>5, Combine

LEMMA CancelStep == ASSUME IInv, NEW r \in Runs, Cancel(r) PROVE IInv'
<1> USE DEF Cancel
<1>1. RigTypeOK'  BY DEF IInv, RigTypeOK
<1>2. LockInv'  BY DEF IInv, LockInv, AtWork
<1>3. InsideInv'  BY DEF IInv, InsideInv
<1>4. \A q \in Runs : RunInv(q)'
  BY DEF IInv, RunInv, NothingYet, SetupInv, RigInv, Whole, CheckInv, TeardownInv, LeftInv
<1> QED BY <1>1, <1>2, <1>3, <1>4, Combine

(* A setup command that can be done keeps the invariant of the link and    *)
(* adds to what the run has made.                                          *)
LEMMA EffectKeeps ==
  ASSUME IInv, NEW r \in Runs, at[r] = "setup",
         CanDo(completed[r] + 1), Effect(r, completed[r] + 1)
  PROVE  /\ maker' \in [Pieces -> Runs \union {None}]
         /\ inside' \subseteq Namespaces
         /\ InsideInv'
         /\ \A q \in Runs \ {r} : \A p \in Pieces : maker'[p] = q => maker[p] = q
         /\ \A i \in 0..6 : i = completed[r] + 1 =>
              /\ i >= 1 <=> maker'["server_ns"] = r
              /\ i >= 2 <=> maker'["client_ns"] = r
              /\ i >= 3 <=> maker'["pair"] = r
              /\ i >= 4 => "server_ns" \in inside'
              /\ i >= 5 => "client_ns" \in inside'
<1> DEFINE i == completed[r] + 1
<1>1. /\ i \in 1..6
      /\ i > 1 <=> maker["server_ns"] = r
      /\ i > 2 <=> maker["client_ns"] = r
      /\ i > 3 <=> maker["pair"] = r
      /\ i > 4 => "server_ns" \in inside
      /\ i > 5 => "client_ns" \in inside
  BY DEF IInv, RunInv, SetupInv
<1>2. /\ maker \in [Pieces -> Runs \union {None}] /\ inside \subseteq Namespaces
      /\ \A ns \in inside : maker[ns] # None /\ maker[ns] = maker["pair"]
  BY DEF IInv, RigTypeOK, InsideInv
<1>3. CanDo(i) /\ Effect(r, i)  OBVIOUS
<1> HIDE DEF i
<1>4. CASE i = 1  BY <1>1, <1>2, <1>3, <1>4 DEF CanDo, Effect, InsideInv, i
<1>5. CASE i = 2  BY <1>1, <1>2, <1>3, <1>5 DEF CanDo, Effect, InsideInv, i
<1>6. CASE i = 3  BY <1>1, <1>2, <1>3, <1>6 DEF CanDo, Effect, InsideInv, i
<1>7. CASE i = 4  BY <1>1, <1>2, <1>3, <1>7 DEF CanDo, Effect, InsideInv, i
<1>8. CASE i = 5  BY <1>1, <1>2, <1>3, <1>8 DEF CanDo, Effect, InsideInv, i
<1>9. CASE i = 6  BY <1>1, <1>2, <1>3, <1>9 DEF CanDo, Effect, InsideInv, i
<1> QED BY <1>1, <1>4, <1>5, <1>6, <1>7, <1>8, <1>9

LEMMA SetupCommandStep == ASSUME IInv, NEW r \in Runs, SetupCommand(r) PROVE IInv'
<1>1. /\ at[r] = "setup" /\ CanDo(completed[r] + 1) /\ Effect(r, completed[r] + 1)
      /\ completed' = [completed EXCEPT ![r] = completed[r] + 1]
      /\ at' = [at EXCEPT ![r] = IF completed[r] + 1 = 6 THEN "checking" ELSE "setup"]
      /\ UNCHANGED <<holder, checked, spent, todo, canceled, failures, marred>>
  BY Lengths DEF SetupCommand
<1>2. completed[r] \in 0..5 /\ holder = r /\ checked[r] \in 0..5 /\ RigTypeOK
  BY <1>1, Lengths DEF IInv, RunInv, SetupInv, LockInv, AtWork, RigTypeOK
<1>3. /\ maker' \in [Pieces -> Runs \union {None}] /\ inside' \subseteq Namespaces /\ InsideInv'
      /\ \A q \in Runs \ {r} : \A p \in Pieces : maker'[p] = q => maker[p] = q
      /\ completed[r] + 1 >= 1 <=> maker'["server_ns"] = r
      /\ completed[r] + 1 >= 2 <=> maker'["client_ns"] = r
      /\ completed[r] + 1 >= 3 <=> maker'["pair"] = r
      /\ completed[r] + 1 >= 4 => "server_ns" \in inside'
      /\ completed[r] + 1 >= 5 => "client_ns" \in inside'
  BY <1>1, <1>2, EffectKeeps
<1>4. RigTypeOK'
  <2>1. completed' \in [Runs -> 0..Commands]  BY <1>1, <1>2, Lengths DEF RigTypeOK
  <2> QED BY <1>1, <1>2, <1>3, <2>1 DEF RigTypeOK
<1>5. LockInv'  BY <1>1 DEF IInv, RigTypeOK, LockInv, AtWork
<1>6. \A q \in Runs \ {r} : RunInv(q)'
  <2> TAKE q \in Runs \ {r}
  <2>1. at'[q] = at[q] /\ completed'[q] = completed[q] /\ checked'[q] = checked[q] /\ marred \subseteq marred'
    BY <1>1, <1>2 DEF RigTypeOK
  <2> QED BY <1>2, <1>3, <2>1, OthersKeep
<1>7. RunInv(r)'
  <2>1. CASE completed[r] + 1 = 6
    <3>1. at'[r] = "checking"  BY <1>1, <1>2, <2>1 DEF RigTypeOK
    <3>2. /\ maker'["server_ns"] = r /\ maker'["client_ns"] = r /\ maker'["pair"] = r
          /\ "server_ns" \in inside' /\ "client_ns" \in inside'
      BY <1>2, <1>3, <2>1
    <3>4. Whole(r)'
      <4>1. inside' = {"server_ns", "client_ns"}
        <5>1. \A ns : ns \in inside' => ns = "server_ns" \/ ns = "client_ns"  BY <1>3
        <5> QED BY <3>2, <5>1
      <4>2. \A p \in Pieces : maker'[p] = r  BY <3>2
      <4> QED BY <4>1, <4>2 DEF Whole
    <3>3. checked'[r] \in 0..4  BY <1>1, <2>1 DEF IInv, RunInv, CheckInv
    <3> QED BY <3>1, <3>3, <3>4
         DEF RunInv, NothingYet, SetupInv, RigInv, CheckInv, TeardownInv, LeftInv
  <2>2. CASE completed[r] + 1 # 6
    <3>4. at'[r] = "setup"  BY <1>1, <1>2, <2>2 DEF RigTypeOK
    <3>5. completed'[r] = completed[r] + 1  BY <1>1, <1>2 DEF RigTypeOK
    <3>6. completed[r] + 1 \in 0..5  BY <1>2, <2>2
    <3>1. at'[r] = "setup" /\ completed'[r] = completed[r] + 1 /\ completed'[r] \in 0..5
      BY <3>4, <3>5, <3>6
    <3>2. SetupInv(r)'
      <4>1. /\ completed'[r] >= 1 <=> maker'["server_ns"] = r
            /\ completed'[r] >= 2 <=> maker'["client_ns"] = r
            /\ completed'[r] >= 3 <=> maker'["pair"] = r
        BY <1>3, <3>1
      <4>2. /\ completed'[r] >= 4 => "server_ns" \in inside'
            /\ completed'[r] >= 5 => "client_ns" \in inside'
        BY <1>3, <3>1
      <4> QED BY <3>1, <4>1, <4>2 DEF SetupInv
    <3>3. checked'[r] \in 0..4  BY <1>1 DEF IInv, RunInv, CheckInv
    <3> QED BY <3>1, <3>2, <3>3
         DEF RunInv, NothingYet, RigInv, CheckInv, TeardownInv, LeftInv
  <2> QED BY <2>1, <2>2
<1> QED BY <1>3, <1>4, <1>5, <1>6, <1>7, Combine

LEMMA SetupFailsStep == ASSUME IInv, NEW r \in Runs, SetupFails(r) PROVE IInv'
<1>1. /\ at[r] = "setup" /\ marred' = marred \union {r}
      /\ at' = [at EXCEPT ![r] = "teardown"]
      /\ todo' = [todo EXCEPT ![r] = PartialTeardown(completed[r])]
      /\ UNCHANGED <<holder, completed, checked, spent, canceled>>
  BY DEF SetupFails
<1>2. /\ RigTypeOK /\ InsideInv /\ holder = r /\ completed[r] \in 0..5
      /\ completed[r] >= 1 <=> maker["server_ns"] = r
      /\ completed[r] >= 2 <=> maker["client_ns"] = r
  BY <1>1 DEF IInv, RunInv, SetupInv, LockInv, AtWork
<1>3. /\ maker' \in [Pieces -> Runs \union {None}] /\ inside' \subseteq Namespaces /\ InsideInv'
      /\ \A q \in Runs \ {r} : \A p \in Pieces : maker'[p] = q => maker[p] = q
      /\ completed[r] >= 1 => maker'["server_ns"] = r
      /\ completed[r] >= 2 => maker'["client_ns"] = r
      /\ failures' \in Nat
  <2>1. CASE UNCHANGED <<maker, inside>> /\ failures' \in {failures, failures + 1}
    <3>1. InsideInv'  BY <1>2, <2>1 DEF InsideInv
    <3> QED BY <1>2, <2>1, <3>1 DEF RigTypeOK
  <2>2. CASE CanDo(completed[r] + 1) /\ Effect(r, completed[r] + 1) /\ failures' = failures
    <3>1. /\ maker' \in [Pieces -> Runs \union {None}] /\ inside' \subseteq Namespaces /\ InsideInv'
          /\ \A q \in Runs \ {r} : \A p \in Pieces : maker'[p] = q => maker[p] = q
          /\ completed[r] + 1 >= 1 <=> maker'["server_ns"] = r
          /\ completed[r] + 1 >= 2 <=> maker'["client_ns"] = r
      BY <1>1, <1>2, <2>2, EffectKeeps
    <3> QED BY <1>2, <2>2, <3>1 DEF RigTypeOK
  <2> QED BY <2>1, <2>2 DEF SetupFails
<1>4. /\ PartialTeardown(completed[r]) \subseteq Namespaces
      /\ \A ns \in PartialTeardown(completed[r]) : maker'[ns] = r
  BY <1>2, <1>3 DEF PartialTeardown
<1>5. RigTypeOK'  BY <1>1, <1>2, <1>3, <1>4 DEF RigTypeOK
<1>6. LockInv'  BY <1>1 DEF IInv, RigTypeOK, LockInv, AtWork
<1>7. \A q \in Runs \ {r} : RunInv(q)'
  <2> TAKE q \in Runs \ {r}
  <2>1. at'[q] = at[q] /\ completed'[q] = completed[q] /\ checked'[q] = checked[q] /\ marred \subseteq marred'
    BY <1>1, <1>2 DEF RigTypeOK
  <2> QED BY <1>2, <1>3, <2>1, OthersKeep
<1>8. RunInv(r)'
  <2>1. at'[r] = "teardown" /\ todo'[r] = PartialTeardown(completed[r]) /\ r \in marred'
    BY <1>1, <1>2 DEF RigTypeOK
  <2> QED BY <1>4, <2>1 DEF RunInv, NothingYet, SetupInv, RigInv, CheckInv, TeardownInv, LeftInv
<1> QED BY <1>3, <1>5, <1>6, <1>7, <1>8, Combine

(* Steps of a run whose rig stands change nothing of the rig.              *)
LEMMA RigStands ==
  ASSUME IInv, NEW r \in Runs, at[r] \in {"checking", "measuring"},
         UNCHANGED <<holder, completed, maker, inside, marred>>,
         \A q \in Runs \ {r} : at'[q] = at[q] /\ checked'[q] = checked[q]
  PROVE  /\ Whole(r) /\ Whole(r)' /\ InsideInv'
         /\ \A q \in Runs \ {r} : RunInv(q)'
<1>1. Whole(r) /\ InsideInv  BY DEF IInv, RunInv, RigInv
<1>2. Whole(r)' /\ InsideInv'  BY <1>1 DEF Whole, InsideInv
<1>3. holder = r  BY DEF IInv, LockInv, AtWork
<1>4. \A q \in Runs \ {r} : RunInv(q)'
  <2> TAKE q \in Runs \ {r}
  <2> QED BY <1>3, OthersKeep
<1> QED BY <1>1, <1>2, <1>4

(* A run that enters its teardown with its rig whole deletes all of it.    *)
LEMMA TeardownOfWhole ==
  ASSUME NEW r \in Runs, Whole(r)', at'[r] = "teardown", todo'[r] = Namespaces
  PROVE  RunInv(r)'
BY DEF Whole, RunInv, NothingYet, SetupInv, RigInv, CheckInv, TeardownInv, LeftInv

LEMMA CheckStep == ASSUME IInv, NEW r \in Runs, Check(r) PROVE IInv'
<1>1. /\ at[r] = "checking" /\ Spend(Checks[checked[r] + 1])
      /\ checked' = [checked EXCEPT ![r] = checked[r] + 1]
      /\ at' = [at EXCEPT ![r] = IF checked[r] + 1 = 5 THEN "measuring" ELSE "checking"]
      /\ UNCHANGED <<holder, completed, todo, maker, inside, canceled, failures, marred>>
  BY Lengths DEF Check
<1>2. RigTypeOK /\ checked[r] \in 0..4 /\ spent \in BOOLEAN
  BY <1>1 DEF IInv, RunInv, CheckInv, RigTypeOK
<1>3. spent' \in BOOLEAN  BY <1>1, <1>2 DEF Spend
<1>4. checked[r] + 1 = 5 => ~spent'  BY <1>1, Lengths DEF Spend, Traffic
<1>5. RigTypeOK'
  <2>1. checked' \in [Runs -> 0..Len(Checks)]  BY <1>1, <1>2, Lengths DEF RigTypeOK
  <2> QED BY <1>1, <1>2, <1>3, <2>1 DEF RigTypeOK
<1>6. LockInv'  BY <1>1 DEF IInv, RigTypeOK, LockInv, AtWork
<1>7. Whole(r)' /\ InsideInv' /\ \A q \in Runs \ {r} : RunInv(q)'
  <2>1. \A q \in Runs \ {r} : at'[q] = at[q] /\ checked'[q] = checked[q]
    BY <1>1, <1>2 DEF RigTypeOK
  <2> QED BY <1>1, <2>1, RigStands
<1>8. RunInv(r)'
  <2>1. CASE checked[r] + 1 = 5
    <3>1. at'[r] = "measuring" /\ ~spent'  BY <1>1, <1>2, <1>4, <2>1 DEF RigTypeOK
    <3> QED BY <1>7, <3>1 DEF RunInv, NothingYet, SetupInv, RigInv, CheckInv, TeardownInv, LeftInv
  <2>2. CASE checked[r] + 1 # 5
    <3>1. at'[r] = "checking" /\ checked'[r] \in 0..4  BY <1>1, <1>2, <2>2 DEF RigTypeOK
    <3> QED BY <1>7, <3>1 DEF RunInv, NothingYet, SetupInv, RigInv, CheckInv, TeardownInv, LeftInv
  <2> QED BY <2>1, <2>2
<1> QED BY <1>5, <1>6, <1>7, <1>8, Combine

LEMMA CheckFailsStep == ASSUME IInv, NEW r \in Runs, CheckFails(r) PROVE IInv'
<1>1. /\ at[r] = "checking" /\ Spend(Checks[checked[r] + 1])
      /\ at' = [at EXCEPT ![r] = "teardown"] /\ todo' = [todo EXCEPT ![r] = Namespaces]
      /\ UNCHANGED <<holder, completed, checked, maker, inside, canceled, failures, marred>>
  BY DEF CheckFails
<1>2. RigTypeOK /\ spent \in BOOLEAN  BY DEF IInv, RigTypeOK
<1>3. spent' \in BOOLEAN  BY <1>1, <1>2 DEF Spend
<1>4. RigTypeOK'  BY <1>1, <1>2, <1>3 DEF RigTypeOK
<1>5. LockInv'  BY <1>1 DEF IInv, RigTypeOK, LockInv, AtWork
<1>6. Whole(r)' /\ InsideInv' /\ \A q \in Runs \ {r} : RunInv(q)'
  <2>1. \A q \in Runs \ {r} : at'[q] = at[q] /\ checked'[q] = checked[q]
    BY <1>1, <1>2 DEF RigTypeOK
  <2> QED BY <1>1, <2>1, RigStands
<1>7. at'[r] = "teardown" /\ todo'[r] = Namespaces  BY <1>1, <1>2 DEF RigTypeOK
<1>8. RunInv(r)'  BY <1>6, <1>7, TeardownOfWhole
<1> QED BY <1>4, <1>5, <1>6, <1>8, Combine

LEMMA FinishStep == ASSUME IInv, NEW r \in Runs, Finish(r) PROVE IInv'
<1>1. /\ at[r] = "measuring"
      /\ at' = [at EXCEPT ![r] = "teardown"] /\ todo' = [todo EXCEPT ![r] = Namespaces]
      /\ UNCHANGED <<holder, completed, checked, spent, maker, inside, canceled, failures, marred>>
  BY DEF Finish
<1>2. RigTypeOK  BY DEF IInv
<1>3. RigTypeOK'  BY <1>1, <1>2 DEF RigTypeOK
<1>4. LockInv'  BY <1>1 DEF IInv, RigTypeOK, LockInv, AtWork
<1>5. Whole(r)' /\ InsideInv' /\ \A q \in Runs \ {r} : RunInv(q)'
  <2>1. \A q \in Runs \ {r} : at'[q] = at[q] /\ checked'[q] = checked[q]
    BY <1>1, <1>2 DEF RigTypeOK
  <2> QED BY <1>1, <2>1, RigStands
<1>6. at'[r] = "teardown" /\ todo'[r] = Namespaces  BY <1>1, <1>2 DEF RigTypeOK
<1>7. RunInv(r)'  BY <1>5, <1>6, TeardownOfWhole
<1> QED BY <1>3, <1>4, <1>5, <1>7, Combine

LEMMA DeleteStep == ASSUME IInv, NEW r \in Runs, Delete(r) PROVE IInv'
<1>1. /\ at[r] = "teardown" /\ UNCHANGED <<holder, at, completed, checked, spent, canceled>>
  BY DEF Delete
<1>2. RigTypeOK /\ InsideInv /\ TeardownInv(r) /\ holder = r
  BY <1>1 DEF IInv, RunInv, LockInv, AtWork
<1>3. PICK ns \in todo[r] :
        /\ todo' = [todo EXCEPT ![r] = todo[r] \ {ns}]
        /\ \/ /\ maker' = [p \in Pieces |-> IF p \in Deleted(ns) THEN None ELSE maker[p]]
              /\ inside' = IF ns \in inside THEN {} ELSE inside
              /\ UNCHANGED <<failures, marred>>
           \/ /\ failures' = failures + 1 /\ marred' = marred \union {r}
              /\ UNCHANGED <<maker, inside>>
  BY DEF Delete
<1>4. /\ todo' \in [Runs -> SUBSET Namespaces] /\ todo'[r] = todo[r] \ {ns}
      /\ ns \in Namespaces /\ todo[r] \subseteq Namespaces
  BY <1>2, <1>3 DEF RigTypeOK
<1>5. LockInv'  BY <1>1 DEF IInv, LockInv, AtWork
<1>6. CASE /\ maker' = [p \in Pieces |-> IF p \in Deleted(ns) THEN None ELSE maker[p]]
           /\ inside' = IF ns \in inside THEN {} ELSE inside
           /\ UNCHANGED <<failures, marred>>
  <2>1. RigTypeOK'  BY <1>1, <1>2, <1>4, <1>6 DEF RigTypeOK
  <2>2. InsideInv'  BY <1>2, <1>4, <1>6 DEF InsideInv, Deleted, RigTypeOK
  <2>3. \A q \in Runs : \A p \in Pieces : maker'[p] = q => maker[p] = q  BY <1>6
  <2>4. \A q \in Runs \ {r} : RunInv(q)'
    <3> TAKE q \in Runs \ {r}
    <3> QED BY <1>1, <1>2, <1>6, <2>3, OthersKeep
  <2>5. \A x \in todo'[r] : maker'[x] = r  BY <1>1, <1>2, <1>4, <1>6 DEF TeardownInv, Deleted
  <2>6. r \notin marred' =>
          /\ \A x \in Namespaces : maker'[x] = r => x \in todo'[r]
          /\ maker'["pair"] = r => inside' = Namespaces /\ todo'[r] = Namespaces
    <3> SUFFICES ASSUME r \notin marred'
                 PROVE  /\ \A x \in Namespaces : maker'[x] = r => x \in todo'[r]
                        /\ maker'["pair"] = r => inside' = Namespaces /\ todo'[r] = Namespaces
      OBVIOUS
    <3>1. \A x \in Namespaces : maker'[x] = r => x \in todo'[r]
      BY <1>1, <1>2, <1>4, <1>6 DEF TeardownInv, Deleted
    <3>2. maker'["pair"] # r  BY <1>1, <1>2, <1>4, <1>6 DEF TeardownInv, Deleted
    <3> QED BY <3>1, <3>2
  <2>7. RunInv(r)'
    BY <1>1, <2>5, <2>6 DEF RunInv, NothingYet, SetupInv, RigInv, CheckInv, TeardownInv, LeftInv
  <2> QED BY <1>5, <2>1, <2>2, <2>4, <2>7, Combine
<1>7. CASE /\ failures' = failures + 1 /\ marred' = marred \union {r}
           /\ UNCHANGED <<maker, inside>>
  <2>1. RigTypeOK'  BY <1>1, <1>2, <1>4, <1>7 DEF RigTypeOK
  <2>2. InsideInv'  BY <1>2, <1>7 DEF InsideInv
  <2>3. \A q \in Runs \ {r} : RunInv(q)'
    <3> TAKE q \in Runs \ {r}
    <3> QED BY <1>1, <1>2, <1>7, OthersKeep
  <2>4. RunInv(r)'
    BY <1>1, <1>2, <1>4, <1>7
       DEF RunInv, NothingYet, SetupInv, RigInv, CheckInv, TeardownInv, LeftInv
  <2> QED BY <1>5, <2>1, <2>2, <2>3, <2>4, Combine
<1> QED BY <1>3, <1>6, <1>7

(* A run that stops, in order or not, forgets what it knew.                *)
LEMMA UnlockStep == ASSUME IInv, NEW r \in Runs, Unlock(r) PROVE IInv'
<1>1. /\ at[r] = "teardown" /\ todo[r] = {} /\ holder' = None
      /\ at' = [at EXCEPT ![r] = "ended"] /\ completed' = [completed EXCEPT ![r] = 0]
      /\ checked' = [checked EXCEPT ![r] = 0] /\ todo' = [todo EXCEPT ![r] = {}]
      /\ UNCHANGED <<spent, maker, inside, canceled, failures, marred>>
  BY DEF Unlock, Forget
<1>2. RigTypeOK /\ InsideInv /\ TeardownInv(r) /\ holder = r
  BY <1>1 DEF IInv, RunInv, LockInv, AtWork
<1>3. RigTypeOK'
  <2>1. /\ completed' \in [Runs -> 0..Commands] /\ checked' \in [Runs -> 0..Len(Checks)]
    BY <1>1, <1>2, Lengths DEF RigTypeOK
  <2> QED BY <1>1, <1>2, <2>1 DEF RigTypeOK
<1>4. LockInv'  BY <1>1, <1>2 DEF IInv, RigTypeOK, LockInv, AtWork
<1>5. InsideInv'  BY <1>1, <1>2 DEF InsideInv
<1>6. \A q \in Runs \ {r} : RunInv(q)'
  <2> TAKE q \in Runs \ {r}
  <2>1. at'[q] = at[q] /\ completed'[q] = completed[q] /\ checked'[q] = checked[q]
    BY <1>1, <1>2 DEF RigTypeOK
  <2> QED BY <1>1, <1>2, <2>1, OthersKeep
<1>7. RunInv(r)'
  <2>1. at'[r] = "ended"  BY <1>1, <1>2 DEF RigTypeOK
  <2>2. r \notin marred' => \A p \in Pieces : maker'[p] # r  BY <1>1, <1>2 DEF TeardownInv
  <2> QED BY <2>1, <2>2 DEF RunInv, NothingYet, SetupInv, RigInv, CheckInv, TeardownInv, LeftInv
<1> QED BY <1>3, <1>4, <1>5, <1>6, <1>7, Combine

LEMMA CrashStep == ASSUME IInv, NEW r \in Runs, Crash(r) PROVE IInv'
<1>1. /\ AtWork(r) /\ holder' = None
      /\ at' = [at EXCEPT ![r] = "crashed"] /\ completed' = [completed EXCEPT ![r] = 0]
      /\ checked' = [checked EXCEPT ![r] = 0] /\ todo' = [todo EXCEPT ![r] = {}]
      /\ UNCHANGED <<spent, maker, inside, canceled, failures, marred>>
  BY DEF Crash, Forget
<1>2. RigTypeOK /\ InsideInv /\ holder = r  BY <1>1 DEF IInv, LockInv
<1>3. RigTypeOK'
  <2>1. /\ completed' \in [Runs -> 0..Commands] /\ checked' \in [Runs -> 0..Len(Checks)]
    BY <1>1, <1>2, Lengths DEF RigTypeOK
  <2> QED BY <1>1, <1>2, <2>1 DEF RigTypeOK
<1>4. LockInv'  BY <1>1, <1>2 DEF IInv, RigTypeOK, LockInv, AtWork
<1>5. InsideInv'  BY <1>1, <1>2 DEF InsideInv
<1>6. \A q \in Runs \ {r} : RunInv(q)'
  <2> TAKE q \in Runs \ {r}
  <2>1. at'[q] = at[q] /\ completed'[q] = completed[q] /\ checked'[q] = checked[q]
    BY <1>1, <1>2 DEF RigTypeOK
  <2> QED BY <1>1, <1>2, <2>1, OthersKeep
<1>7. RunInv(r)'
  <2>1. at'[r] = "crashed"  BY <1>1, <1>2 DEF RigTypeOK
  <2> QED BY <2>1 DEF RunInv, NothingYet, SetupInv, RigInv, CheckInv, TeardownInv, LeftInv
<1> QED BY <1>3, <1>4, <1>5, <1>6, <1>7, Combine

LEMMA StepInv == IInv /\ [RigNext]_rigVars => IInv'
<1> SUFFICES ASSUME IInv, [RigNext]_rigVars PROVE IInv'  OBVIOUS
<1>1. CASE UNCHANGED rigVars
  BY <1>1 DEF rigVars, IInv, RigTypeOK, LockInv, AtWork, InsideInv, RunInv, NothingYet,
       SetupInv, RigInv, Whole, CheckInv, TeardownInv, LeftInv
<1>2. CASE RigNext
  <2>1. PICK r \in Runs : RigStep(r)  BY <1>2 DEF RigNext
  <2> QED BY <2>1, LockStep, GiveUpStep, SetupCommandStep, SetupFailsStep, CheckStep,
            CheckFailsStep, FinishStep, DeleteStep, UnlockStep, CancelStep, CrashStep DEF RigStep
<1> QED BY <1>1, <1>2

LEMMA Always == RigSpec => []IInv
BY InitInv, StepInv, PTL DEF RigSpec

-----------------------------------------------------------------------------
(* Every variable of the rig stays in its range, whatever the runs do.     *)
THEOREM RigTypes == RigSpec => []RigTypeOK
<1>1. IInv => RigTypeOK  BY DEF IInv
<1> QED BY <1>1, Always, PTL

(* However many runs share the machine, and whatever crashed, was canceled *)
(* or failed before, a measurement runs on a complete rig of its own with  *)
(* untouched loss traces, and alone.                                       *)
THEOREM MeasurementsOwnTheirRig == RigSpec => []MeasuresOwnRig
<1>1. IInv => MeasuresOwnRig
  BY DEF IInv, LockInv, RunInv, RigInv, Whole, CheckInv, MeasuresOwnRig, AtWork
<1> QED BY <1>1, Always, PTL

(* A run that ends with all its commands done has removed all it made.     *)
THEOREM NothingIsLeftByACleanRun == RigSpec => []CleanRunsLeaveNothing
<1>1. IInv => CleanRunsLeaveNothing  BY DEF IInv, RunInv, LeftInv, CleanRunsLeaveNothing
<1> QED BY <1>1, Always, PTL

-----------------------------------------------------------------------------
(* A step makes pieces that were not there, or removes pieces of the run   *)
(* that takes it, and both only while that run has the lock.               *)
PieceStep(r) ==
  \A p \in Pieces :
    \/ maker'[p] = maker[p]
    \/ maker[p] = None /\ maker'[p] = r
    \/ maker[p] = r /\ maker'[p] = None

LEMMA EffectPieces ==
  ASSUME IInv, NEW r \in Runs, NEW i \in Nat, CanDo(i), Effect(r, i)
  PROVE  PieceStep(r)
<1>1. maker \in [Pieces -> Runs \union {None}]  BY DEF IInv, RigTypeOK
<1> QED BY <1>1 DEF CanDo, Effect, PieceStep

LEMMA DeletePieces == ASSUME IInv, NEW r \in Runs, Delete(r) PROVE PieceStep(r)
<1>1. /\ at[r] = "teardown" /\ InsideInv /\ TeardownInv(r) /\ todo[r] \subseteq Namespaces
  BY DEF Delete, IInv, RunInv, RigTypeOK
<1>2. PICK ns \in todo[r] :
        \/ UNCHANGED maker
        \/ maker' = [p \in Pieces |-> IF p \in Deleted(ns) THEN None ELSE maker[p]]
  BY DEF Delete
<1>3. maker[ns] = r /\ (ns \in inside => maker["pair"] = r)
  BY <1>1 DEF TeardownInv, InsideInv
<1> QED BY <1>1, <1>2, <1>3 DEF PieceStep, Deleted

LEMMA WorkStep ==
  ASSUME IInv, NEW r \in Runs, SetupCommand(r) \/ SetupFails(r) \/ Delete(r)
  PROVE  holder = r /\ holder' = r /\ PieceStep(r)
<1>1. AtWork(r) /\ holder' = holder  BY DEF SetupCommand, SetupFails, Delete, AtWork
<1>2. holder = r  BY <1>1 DEF IInv, LockInv
<1>3. CASE SetupCommand(r)
  <2>1. completed[r] + 1 \in Nat  BY Lengths DEF IInv, RigTypeOK
  <2> QED BY <1>1, <1>2, <1>3, <2>1, EffectPieces DEF SetupCommand
<1>4. CASE SetupFails(r)
  <2>1. completed[r] + 1 \in Nat  BY Lengths DEF IInv, RigTypeOK
  <2>2. UNCHANGED maker \/ (CanDo(completed[r] + 1) /\ Effect(r, completed[r] + 1))
    BY <1>4 DEF SetupFails
  <2>3. UNCHANGED maker => PieceStep(r)  BY DEF PieceStep
  <2> QED BY <1>1, <1>2, <2>1, <2>2, <2>3, EffectPieces
<1>5. CASE Delete(r)  BY <1>1, <1>2, <1>5, DeletePieces
<1> QED BY <1>3, <1>4, <1>5

(* Every other step leaves the pieces alone.                               *)
LEMMA IdleStep ==
  ASSUME NEW r \in Runs, RigStep(r), ~(SetupCommand(r) \/ SetupFails(r) \/ Delete(r))
  PROVE  UNCHANGED maker
BY DEF RigStep, Lock, GiveUp, Check, CheckFails, Finish, Unlock, Cancel, Crash

(* Debris stays: only the run at work removes, and only what it made.      *)
THEOREM NobodyDeletesAnothers == RigSpec => DeletesOwn
<1>1. IInv /\ [RigNext]_rigVars =>
        [\A p \in Pieces : (maker[p] # None /\ maker'[p] = None) => AtWork(maker[p])]_rigVars
  <2> SUFFICES ASSUME IInv, RigNext, NEW p \in Pieces, maker[p] # None, maker'[p] = None
               PROVE  AtWork(maker[p])
    OBVIOUS
  <2>1. PICK r \in Runs : RigStep(r)  BY DEF RigNext
  <2>2. SetupCommand(r) \/ SetupFails(r) \/ Delete(r)  BY <2>1, IdleStep
  <2>3. holder = r /\ maker[p] = r  BY <2>2, WorkStep DEF PieceStep
  <2> QED BY <2>3 DEF IInv, LockInv
<1> QED BY <1>1, Always, PTL DEF RigSpec, DeletesOwn

-----------------------------------------------------------------------------
(* The owner, told from the lock                                           *)
LockOwner ==
  IF \A p \in Pieces : maker[p] = None THEN None
  ELSE IF holder # None /\ \A p \in Pieces : maker[p] \in {None, holder} THEN holder
  ELSE "debris"

OwnerTold == Owner = LockOwner

LEMMA OwnerIs == IInv => OwnerTold
<1> SUFFICES ASSUME IInv PROVE Owner = LockOwner  BY DEF OwnerTold
<1>1. /\ LockInv /\ holder \in Runs \union {None} /\ None \notin Runs
      /\ maker \in [Pieces -> Runs \union {None}]
  BY DEF IInv, RigTypeOK
<1>2. Exist = {} <=> \A p \in Pieces : maker[p] = None  BY DEF Exist
<1>3. ASSUME NEW r \in Runs
      PROVE  (AtWork(r) /\ \A p \in Exist : maker[p] = r)
               <=> (holder = r /\ \A p \in Pieces : maker[p] \in {None, r})
  BY <1>1 DEF LockInv, Exist
<1>4. CASE Exist = {}  BY <1>2, <1>4 DEF Owner, LockOwner
<1>5. CASE Exist # {} /\ holder # None /\ \A p \in Pieces : maker[p] \in {None, holder}
  <2>1. holder \in Runs /\ AtWork(holder) /\ \A p \in Exist : maker[p] = holder
    BY <1>1, <1>3, <1>5
  <2>2. \A r \in Runs : (AtWork(r) /\ \A p \in Exist : maker[p] = r) => r = holder
    BY <1>3
  <2>3. Owner = holder  BY <1>5, <2>1, <2>2 DEF Owner
  <2> QED BY <1>2, <1>5, <2>3 DEF LockOwner
<1>6. CASE Exist # {} /\ ~(holder # None /\ \A p \in Pieces : maker[p] \in {None, holder})
  <2>1. ~\E r \in Runs : AtWork(r) /\ \A p \in Exist : maker[p] = r  BY <1>1, <1>3, <1>6
  <2>2. Owner = "debris"  BY <1>6, <2>1 DEF Owner
  <2> QED BY <1>2, <1>6, <2>2 DEF LockOwner
<1> QED BY <1>4, <1>5, <1>6

(* What a step of the run with the lock does to the owner                  *)
LEMMA OwnerMoves ==
  ASSUME NEW r \in Runs, holder = r, holder' = r, PieceStep(r)
  PROVE  \/ LockOwner' = LockOwner
         \/ LockOwner = None /\ LockOwner' = r
         \/ LockOwner = r /\ LockOwner' = None
<1>1. r # None  OBVIOUS
<1>2. CASE \A p \in Pieces : maker[p] \in {None, r}
  <2>1. LockOwner \in {None, r}  BY <1>1, <1>2 DEF LockOwner
  <2>2. \A p \in Pieces : maker'[p] \in {None, r}  BY <1>2 DEF PieceStep
  <2>3. LockOwner' \in {None, r}  BY <1>1, <2>2 DEF LockOwner
  <2> QED BY <2>1, <2>3
<1>3. CASE \E p \in Pieces : maker[p] \notin {None, r}
  <2>1. PICK p \in Pieces : maker[p] \notin {None, r}  BY <1>3
  <2>2. maker'[p] = maker[p]  BY <2>1 DEF PieceStep
  <2>3. LockOwner = "debris"  BY <2>1 DEF LockOwner
  <2>4. LockOwner' = "debris"  BY <2>1, <2>2 DEF LockOwner
  <2> QED BY <2>3, <2>4
<1> QED BY <1>2, <1>3

(* The runs, however they interleave, fail and die, implement the promise: *)
(* the rig is taken when it is free, given back by its owner, or left as   *)
(* debris that no one takes.                                               *)
THEOREM RigKeepsThePromise == RigSpec => PromiseKept
<1>1. RigInit => Promise!OwnerInit
  BY DEF RigInit, Promise!OwnerInit, Promise!Free, Owner, Exist
<1>2. IInv /\ OwnerTold /\ OwnerTold' /\ [RigNext]_rigVars => [Promise!OwnerNext]_Owner
  <2> SUFFICES ASSUME IInv, Owner = LockOwner, Owner' = LockOwner', [RigNext]_rigVars
               PROVE  Promise!OwnerNext \/ Owner' = Owner
    BY DEF OwnerTold
  <2>1. CASE UNCHANGED <<maker, holder>>  BY <2>1 DEF LockOwner
  <2>2. ASSUME NEW r \in Runs, SetupCommand(r) \/ SetupFails(r) \/ Delete(r)
        PROVE  Promise!OwnerNext \/ Owner' = Owner
    <3>1. \/ Owner' = Owner
          \/ Owner = None /\ Owner' = r
          \/ Owner = r /\ Owner' = None
      BY <2>2, WorkStep, OwnerMoves
    <3> QED BY <3>1 DEF Promise!OwnerNext, Promise!Take, Promise!Return, Promise!Free
  <2>3. ASSUME NEW r \in Runs, Lock(r) PROVE Owner' = Owner
    <3>1. holder = None /\ holder' = r /\ maker' = maker /\ \A p \in Pieces : maker[p] # r
      BY <2>3 DEF Lock, IInv, RunInv, NothingYet
    <3> QED BY <3>1 DEF LockOwner
  <2>4. ASSUME NEW r \in Runs, Unlock(r) \/ Crash(r) PROVE Promise!OwnerNext \/ Owner' = Owner
    <3>1. AtWork(r) /\ holder' = None /\ maker' = maker  BY <2>4 DEF Unlock, Crash, AtWork
    <3>2. holder = r /\ r # None  BY <3>1 DEF IInv, LockInv
    <3>3. Owner' = Owner \/ (Owner = r /\ Owner' = "debris")  BY <3>1, <3>2 DEF LockOwner
    <3> QED BY <3>3 DEF Promise!OwnerNext, Promise!Abandon, Promise!Debris
  <2>5. ASSUME NEW r \in Runs, GiveUp(r) \/ Check(r) \/ CheckFails(r) \/ Finish(r) \/ Cancel(r)
        PROVE  UNCHANGED <<maker, holder>>
    BY <2>5 DEF GiveUp, Check, CheckFails, Finish, Cancel
  <2> QED BY <2>1, <2>2, <2>3, <2>4, <2>5 DEF rigVars, RigNext, RigStep
<1> QED BY <1>1, <1>2, OwnerIs, Always, PTL DEF RigSpec, PromiseKept, Promise!OwnerSpec

-----------------------------------------------------------------------------
(* What is merged                                                          *)

Series == [n : [Fields -> Nat], bins : [Bins -> Nat], count : Nat]
MetricsFile ==
  [class : [Classes -> Series], traffic : [Traffics -> Series],
   layout : {"log2x16", "other"}, skewed : Nat]

MetricsTypes ==
  /\ file \in [Processes -> MetricsFile]
  /\ disconnects \in [Processes -> Nat] /\ refusals \in [Processes -> Nat]
  /\ early \in Nat /\ late \in Nat

(* What a file is checked for holds of every file as it was counted.       *)
FileSound(m) ==
  /\ m.layout = "log2x16"
  /\ \A c \in Classes : SeriesOK(m.class[c])
  /\ \A k \in Traffics : SeriesOK(m.traffic[k])
  /\ AggregatesAgree(m) /\ m.skewed <= InClasses(m, "delivered")

(* A slot that was not submitted was refused or late, unless a connection  *)
(* is gone.                                                                *)
InFiles(field) == SumFunction([f \in Processes |-> InClasses(file[f], field)])
SlotsAccountedFor ==
  (\A f \in Processes : disconnects[f] = 0) =>
    InFiles("slots") + early = InFiles("submitted") + TotalSendRefused + late

(* No more is delivered, anywhere, than was submitted, anywhere.           *)
DeliveriesPossible ==
  \A k \in Traffics : Sum("delivered", k) <= Expected(Sum("slots", k), Sum("broadcast", k))

(* The sum of the files of s                                               *)
SeriesSum(G, s) ==
  [n |-> [x \in Fields |-> SumFunction([f \in s |-> G[f].n[x]])],
   bins |-> [b \in Bins |-> SumFunction([f \in s |-> G[f].bins[b]])],
   count |-> SumFunction([f \in s |-> G[f].count])]
FileSum(w, s) ==
  [class |-> [c \in Classes |-> SeriesSum([f \in Processes |-> w[f].class[c]], s)],
   traffic |-> [k \in Traffics |-> SeriesSum([f \in Processes |-> w[f].traffic[k]], s)],
   layout |-> "log2x16", skewed |-> SumFunction([f \in s |-> w[f].skewed])]

Outcome ==
  /\ verdict = "merged" =>
       /\ spoilt = "none" /\ merged = FileSum(file, Processes)
       /\ blamed = Blame(InClasses(merged, "submitted"), InClasses(merged, "slots"))
  /\ verdict = "refused" => spoilt # "none" \/ \E f \in Processes : ~HasTraffic(file[f])

MetricsInv ==
  /\ MetricsTypes /\ \A f \in Processes : FileSound(file[f])
  /\ SlotsAccountedFor /\ DeliveriesPossible /\ Outcome

-----------------------------------------------------------------------------
LEMMA MetricsSets ==
  /\ IsFiniteSet(Processes) /\ IsFiniteSet(Bins) /\ IsFiniteSet(Classes) /\ IsFiniteSet(Traffics)
  /\ \A c \in Classes : IsFiniteSet(OfClass(c)) /\ OfClass(c) \subseteq Traffics
  /\ \A k \in Traffics : ClassOf[k] \in Classes /\ k \in OfClass(ClassOf[k])
  /\ Receivers \in Nat
<1>1. IsFiniteSet(Processes)
  <2>1. Files \in Int /\ 1 \in Int  BY MetricsAssumption
  <2> QED BY <2>1, FS_Interval DEF Processes
<1>2. IsFiniteSet(Bins) /\ IsFiniteSet(Traffics) /\ Receivers \in Nat
  BY MetricsAssumption
<1>3. IsFiniteSet(Classes)
  <2>1. Classes = {"loss_tolerant"} \union {"must_deliver"}  BY DEF Classes
  <2>2. IsFiniteSet({"loss_tolerant"})  BY FS_Singleton
  <2> QED BY <2>1, <2>2, FS_AddElement
<1>4. ASSUME NEW c \in Classes PROVE IsFiniteSet(OfClass(c)) /\ OfClass(c) \subseteq Traffics
  <2>1. OfClass(c) \in SUBSET Traffics  BY DEF OfClass
  <2> QED BY <1>2, <2>1, FS_Subset
<1>5. ASSUME NEW k \in Traffics PROVE ClassOf[k] \in Classes /\ k \in OfClass(ClassOf[k])
  BY MetricsAssumption DEF OfClass
<1> QED BY <1>1, <1>2, <1>3, <1>4, <1>5

LEMMA SeriesShape ==
  ASSUME NEW e \in Series
  PROVE  /\ e.n \in [Fields -> Nat] /\ e.bins \in [Bins -> Nat] /\ e.count \in Nat
         /\ e = [n |-> e.n, bins |-> e.bins, count |-> e.count]
BY DEF Series

LEMMA FileShape ==
  ASSUME NEW m \in MetricsFile
  PROVE  /\ m.class \in [Classes -> Series] /\ m.traffic \in [Traffics -> Series]
         /\ m.skewed \in Nat
         /\ \A c \in Classes : m.class[c] \in Series
         /\ \A k \in Traffics : m.traffic[k] \in Series
BY DEF MetricsFile

(* A class is the sum of its traffic, number by number.                    *)
AgreesAt(m, c) ==
  /\ \A x \in Fields : m.class[c].n[x] = SumFunction([k \in OfClass(c) |-> m.traffic[k].n[x]])
  /\ \A b \in Bins : m.class[c].bins[b] = SumFunction([k \in OfClass(c) |-> m.traffic[k].bins[b]])
  /\ m.class[c].count = SumFunction([k \in OfClass(c) |-> m.traffic[k].count])

LEMMA AgreeMeans ==
  ASSUME NEW m, \A c \in Classes : m.class[c].bins \in [Bins -> Nat]
  PROVE  AggregatesAgree(m) <=> \A c \in Classes : AgreesAt(m, c)
<1>1. ASSUME NEW c \in Classes
      PROVE  (Mismatches(m.class[c], Parts(m, c)) = {} /\ m.class[c].bins = Parts(m, c).bins
              /\ m.class[c].count = Parts(m, c).count) <=> AgreesAt(m, c)
  <2>1. Mismatches(m.class[c], Parts(m, c)) = {} <=>
          \A x \in Fields : m.class[c].n[x] = SumFunction([k \in OfClass(c) |-> m.traffic[k].n[x]])
    BY DEF Mismatches, Parts
  <2>2. m.class[c].bins = Parts(m, c).bins <=>
          \A b \in Bins : m.class[c].bins[b] = SumFunction([k \in OfClass(c) |-> m.traffic[k].bins[b]])
    BY DEF Parts
  <2>3. Parts(m, c).count = SumFunction([k \in OfClass(c) |-> m.traffic[k].count])  BY DEF Parts
  <2> QED BY <2>1, <2>2, <2>3 DEF AgreesAt
<1> QED BY <1>1 DEF AggregatesAgree

-----------------------------------------------------------------------------
(* One event is counted.                                                   *)

(* The fields an event counts up, and the bin, if it has one               *)
Event(delta, bins) ==
  /\ delta \subseteq Fields /\ (bins = {} \/ \E b \in Bins : bins = {b})
  /\ "broadcast" \in delta \/ "submitted" \in delta => "slots" \in delta
  /\ "hit" \in delta => "delivered" \in delta
One(x, S) == IF x \in S THEN 1 ELSE 0

LEMMA BumpSound ==
  ASSUME NEW e \in Series, NEW delta, NEW bins, Event(delta, bins)
  PROVE  /\ Bump(e, delta, bins) \in Series /\ Cardinality(bins) \in 0..1
         /\ \A x \in Fields : Bump(e, delta, bins).n[x] = e.n[x] + One(x, delta)
         /\ \A b \in Bins : Bump(e, delta, bins).bins[b] = e.bins[b] + One(b, bins)
         /\ Bump(e, delta, bins).count = e.count + Cardinality(bins)
         /\ SeriesOK(e) => SeriesOK(Bump(e, delta, bins))
<1> DEFINE d == Bump(e, delta, bins)
<1>1. bins = {} => Cardinality(bins) = 0  BY FS_EmptySet
<1>2. ASSUME NEW b \in Bins, bins = {b} PROVE Cardinality(bins) = 1
  BY <1>2, FS_Singleton
<1>3. Cardinality(bins) \in 0..1  BY <1>1, <1>2 DEF Event
<1>4. d.n = [x \in Fields |-> e.n[x] + One(x, delta)]
      /\ d.bins = [b \in Bins |-> e.bins[b] + One(b, bins)]
      /\ d.count = e.count + Cardinality(bins)
      /\ d = [n |-> d.n, bins |-> d.bins, count |-> d.count]
  BY DEF Bump, One
<1>5. \A x, S : One(x, S) \in 0..1  BY DEF One
<1> HIDE DEF d
<1>6. d.n \in [Fields -> Nat] /\ d.bins \in [Bins -> Nat] /\ d.count \in Nat
  BY <1>3, <1>4, <1>5, SeriesShape
<1>7. d \in Series  BY <1>4, <1>6 DEF Series
<1>8. SumFunction(d.bins) = SumFunction(e.bins) + Cardinality(bins)
  <2>1. e.bins \in [Bins -> Nat]  BY SeriesShape
  <2>2. CASE bins = {}
    <3>1. d.bins = e.bins  BY <1>4, <2>1, <2>2 DEF One
    <3>2. SumFunction(e.bins) \in Nat  BY <2>1, MetricsSets, SumType
    <3> QED BY <1>1, <2>2, <3>1, <3>2
  <2>3. ASSUME NEW b \in Bins, bins = {b}
        PROVE  SumFunction(d.bins) = SumFunction(e.bins) + Cardinality(bins)
    <3>1. d.bins[b] = e.bins[b] + 1 /\ \A a \in Bins \ {b} : d.bins[a] = e.bins[a]
      BY <1>4, <2>1, <2>3 DEF One
    <3>2. SumFunction(d.bins) = SumFunction(e.bins) + 1
      BY <1>6, <2>1, <3>1, MetricsSets, SumUpdate
    <3> QED BY <1>2, <2>3, <3>2
  <2> QED BY <2>2, <2>3 DEF Event
<1>9. ASSUME SeriesOK(e) PROVE SeriesOK(d)
  <2>1. d.count = SumFunction(d.bins)  BY <1>4, <1>8, <1>9 DEF SeriesOK
  <2>2. {"slots", "broadcast", "submitted", "delivered", "hit"} = Fields  BY DEF Fields
  <2>3. \A x \in Fields : d.n[x] = e.n[x] + One(x, delta) /\ e.n[x] \in Nat
    BY <1>4, SeriesShape
  <2>4. One("broadcast", delta) <= One("slots", delta)
        /\ One("submitted", delta) <= One("slots", delta)
        /\ One("hit", delta) <= One("delivered", delta)
    BY DEF Event, One
  <2>5. e.n["broadcast"] <= e.n["slots"] /\ e.n["submitted"] <= e.n["slots"]
        /\ e.n["hit"] <= e.n["delivered"]
    BY <1>9 DEF SeriesOK
  <2>6. /\ d.n["broadcast"] = e.n["broadcast"] + One("broadcast", delta)
        /\ d.n["slots"] = e.n["slots"] + One("slots", delta)
        /\ d.n["submitted"] = e.n["submitted"] + One("submitted", delta)
        /\ d.n["hit"] = e.n["hit"] + One("hit", delta)
        /\ d.n["delivered"] = e.n["delivered"] + One("delivered", delta)
        /\ {e.n["broadcast"], e.n["slots"], e.n["submitted"], e.n["hit"], e.n["delivered"]} \subseteq Nat
    BY <2>2, <2>3
  <2>7. d.n["broadcast"] <= d.n["slots"] /\ d.n["submitted"] <= d.n["slots"]
        /\ d.n["hit"] <= d.n["delivered"]
    BY <1>5, <2>4, <2>5, <2>6
  <2> QED BY <2>1, <2>7 DEF SeriesOK
<1> QED BY <1>3, <1>4, <1>7, <1>9 DEF d

(* The sum of a class changes with the traffic of that class.              *)
LEMMA ColumnStep ==
  ASSUME NEW c \in Classes, NEW k \in Traffics, NEW d \in Nat,
         NEW g \in [OfClass(c) -> Nat], NEW h \in [OfClass(c) -> Nat],
         \A y \in OfClass(c) : h[y] = IF y = k THEN g[y] + d ELSE g[y]
  PROVE  SumFunction(h) = IF ClassOf[k] = c THEN SumFunction(g) + d ELSE SumFunction(g)
<1>1. CASE ClassOf[k] = c
  <2>1. k \in OfClass(c) /\ IsFiniteSet(OfClass(c))  BY <1>1, MetricsSets
  <2>2. h[k] = g[k] + d /\ \A y \in OfClass(c) \ {k} : h[y] = g[y]  BY <2>1
  <2>3. SumFunction(h) = SumFunction(g) + d  BY <2>1, <2>2, SumUpdate
  <2> QED BY <1>1, <2>3
<1>2. CASE ClassOf[k] # c
  <2>1. k \notin OfClass(c)  BY <1>2 DEF OfClass
  <2>2. h = g  BY <2>1
  <2> QED BY <1>2, <2>2
<1> QED BY <1>1, <1>2

(* The file of the process that counts                                     *)
After(m, k, delta, bins, v) ==
  [class |-> [m.class EXCEPT ![ClassOf[k]] = Bump(m.class[ClassOf[k]], delta, bins)],
   traffic |-> [m.traffic EXCEPT ![k] = Bump(m.traffic[k], delta, bins)],
   layout |-> m.layout, skewed |-> m.skewed + v]

LEMMA AfterShape ==
  ASSUME NEW m \in MetricsFile, NEW k \in Traffics, NEW delta, NEW bins, NEW v \in 0..1,
         Event(delta, bins)
  PROVE  LET p == After(m, k, delta, bins, v)
         IN /\ p \in MetricsFile /\ p.layout = m.layout /\ p.skewed = m.skewed + v
            /\ p.class[ClassOf[k]] = Bump(m.class[ClassOf[k]], delta, bins)
            /\ p.traffic[k] = Bump(m.traffic[k], delta, bins)
            /\ \A c \in Classes : c # ClassOf[k] => p.class[c] = m.class[c]
            /\ \A j \in Traffics : j # k => p.traffic[j] = m.traffic[j]
<1>1. ClassOf[k] \in Classes  BY MetricsSets
<1>2. m.class \in [Classes -> Series] /\ m.traffic \in [Traffics -> Series] /\ m.skewed \in Nat
      /\ m.layout \in {"log2x16", "other"}
  BY DEF MetricsFile
<1> DEFINE C == Bump(m.class[ClassOf[k]], delta, bins)
           K == Bump(m.traffic[k], delta, bins)
<1>3. C \in Series /\ K \in Series  BY <1>1, <1>2, BumpSound
<1> HIDE DEF C, K
<1> DEFINE p == [class |-> [m.class EXCEPT ![ClassOf[k]] = C], traffic |-> [m.traffic EXCEPT ![k] = K],
                 layout |-> m.layout, skewed |-> m.skewed + v]
<1>4. m.skewed + v \in Nat  BY <1>2
<1>5. p \in MetricsFile  BY <1>1, <1>2, <1>3, <1>4 DEF MetricsFile
<1>6. /\ p.layout = m.layout /\ p.skewed = m.skewed + v
      /\ p.class[ClassOf[k]] = C /\ p.traffic[k] = K
      /\ \A c \in Classes : c # ClassOf[k] => p.class[c] = m.class[c]
      /\ \A j \in Traffics : j # k => p.traffic[j] = m.traffic[j]
  BY <1>1, <1>2
<1>7. p = After(m, k, delta, bins, v)  BY DEF After, C, K
<1> HIDE DEF p
<1> QED BY <1>5, <1>6, <1>7 DEF C, K

LEMMA InClassesStep ==
  ASSUME NEW m \in MetricsFile, NEW k \in Traffics, NEW delta, NEW bins, NEW v \in 0..1,
         Event(delta, bins), NEW x \in Fields
  PROVE  /\ InClasses(After(m, k, delta, bins, v), x) = InClasses(m, x) + One(x, delta)
         /\ InClasses(m, x) \in Nat /\ InClasses(After(m, k, delta, bins, v), x) \in Nat
<1> DEFINE p == After(m, k, delta, bins, v)
           g == [c \in Classes |-> m.class[c].n[x]]
           h == [c \in Classes |-> p.class[c].n[x]]
<1>1. /\ p \in MetricsFile /\ p.class[ClassOf[k]] = Bump(m.class[ClassOf[k]], delta, bins)
      /\ \A c \in Classes : c # ClassOf[k] => p.class[c] = m.class[c]
  BY AfterShape
<1> HIDE DEF p
<1>2. ClassOf[k] \in Classes /\ IsFiniteSet(Classes)  BY MetricsSets
<1>3. g \in [Classes -> Nat] /\ h \in [Classes -> Nat]
  BY <1>1, FileShape, SeriesShape
<1>4. m.class[ClassOf[k]] \in Series  BY <1>2, FileShape
<1>5. p.class[ClassOf[k]].n[x] = m.class[ClassOf[k]].n[x] + One(x, delta)
  BY <1>1, <1>4, BumpSound
<1>6. h[ClassOf[k]] = g[ClassOf[k]] + One(x, delta)
      /\ \A c \in Classes \ {ClassOf[k]} : h[c] = g[c]
  BY <1>1, <1>2, <1>5
<1>7. One(x, delta) \in Int  BY DEF One
<1> HIDE DEF g, h
<1>8. SumFunction(h) = SumFunction(g) + One(x, delta)  BY <1>2, <1>3, <1>6, <1>7, SumUpdate
<1>9. SumFunction(g) \in Nat /\ SumFunction(h) \in Nat  BY <1>2, <1>3, SumType
<1> QED BY <1>8, <1>9 DEF InClasses, g, h, p

LEMMA AfterAgrees ==
  ASSUME NEW m \in MetricsFile, NEW k \in Traffics, NEW delta, NEW bins, NEW v \in 0..1,
         Event(delta, bins), NEW c \in Classes, AgreesAt(m, c)
  PROVE  AgreesAt(After(m, k, delta, bins, v), c)
<1> DEFINE p == After(m, k, delta, bins, v)
           d == Cardinality(bins)
<1>1. /\ p \in MetricsFile /\ p.class[ClassOf[k]] = Bump(m.class[ClassOf[k]], delta, bins)
      /\ p.traffic[k] = Bump(m.traffic[k], delta, bins)
      /\ \A j \in Classes : j # ClassOf[k] => p.class[j] = m.class[j]
      /\ \A j \in Traffics : j # k => p.traffic[j] = m.traffic[j]
  BY AfterShape
<1> HIDE DEF p
<1>2. ClassOf[k] \in Classes /\ m.class[c] \in Series /\ m.traffic[k] \in Series
      /\ p.class[c] \in Series
  BY <1>1, MetricsSets, FileShape
<1>3. \A j \in OfClass(c) : j \in Traffics /\ m.traffic[j] \in Series /\ p.traffic[j] \in Series
  BY <1>1, MetricsSets, FileShape
<1>4. /\ \A x \in Fields : p.traffic[k].n[x] = m.traffic[k].n[x] + One(x, delta)
      /\ \A b \in Bins : p.traffic[k].bins[b] = m.traffic[k].bins[b] + One(b, bins)
      /\ p.traffic[k].count = m.traffic[k].count + d /\ d \in 0..1
  BY <1>1, <1>2, BumpSound
<1>5. ClassOf[k] = c =>
        /\ \A x \in Fields : p.class[c].n[x] = m.class[c].n[x] + One(x, delta)
        /\ \A b \in Bins : p.class[c].bins[b] = m.class[c].bins[b] + One(b, bins)
        /\ p.class[c].count = m.class[c].count + d
  BY <1>1, <1>2, BumpSound
<1>6. \A x, S : One(x, S) \in Nat  BY DEF One
<1> HIDE DEF d
<1>7. ASSUME NEW x \in Fields
      PROVE  p.class[c].n[x] = SumFunction([j \in OfClass(c) |-> p.traffic[j].n[x]])
  <2> DEFINE g == [j \in OfClass(c) |-> m.traffic[j].n[x]]
             h == [j \in OfClass(c) |-> p.traffic[j].n[x]]
  <2>1. g \in [OfClass(c) -> Nat] /\ h \in [OfClass(c) -> Nat]  BY <1>3, SeriesShape
  <2>2. \A j \in OfClass(c) : h[j] = IF j = k THEN g[j] + One(x, delta) ELSE g[j]
    BY <1>1, <1>3, <1>4
  <2>3. m.class[c].n[x] = SumFunction(g)  BY DEF AgreesAt
  <2> HIDE DEF g, h
  <2>4. SumFunction(h) = IF ClassOf[k] = c THEN SumFunction(g) + One(x, delta) ELSE SumFunction(g)
    BY <1>6, <2>1, <2>2, ColumnStep
  <2>5. p.class[c].n[x] = SumFunction(h)  BY <1>1, <1>5, <2>3, <2>4
  <2> QED BY <2>5 DEF h
<1>8. ASSUME NEW b \in Bins
      PROVE  p.class[c].bins[b] = SumFunction([j \in OfClass(c) |-> p.traffic[j].bins[b]])
  <2> DEFINE g == [j \in OfClass(c) |-> m.traffic[j].bins[b]]
             h == [j \in OfClass(c) |-> p.traffic[j].bins[b]]
  <2>1. g \in [OfClass(c) -> Nat] /\ h \in [OfClass(c) -> Nat]  BY <1>3, SeriesShape
  <2>2. \A j \in OfClass(c) : h[j] = IF j = k THEN g[j] + One(b, bins) ELSE g[j]
    BY <1>1, <1>3, <1>4
  <2>3. m.class[c].bins[b] = SumFunction(g)  BY DEF AgreesAt
  <2> HIDE DEF g, h
  <2>4. SumFunction(h) = IF ClassOf[k] = c THEN SumFunction(g) + One(b, bins) ELSE SumFunction(g)
    BY <1>6, <2>1, <2>2, ColumnStep
  <2>5. p.class[c].bins[b] = SumFunction(h)  BY <1>1, <1>5, <2>3, <2>4
  <2> QED BY <2>5 DEF h
<1>9. p.class[c].count = SumFunction([j \in OfClass(c) |-> p.traffic[j].count])
  <2> DEFINE g == [j \in OfClass(c) |-> m.traffic[j].count]
             h == [j \in OfClass(c) |-> p.traffic[j].count]
  <2>1. g \in [OfClass(c) -> Nat] /\ h \in [OfClass(c) -> Nat]  BY <1>3, SeriesShape
  <2>2. \A j \in OfClass(c) : h[j] = IF j = k THEN g[j] + d ELSE g[j]
    BY <1>1, <1>3, <1>4
  <2>3. m.class[c].count = SumFunction(g)  BY DEF AgreesAt
  <2>4. d \in Nat  BY <1>4
  <2> HIDE DEF g, h
  <2>5. SumFunction(h) = IF ClassOf[k] = c THEN SumFunction(g) + d ELSE SumFunction(g)
    BY <2>1, <2>2, <2>4, ColumnStep
  <2>6. p.class[c].count = SumFunction(h)  BY <1>1, <1>5, <2>3, <2>5
  <2> QED BY <2>6 DEF h
<1>10. AgreesAt(p, c)  BY <1>7, <1>8, <1>9 DEF AgreesAt
<1> QED BY <1>10 DEF p

LEMMA AgreeSound ==
  ASSUME NEW m \in MetricsFile PROVE AggregatesAgree(m) <=> \A c \in Classes : AgreesAt(m, c)
<1>1. \A c \in Classes : m.class[c].bins \in [Bins -> Nat]  BY FileShape, SeriesShape
<1> QED BY <1>1, AgreeMeans

LEMMA AfterSound ==
  ASSUME NEW m \in MetricsFile, NEW k \in Traffics, NEW delta, NEW bins, NEW v \in 0..1,
         Event(delta, bins), FileSound(m), v = 1 => "delivered" \in delta
  PROVE  FileSound(After(m, k, delta, bins, v))
<1> DEFINE p == After(m, k, delta, bins, v)
<1>1. /\ p \in MetricsFile /\ p.layout = m.layout /\ p.skewed = m.skewed + v
      /\ p.class[ClassOf[k]] = Bump(m.class[ClassOf[k]], delta, bins)
      /\ p.traffic[k] = Bump(m.traffic[k], delta, bins)
      /\ \A c \in Classes : c # ClassOf[k] => p.class[c] = m.class[c]
      /\ \A j \in Traffics : j # k => p.traffic[j] = m.traffic[j]
  BY AfterShape
<1>2. \A c \in Classes : AgreesAt(p, c)  BY AgreeSound, AfterAgrees DEF FileSound
<1>3. InClasses(p, "delivered") = InClasses(m, "delivered") + One("delivered", delta)
      /\ InClasses(m, "delivered") \in Nat
  <2>1. "delivered" \in Fields  BY DEF Fields
  <2> QED BY <2>1, InClassesStep
<1> HIDE DEF p
<1>4. \A c \in Classes : SeriesOK(p.class[c])
  BY <1>1, MetricsSets, FileShape, BumpSound DEF FileSound
<1>5. \A j \in Traffics : SeriesOK(p.traffic[j])
  BY <1>1, FileShape, BumpSound DEF FileSound
<1>6. p.skewed <= InClasses(p, "delivered")
  BY <1>1, <1>3, FileShape DEF FileSound, One
<1>7. AggregatesAgree(p)  BY <1>1, <1>2, AgreeSound
<1>8. FileSound(p)  BY <1>1, <1>4, <1>5, <1>6, <1>7 DEF FileSound
<1> QED BY <1>8 DEF p

(* The sums over the files F                                               *)
SumIn(F, x, k) == SumFunction([f \in Processes |-> F[f].traffic[k].n[x]])
FieldIn(F, x) == SumFunction([f \in Processes |-> InClasses(F[f], x)])

LEMMA SumsOfFiles ==
  ASSUME NEW F \in [Processes -> MetricsFile], NEW x \in Fields
  PROVE  /\ \A f \in Processes : InClasses(F[f], x) \in Nat
         /\ FieldIn(F, x) \in Nat
         /\ \A k \in Traffics : SumIn(F, x, k) \in Nat
<1>1. ASSUME NEW f \in Processes PROVE InClasses(F[f], x) \in Nat
  <2> DEFINE g == [c \in Classes |-> F[f].class[c].n[x]]
  <2>1. g \in [Classes -> Nat]  BY FileShape, SeriesShape
  <2> HIDE DEF g
  <2>2. SumFunction(g) \in Nat  BY <2>1, MetricsSets, SumType
  <2> QED BY <2>2 DEF g, InClasses
<1>2. FieldIn(F, x) \in Nat
  <2> DEFINE g == [f \in Processes |-> InClasses(F[f], x)]
  <2>1. g \in [Processes -> Nat]  BY <1>1
  <2> HIDE DEF g
  <2>2. SumFunction(g) \in Nat  BY <2>1, MetricsSets, SumType
  <2> QED BY <2>2 DEF g, FieldIn
<1>3. ASSUME NEW k \in Traffics PROVE SumIn(F, x, k) \in Nat
  <2> DEFINE g == [f \in Processes |-> F[f].traffic[k].n[x]]
  <2>1. g \in [Processes -> Nat]  BY FileShape, SeriesShape
  <2> HIDE DEF g
  <2>2. SumFunction(g) \in Nat  BY <2>1, MetricsSets, SumType
  <2> QED BY <2>2 DEF g, SumIn
<1> QED BY <1>1, <1>2, <1>3

(* The process f counts an event, and what that does to the sums           *)
Counts(F, G, f, k, delta, bins, v) ==
  /\ F \in [Processes -> MetricsFile] /\ \A g \in Processes : FileSound(F[g])
  /\ Event(delta, bins) /\ v \in 0..1 /\ (v = 1 => "delivered" \in delta)
  /\ G = [F EXCEPT ![f] = After(F[f], k, delta, bins, v)]
CountedUp(F, G, k, delta) ==
  /\ G \in [Processes -> MetricsFile] /\ \A g \in Processes : FileSound(G[g])
  /\ \A x \in Fields : FieldIn(G, x) = FieldIn(F, x) + One(x, delta)
  /\ \A x \in Fields, j \in Traffics :
       SumIn(G, x, j) = SumIn(F, x, j) + IF j = k THEN One(x, delta) ELSE 0

LEMMA CountedStep ==
  ASSUME NEW F, NEW G, NEW f \in Processes, NEW k \in Traffics, NEW delta, NEW bins, NEW v,
         Counts(F, G, f, k, delta, bins, v)
  PROVE  CountedUp(F, G, k, delta)
<1> USE DEF Counts, CountedUp
<1> DEFINE p == After(F[f], k, delta, bins, v)
<1>1. p \in MetricsFile /\ FileSound(p)  BY AfterShape, AfterSound
<1>2. G \in [Processes -> MetricsFile] /\ G[f] = p /\ \A g \in Processes \ {f} : G[g] = F[g]
  BY <1>1
<1>3. \A g \in Processes : FileSound(G[g])  BY <1>1, <1>2
<1>4. ASSUME NEW x \in Fields PROVE FieldIn(G, x) = FieldIn(F, x) + One(x, delta)
  <2> DEFINE g == [q \in Processes |-> InClasses(F[q], x)]
             h == [q \in Processes |-> InClasses(G[q], x)]
  <2>1. g \in [Processes -> Nat] /\ h \in [Processes -> Nat]  BY <1>2, SumsOfFiles
  <2>2. InClasses(p, x) = InClasses(F[f], x) + One(x, delta)  BY InClassesStep
  <2>3. h[f] = g[f] + One(x, delta) /\ \A q \in Processes \ {f} : h[q] = g[q]
    BY <1>2, <2>2
  <2>4. One(x, delta) \in Int  BY DEF One
  <2>5. IsFiniteSet(Processes)  BY MetricsSets
  <2> HIDE DEF g, h, p
  <2>6. SumFunction(h) = SumFunction(g) + One(x, delta)
    BY ONLY <2>1, <2>3, <2>4, <2>5, f \in Processes, SumUpdate
  <2> QED BY <2>6 DEF g, h, FieldIn
<1>5. ASSUME NEW x \in Fields, NEW j \in Traffics
      PROVE  SumIn(G, x, j) = SumIn(F, x, j) + IF j = k THEN One(x, delta) ELSE 0
  <2> DEFINE g == [q \in Processes |-> F[q].traffic[j].n[x]]
             h == [q \in Processes |-> G[q].traffic[j].n[x]]
             d == IF j = k THEN One(x, delta) ELSE 0
  <2>1. g \in [Processes -> Nat] /\ h \in [Processes -> Nat]
    BY <1>2, FileShape, SeriesShape
  <2>2. p.traffic[j].n[x] = F[f].traffic[j].n[x] + d
    <3>1. F[f].traffic[j] \in Series  BY FileShape
    <3>2. F[f].traffic[j].n[x] \in Nat  BY <3>1, SeriesShape
    <3>3. CASE j = k
      <4>1. p.traffic[j] = Bump(F[f].traffic[j], delta, bins)  BY <3>3, AfterShape
      <4> QED BY <3>1, <3>3, <4>1, BumpSound
    <3>4. CASE j # k
      <4>1. p.traffic[j] = F[f].traffic[j]  BY <3>4, AfterShape
      <4> QED BY <3>2, <3>4, <4>1
    <3> QED BY <3>3, <3>4
  <2>3. h[f] = g[f] + d /\ \A q \in Processes \ {f} : h[q] = g[q]  BY <1>2, <2>2
  <2>4. d \in Int  BY DEF One
  <2>5. IsFiniteSet(Processes)  BY MetricsSets
  <2> HIDE DEF g, h, d, p
  <2>6. SumFunction(h) = SumFunction(g) + d
    BY ONLY <2>1, <2>3, <2>4, <2>5, f \in Processes, SumUpdate
  <2> QED BY <2>6 DEF g, h, d, SumIn
<1> QED BY <1>2, <1>3, <1>4, <1>5

CountedWith(f, k, delta, bins, v) ==
  [Counted(f, k, delta, bins) EXCEPT ![f].skewed = @ + v]

LEMMA CountedIsAfter ==
  ASSUME file \in [Processes -> MetricsFile], NEW f \in Processes, NEW k \in Traffics,
         NEW delta, NEW bins
  PROVE  /\ Counted(f, k, delta, bins) = [file EXCEPT ![f] = After(file[f], k, delta, bins, 0)]
         /\ \A v, G :
              G = [file EXCEPT ![f] = After(file[f], k, delta, bins, v)]
                <=> G = CountedWith(f, k, delta, bins, v)
<1> DEFINE c == ClassOf[k]
           C == Bump(file[f].class[c], delta, bins)
           K == Bump(file[f].traffic[k], delta, bins)
           t == [file[f] EXCEPT !.traffic[k] = K]
           q == [file[f] EXCEPT !.traffic[k] = K, !.class[c] = C]
           D == Counted(f, k, delta, bins)
<1>1. file[f] \in MetricsFile /\ c \in Classes /\ IsFiniteSet(Processes)  BY MetricsSets
<1>2. DOMAIN file = Processes  OBVIOUS
<1>3. D = [file EXCEPT ![f] = q]
  <2> DEFINE a == [file EXCEPT ![f].traffic[k] = K]
  <2>1. file[f] = [class |-> file[f].class, traffic |-> file[f].traffic,
                   layout |-> file[f].layout, skewed |-> file[f].skewed]
    BY <1>1 DEF MetricsFile
  <2>2. a = [file EXCEPT ![f] = t]  BY <1>2
  <2>3. a[f] = t /\ DOMAIN a = Processes  BY <1>2, <2>2
  <2>4. t.class = file[f].class  BY <2>1
  <2>5. D = [a EXCEPT ![f].class[c] = Bump(@, delta, bins)]  BY DEF Counted
  <2>6. D = [a EXCEPT ![f] = [t EXCEPT !.class[c] = Bump(@, delta, bins)]]
    BY <2>3, <2>5
  <2>7. [t EXCEPT !.class[c] = Bump(@, delta, bins)] = q  BY <2>4
  <2> HIDE DEF q, t
  <2> QED BY <1>2, <2>2, <2>6, <2>7
<1>4. q = [class |-> [file[f].class EXCEPT ![c] = C], traffic |-> [file[f].traffic EXCEPT ![k] = K],
           layout |-> file[f].layout, skewed |-> file[f].skewed]
  <2> DEFINE A == file[f].class
             B == file[f].traffic
             l == file[f].layout
             s == file[f].skewed
             r == [class |-> A, traffic |-> B, layout |-> l, skewed |-> s]
  <2>1. file[f] = r  BY <1>1 DEF MetricsFile
  <2> HIDE DEF C, K, A, B, l, s
  <2>2. [r EXCEPT !.traffic[k] = K, !.class[c] = C]
          = [class |-> [A EXCEPT ![c] = C], traffic |-> [B EXCEPT ![k] = K], layout |-> l, skewed |-> s]
    <3> DEFINE Bk == [B EXCEPT ![k] = K]
               u == [class |-> A, traffic |-> Bk, layout |-> l, skewed |-> s]
    <3>1. [r EXCEPT !.traffic[k] = K, !.class[c] = C] = [[r EXCEPT !.traffic[k] = K] EXCEPT !.class[c] = C]
      OBVIOUS
    <3>2. [r EXCEPT !.traffic[k] = K] = u  OBVIOUS
    <3> HIDE DEF Bk
    <3>3. [u EXCEPT !.class[c] = C]
            = [class |-> [A EXCEPT ![c] = C], traffic |-> Bk, layout |-> l, skewed |-> s]
      OBVIOUS
    <3> HIDE DEF u, r
    <3> QED BY <3>1, <3>2, <3>3 DEF Bk
  <2>3. q = [r EXCEPT !.traffic[k] = K, !.class[c] = C]  BY <2>1
  <2> QED BY <2>2, <2>3 DEF A, B, l, s
<1>5. file[f].skewed \in Nat  BY <1>1, FileShape
<1> HIDE DEF D
<1>6. ASSUME NEW v
      PROVE  [D EXCEPT ![f].skewed = @ + v] = [file EXCEPT ![f] = After(file[f], k, delta, bins, v)]
  <2>1. After(file[f], k, delta, bins, v) = [q EXCEPT !.skewed = @ + v]
    <3> HIDE DEF C, K, q
    <3> QED BY <1>4 DEF After, C, K
  <2> HIDE DEF q
  <2>2. D[f] = q /\ DOMAIN D = Processes  BY <1>2, <1>3
  <2>3. [D EXCEPT ![f].skewed = @ + v] = [D EXCEPT ![f] = [q EXCEPT !.skewed = @ + v]]
    BY <2>2
  <2>4. [[file EXCEPT ![f] = q] EXCEPT ![f] = [q EXCEPT !.skewed = @ + v]]
          = [file EXCEPT ![f] = [q EXCEPT !.skewed = @ + v]]
    BY <1>2
  <2> QED BY <1>3, <2>1, <2>3, <2>4
<1>7. After(file[f], k, delta, bins, 0) = q
  <2>1. file[f].skewed + 0 = file[f].skewed  BY <1>5
  <2> HIDE DEF C, K, q
  <2> QED BY <1>4, <2>1 DEF After, C, K
<1> QED BY <1>3, <1>6, <1>7 DEF D, CountedWith

LEMMA SeriesSumType ==
  ASSUME NEW G \in [Processes -> Series], NEW s \in SUBSET Processes
  PROVE  SeriesSum(G, s) \in Series
<1>1. IsFiniteSet(s)  BY MetricsSets, FS_Subset
<1>2. ASSUME NEW x \in Fields PROVE SumFunction([f \in s |-> G[f].n[x]]) \in Nat
  <2> DEFINE g == [f \in s |-> G[f].n[x]]
  <2>1. g \in [s -> Nat]  BY SeriesShape
  <2> HIDE DEF g
  <2>2. SumFunction(g) \in Nat  BY <1>1, <2>1, SumType
  <2> QED BY <2>2 DEF g
<1>3. ASSUME NEW b \in Bins PROVE SumFunction([f \in s |-> G[f].bins[b]]) \in Nat
  <2> DEFINE g == [f \in s |-> G[f].bins[b]]
  <2>1. g \in [s -> Nat]  BY SeriesShape
  <2> HIDE DEF g
  <2>2. SumFunction(g) \in Nat  BY <1>1, <2>1, SumType
  <2> QED BY <2>2 DEF g
<1>4. SumFunction([f \in s |-> G[f].count]) \in Nat
  <2> DEFINE g == [f \in s |-> G[f].count]
  <2>1. g \in [s -> Nat]  BY SeriesShape
  <2> HIDE DEF g
  <2>2. SumFunction(g) \in Nat  BY <1>1, <2>1, SumType
  <2> QED BY <2>2 DEF g
<1> QED BY <1>2, <1>3, <1>4 DEF SeriesSum, Series

LEMMA SeriesSumAdd ==
  ASSUME NEW G \in [Processes -> Series], NEW s \in SUBSET Processes, NEW f \in s
  PROVE  SeriesSum(G, s) = Plus(G[f], SeriesSum(G, s \ {f}))
<1>1. IsFiniteSet(s)  BY MetricsSets, FS_Subset
<1>2. ASSUME NEW x \in Fields
      PROVE  SumFunction([q \in s |-> G[q].n[x]])
               = G[f].n[x] + SumFunction([q \in s \ {f} |-> G[q].n[x]])
  <2> DEFINE g == [q \in s |-> G[q].n[x]]
  <2>1. g \in [s -> Nat]  BY SeriesShape
  <2>2. g[f] = G[f].n[x] /\ On(g, s \ {f}) = [q \in s \ {f} |-> G[q].n[x]]  BY DEF On
  <2> HIDE DEF g
  <2>3. SumFunction(g) = g[f] + SumFunction(On(g, s \ {f}))  BY <1>1, <2>1, SumRemove
  <2> QED BY <2>2, <2>3 DEF g
<1>3. ASSUME NEW b \in Bins
      PROVE  SumFunction([q \in s |-> G[q].bins[b]])
               = G[f].bins[b] + SumFunction([q \in s \ {f} |-> G[q].bins[b]])
  <2> DEFINE g == [q \in s |-> G[q].bins[b]]
  <2>1. g \in [s -> Nat]  BY SeriesShape
  <2>2. g[f] = G[f].bins[b] /\ On(g, s \ {f}) = [q \in s \ {f} |-> G[q].bins[b]]  BY DEF On
  <2> HIDE DEF g
  <2>3. SumFunction(g) = g[f] + SumFunction(On(g, s \ {f}))  BY <1>1, <2>1, SumRemove
  <2> QED BY <2>2, <2>3 DEF g
<1>4. SumFunction([q \in s |-> G[q].count]) = G[f].count + SumFunction([q \in s \ {f} |-> G[q].count])
  <2> DEFINE g == [q \in s |-> G[q].count]
  <2>1. g \in [s -> Nat]  BY SeriesShape
  <2>2. g[f] = G[f].count /\ On(g, s \ {f}) = [q \in s \ {f} |-> G[q].count]  BY DEF On
  <2> HIDE DEF g
  <2>3. SumFunction(g) = g[f] + SumFunction(On(g, s \ {f}))  BY <1>1, <2>1, SumRemove
  <2> QED BY <2>2, <2>3 DEF g
<1>5. SeriesSum(G, s).n = Plus(G[f], SeriesSum(G, s \ {f})).n  BY <1>2 DEF SeriesSum, Plus
<1>6. SeriesSum(G, s).bins = Plus(G[f], SeriesSum(G, s \ {f})).bins  BY <1>3 DEF SeriesSum, Plus
<1>7. SeriesSum(G, s).count = Plus(G[f], SeriesSum(G, s \ {f})).count  BY <1>4 DEF SeriesSum, Plus
<1> QED BY <1>5, <1>6, <1>7 DEF SeriesSum, Plus

LEMMA SeriesSumNone ==
  ASSUME NEW G PROVE SeriesSum(G, {}) = Zero
<1>1. \A x \in Fields : SumFunction([f \in {} |-> G[f].n[x]]) = 0
  <2> SUFFICES ASSUME NEW x \in Fields PROVE SumFunction([f \in {} |-> G[f].n[x]]) = 0  OBVIOUS
  <2>1. [f \in {} |-> G[f].n[x]] = [f \in {} |-> 0]  OBVIOUS
  <2> QED BY <2>1, SumEmpty
<1>2. \A b \in Bins : SumFunction([f \in {} |-> G[f].bins[b]]) = 0
  <2> SUFFICES ASSUME NEW b \in Bins PROVE SumFunction([f \in {} |-> G[f].bins[b]]) = 0  OBVIOUS
  <2>1. [f \in {} |-> G[f].bins[b]] = [f \in {} |-> 0]  OBVIOUS
  <2> QED BY <2>1, SumEmpty
<1>3. SumFunction([f \in {} |-> G[f].count]) = 0
  <2>1. [f \in {} |-> G[f].count] = [f \in {} |-> 0]  OBVIOUS
  <2> QED BY <2>1, SumEmpty
<1> QED BY <1>1, <1>2, <1>3 DEF SeriesSum, Zero

LEMMA FileColumns ==
  ASSUME NEW F \in [Processes -> MetricsFile]
  PROVE  /\ \A c \in Classes : [f \in Processes |-> F[f].class[c]] \in [Processes -> Series]
         /\ \A k \in Traffics : [f \in Processes |-> F[f].traffic[k]] \in [Processes -> Series]
         /\ [f \in Processes |-> F[f].skewed] \in [Processes -> Nat]
BY FileShape

LEMMA FileSumType ==
  ASSUME NEW F \in [Processes -> MetricsFile], NEW s \in SUBSET Processes
  PROVE  FileSum(F, s) \in MetricsFile
<1>1. \A c \in Classes : SeriesSum([f \in Processes |-> F[f].class[c]], s) \in Series
  BY FileColumns, SeriesSumType
<1>2. \A k \in Traffics : SeriesSum([f \in Processes |-> F[f].traffic[k]], s) \in Series
  BY FileColumns, SeriesSumType
<1>3. SumFunction([f \in s |-> F[f].skewed]) \in Nat
  <2> DEFINE g == [f \in s |-> F[f].skewed]
  <2>1. g \in [s -> Nat] /\ IsFiniteSet(s)  BY FileShape, MetricsSets, FS_Subset
  <2> HIDE DEF g
  <2>2. SumFunction(g) \in Nat  BY <2>1, SumType
  <2> QED BY <2>2 DEF g
<1> QED BY <1>1, <1>2, <1>3 DEF FileSum, MetricsFile

LEMMA FileSumAdd ==
  ASSUME NEW F \in [Processes -> MetricsFile], NEW s \in SUBSET Processes, NEW f \in s
  PROVE  FileSum(F, s) = Add(F[f], FileSum(F, s \ {f}))
<1>1. ASSUME NEW c \in Classes
      PROVE  SeriesSum([q \in Processes |-> F[q].class[c]], s)
               = Plus(F[f].class[c], SeriesSum([q \in Processes |-> F[q].class[c]], s \ {f}))
  <2> DEFINE G == [q \in Processes |-> F[q].class[c]]
  <2>1. G \in [Processes -> Series] /\ G[f] = F[f].class[c]  BY FileColumns
  <2> HIDE DEF G
  <2>2. SeriesSum(G, s) = Plus(G[f], SeriesSum(G, s \ {f}))  BY <2>1, SeriesSumAdd
  <2> QED BY <2>1, <2>2 DEF G
<1>2. ASSUME NEW k \in Traffics
      PROVE  SeriesSum([q \in Processes |-> F[q].traffic[k]], s)
               = Plus(F[f].traffic[k], SeriesSum([q \in Processes |-> F[q].traffic[k]], s \ {f}))
  <2> DEFINE G == [q \in Processes |-> F[q].traffic[k]]
  <2>1. G \in [Processes -> Series] /\ G[f] = F[f].traffic[k]  BY FileColumns
  <2> HIDE DEF G
  <2>2. SeriesSum(G, s) = Plus(G[f], SeriesSum(G, s \ {f}))  BY <2>1, SeriesSumAdd
  <2> QED BY <2>1, <2>2 DEF G
<1>3. SumFunction([q \in s |-> F[q].skewed])
        = F[f].skewed + SumFunction([q \in s \ {f} |-> F[q].skewed])
  <2> DEFINE g == [q \in s |-> F[q].skewed]
  <2>1. g \in [s -> Nat] /\ IsFiniteSet(s)  BY FileShape, MetricsSets, FS_Subset
  <2>2. g[f] = F[f].skewed /\ On(g, s \ {f}) = [q \in s \ {f} |-> F[q].skewed]  BY DEF On
  <2> HIDE DEF g
  <2>3. SumFunction(g) = g[f] + SumFunction(On(g, s \ {f}))  BY <2>1, SumRemove
  <2> QED BY <2>2, <2>3 DEF g
<1> DEFINE r == FileSum(F, s \ {f})
<1>4. /\ r.layout = "log2x16" /\ r.skewed = SumFunction([q \in s \ {f} |-> F[q].skewed])
      /\ \A c \in Classes : r.class[c] = SeriesSum([q \in Processes |-> F[q].class[c]], s \ {f})
      /\ \A k \in Traffics : r.traffic[k] = SeriesSum([q \in Processes |-> F[q].traffic[k]], s \ {f})
  BY DEF FileSum
<1> HIDE DEF r
<1>5. Add(F[f], r) = FileSum(F, s)  BY <1>1, <1>2, <1>3, <1>4 DEF Add, FileSum
<1> QED BY <1>5 DEF r

LEMMA FileSumNone ==
  ASSUME NEW F PROVE FileSum(F, {}) = EmptyFile
<1>1. SumFunction([f \in {} |-> F[f].skewed]) = 0
  <2>1. [f \in {} |-> F[f].skewed] = [f \in {} |-> 0]  OBVIOUS
  <2> QED BY <2>1, SumEmpty
<1> QED BY <1>1, SeriesSumNone DEF FileSum, EmptyFile

(* The files are added up, whatever the order.                             *)
LEMMA MergeIsSum ==
  ASSUME NEW F \in [Processes -> MetricsFile]
  PROVE  FoldFunction(Add, EmptyFile, F) = FileSum(F, Processes)
<1> DEFINE S == Processes
           pick(s) == CHOOSE x \in s : TRUE
           Sums == [s \in SUBSET S |-> FileSum(F, s)]
           iter == CHOOSE iter : iter = [s \in SUBSET S |->
                     IF s = {} THEN EmptyFile ELSE Add(F[pick(s)], iter[s \ {pick(s)}])]
<1>1. IsFiniteSet(S) /\ DOMAIN F = S  BY MetricsSets
<1>2. ASSUME NEW s \in SUBSET S, s # {} PROVE pick(s) \in s  BY <1>2
<1>3. Sums = [s \in SUBSET S |-> IF s = {} THEN EmptyFile ELSE Add(F[pick(s)], Sums[s \ {pick(s)}])]
  <2>1. ASSUME NEW s \in SUBSET S
        PROVE  Sums[s] = IF s = {} THEN EmptyFile ELSE Add(F[pick(s)], Sums[s \ {pick(s)}])
    <3>1. CASE s = {}  BY <3>1, FileSumNone
    <3>2. CASE s # {}
      <4>1. pick(s) \in s  BY <1>2, <3>2
      <4> HIDE DEF pick
      <4>2. FileSum(F, s) = Add(F[pick(s)], FileSum(F, s \ {pick(s)}))  BY <4>1, FileSumAdd
      <4>3. s \ {pick(s)} \in SUBSET S  OBVIOUS
      <4> QED BY <3>2, <4>2, <4>3
    <3> QED BY <3>1, <3>2
  <2> HIDE DEF pick
  <2> QED BY <2>1
<1>4. iter = [s \in SUBSET S |-> IF s = {} THEN EmptyFile ELSE Add(F[pick(s)], iter[s \ {pick(s)}])]
  <2> DEFINE IsSum(h) == h = [s \in SUBSET S |-> IF s = {} THEN EmptyFile
                                                  ELSE Add(F[pick(s)], h[s \ {pick(s)}])]
  <2>1. IsSum(Sums)  BY <1>3
  <2> HIDE DEF IsSum, Sums
  <2>2. IsSum(CHOOSE h : IsSum(h))  BY <2>1
  <2> QED BY <2>2 DEF IsSum
<1>5. iter[S] = FileSum(F, S)
  <2> DEFINE Bad == {s \in SUBSET S : iter[s] # FileSum(F, s)}
             Sizes == {Cardinality(s) : s \in Bad}
  <2> HIDE DEF iter
  <2>1. SUFFICES ASSUME Bad # {} PROVE FALSE  OBVIOUS
  <2>2. \A s \in SUBSET S : IsFiniteSet(s) /\ Cardinality(s) \in Nat
    BY <1>1, FS_Subset, FS_CardinalityType
  <2>3. Sizes \in SUBSET Nat /\ Sizes # {}
    <3>1. Bad \subseteq SUBSET S  OBVIOUS
    <3> HIDE DEF Bad
    <3> QED BY <2>1, <2>2, <3>1
  <2>4. PICK n \in Sizes : \A y \in Sizes : n <= y  BY <2>3, LeastExists
  <2>5. PICK s \in Bad : Cardinality(s) = n  BY <2>4
  <2>6. s \in SUBSET S /\ IsFiniteSet(s) /\ Cardinality(s) \in Nat  BY <2>2
  <2>7. iter[s] = IF s = {} THEN EmptyFile ELSE Add(F[pick(s)], iter[s \ {pick(s)}])  BY <1>4, <2>6
  <2>8. CASE s = {}  BY <2>5, <2>7, <2>8, FileSumNone
  <2>9. CASE s # {}
    <3>1. pick(s) \in s  BY <1>2, <2>6, <2>9
    <3> DEFINE x == pick(s)
    <3> HIDE DEF pick
    <3>2. s \ {x} \in SUBSET S /\ x \in s  BY <2>6, <3>1
    <3>3. iter[s] = Add(F[x], iter[s \ {x}])  BY <2>7, <2>9
    <3> HIDE DEF x
    <3>4. Cardinality(s \ {x}) = Cardinality(s) - 1  BY <2>6, <3>2, FS_RemoveElement
    <3>5. s \ {x} \notin Bad
      <4>1. s \ {x} \in Bad => n <= Cardinality(s \ {x})
        <5> HIDE DEF Bad
        <5> QED BY <2>4
      <4> QED BY <2>5, <2>6, <3>4, <4>1
    <3>6. iter[s \ {x}] = FileSum(F, s \ {x})  BY <3>2, <3>5
    <3>7. FileSum(F, s) = Add(F[x], FileSum(F, s \ {x}))  BY <2>6, <3>2, FileSumAdd
    <3> QED BY <2>5, <3>3, <3>6, <3>7
  <2> QED BY <2>8, <2>9
<1>6. FoldFunction(Add, EmptyFile, F) = iter[S]
  BY <1>1 DEF FoldFunction, FoldFunctionOnSet, MapThenFoldSet
<1> QED BY <1>5, <1>6

(* The columns of the sum                                                  *)
LEMMA SumColumns ==
  ASSUME NEW F \in [Processes -> MetricsFile]
  PROVE  LET m == FileSum(F, Processes)
         IN /\ m \in MetricsFile /\ m.layout = "log2x16"
            /\ m.skewed = SumFunction([f \in Processes |-> F[f].skewed])
            /\ \A c \in Classes :
                 /\ \A x \in Fields :
                      m.class[c].n[x] = SumFunction([f \in Processes |-> F[f].class[c].n[x]])
                 /\ \A b \in Bins :
                      m.class[c].bins[b] = SumFunction([f \in Processes |-> F[f].class[c].bins[b]])
                 /\ m.class[c].count = SumFunction([f \in Processes |-> F[f].class[c].count])
            /\ \A k \in Traffics :
                 /\ \A x \in Fields :
                      m.traffic[k].n[x] = SumFunction([f \in Processes |-> F[f].traffic[k].n[x]])
                 /\ \A b \in Bins :
                      m.traffic[k].bins[b] = SumFunction([f \in Processes |-> F[f].traffic[k].bins[b]])
                 /\ m.traffic[k].count = SumFunction([f \in Processes |-> F[f].traffic[k].count])
<1> DEFINE m == FileSum(F, Processes)
<1>1. m \in MetricsFile  BY FileSumType
<1>2. m.layout = "log2x16" /\ m.skewed = SumFunction([f \in Processes |-> F[f].skewed])
  BY DEF FileSum
<1>3. ASSUME NEW c \in Classes
      PROVE  /\ \A x \in Fields :
                  m.class[c].n[x] = SumFunction([f \in Processes |-> F[f].class[c].n[x]])
             /\ \A b \in Bins :
                  m.class[c].bins[b] = SumFunction([f \in Processes |-> F[f].class[c].bins[b]])
             /\ m.class[c].count = SumFunction([f \in Processes |-> F[f].class[c].count])
  <2> DEFINE G == [f \in Processes |-> F[f].class[c]]
  <2>1. m.class[c] = SeriesSum(G, Processes)  BY DEF FileSum
  <2>2. ASSUME NEW x \in Fields
        PROVE  m.class[c].n[x] = SumFunction([f \in Processes |-> F[f].class[c].n[x]])
    <3>1. [f \in Processes |-> G[f].n[x]] = [f \in Processes |-> F[f].class[c].n[x]]
      OBVIOUS
    <3> HIDE DEF G, m
    <3>2. m.class[c].n[x] = SumFunction([f \in Processes |-> G[f].n[x]])  BY <2>1 DEF SeriesSum
    <3> QED BY <3>1, <3>2
  <2>3. ASSUME NEW b \in Bins
        PROVE  m.class[c].bins[b] = SumFunction([f \in Processes |-> F[f].class[c].bins[b]])
    <3>1. [f \in Processes |-> G[f].bins[b]] = [f \in Processes |-> F[f].class[c].bins[b]]
      OBVIOUS
    <3> HIDE DEF G, m
    <3>2. m.class[c].bins[b] = SumFunction([f \in Processes |-> G[f].bins[b]])
      BY <2>1 DEF SeriesSum
    <3> QED BY <3>1, <3>2
  <2>4. m.class[c].count = SumFunction([f \in Processes |-> F[f].class[c].count])
    <3>1. [f \in Processes |-> G[f].count] = [f \in Processes |-> F[f].class[c].count]  OBVIOUS
    <3> HIDE DEF G, m
    <3>2. m.class[c].count = SumFunction([f \in Processes |-> G[f].count])  BY <2>1 DEF SeriesSum
    <3> QED BY <3>1, <3>2
  <2> HIDE DEF m
  <2> QED BY <2>2, <2>3, <2>4
<1>4. ASSUME NEW k \in Traffics
      PROVE  /\ \A x \in Fields :
                  m.traffic[k].n[x] = SumFunction([f \in Processes |-> F[f].traffic[k].n[x]])
             /\ \A b \in Bins :
                  m.traffic[k].bins[b] = SumFunction([f \in Processes |-> F[f].traffic[k].bins[b]])
             /\ m.traffic[k].count = SumFunction([f \in Processes |-> F[f].traffic[k].count])
  <2> DEFINE G == [f \in Processes |-> F[f].traffic[k]]
  <2>1. m.traffic[k] = SeriesSum(G, Processes)  BY DEF FileSum
  <2>2. ASSUME NEW x \in Fields
        PROVE  m.traffic[k].n[x] = SumFunction([f \in Processes |-> F[f].traffic[k].n[x]])
    <3>1. [f \in Processes |-> G[f].n[x]] = [f \in Processes |-> F[f].traffic[k].n[x]]
      OBVIOUS
    <3> HIDE DEF G, m
    <3>2. m.traffic[k].n[x] = SumFunction([f \in Processes |-> G[f].n[x]])  BY <2>1 DEF SeriesSum
    <3> QED BY <3>1, <3>2
  <2>3. ASSUME NEW b \in Bins
        PROVE  m.traffic[k].bins[b] = SumFunction([f \in Processes |-> F[f].traffic[k].bins[b]])
    <3>1. [f \in Processes |-> G[f].bins[b]] = [f \in Processes |-> F[f].traffic[k].bins[b]]
      OBVIOUS
    <3> HIDE DEF G, m
    <3>2. m.traffic[k].bins[b] = SumFunction([f \in Processes |-> G[f].bins[b]])
      BY <2>1 DEF SeriesSum
    <3> QED BY <3>1, <3>2
  <2>4. m.traffic[k].count = SumFunction([f \in Processes |-> F[f].traffic[k].count])
    <3>1. [f \in Processes |-> G[f].count] = [f \in Processes |-> F[f].traffic[k].count]  OBVIOUS
    <3> HIDE DEF G, m
    <3>2. m.traffic[k].count = SumFunction([f \in Processes |-> G[f].count])  BY <2>1 DEF SeriesSum
    <3> QED BY <3>1, <3>2
  <2> HIDE DEF m
  <2> QED BY <2>2, <2>3, <2>4
<1> HIDE DEF m
<1> QED BY <1>1, <1>2, <1>3, <1>4 DEF m

(* A table of T columns for each of S, a table with the same entries the   *)
(* other way round, and the sums of the rows                               *)
IsTable(G, S, T) == IsFiniteSet(S) /\ IsFiniteSet(T) /\ G \in [S -> [T -> Nat]]
Transposed(G, H, S, T) == \A f \in S, k \in T : G[f][k] = H[k][f]
RowSums(a, G, S) == a \in [S -> Nat] /\ \A f \in S : a[f] = SumFunction(G[f])

(* A table has the same sum by rows as by columns.                         *)
LEMMA RowsAgree ==
  ASSUME NEW S, NEW T, NEW G, IsTable(G, S, T), NEW H, IsTable(H, T, S),
         Transposed(G, H, S, T), NEW a, RowSums(a, G, S), NEW b, RowSums(b, H, T)
  PROVE  SumFunction(a) = SumFunction(b)
<1> USE DEF IsTable, Transposed, RowSums
<1>1. a = [f \in S |-> SumFunction(G[f])]  OBVIOUS
<1>2. ASSUME NEW k \in T PROVE b[k] = SumFunction([f \in S |-> G[f][k]])
  <2>1. H[k] = [f \in S |-> G[f][k]]  OBVIOUS
  <2> QED BY <2>1
<1>3. b = [k \in T |-> SumFunction([f \in S |-> G[f][k]])]  BY <1>2
<1>4. SumFunction([f \in S |-> SumFunction(G[f])])
        = SumFunction([k \in T |-> SumFunction([f \in S |-> G[f][k]])])
  BY ONLY IsTable(G, S, T), SumSwap DEF IsTable
<1> QED BY <1>1, <1>3, <1>4

(* One number of the sum, at a time                                        *)
LEMMA ClassField ==
  ASSUME NEW F \in [Processes -> MetricsFile], NEW c \in Classes, NEW x \in Fields
  PROVE  FileSum(F, Processes).class[c].n[x] = SumFunction([f \in Processes |-> F[f].class[c].n[x]])
<1>1. FileSum(F, Processes).class[c] = SeriesSum([f \in Processes |-> F[f].class[c]], Processes)
  BY DEF FileSum
<1> QED BY <1>1 DEF SeriesSum

LEMMA TrafficField ==
  ASSUME NEW F \in [Processes -> MetricsFile], NEW k \in Traffics, NEW x \in Fields
  PROVE  FileSum(F, Processes).traffic[k].n[x] = SumFunction([f \in Processes |-> F[f].traffic[k].n[x]])
<1>1. FileSum(F, Processes).traffic[k] = SeriesSum([f \in Processes |-> F[f].traffic[k]], Processes)
  BY DEF FileSum
<1> QED BY <1>1 DEF SeriesSum

LEMMA ClassBin ==
  ASSUME NEW F \in [Processes -> MetricsFile], NEW c \in Classes, NEW b \in Bins
  PROVE  FileSum(F, Processes).class[c].bins[b] = SumFunction([f \in Processes |-> F[f].class[c].bins[b]])
<1>1. FileSum(F, Processes).class[c] = SeriesSum([f \in Processes |-> F[f].class[c]], Processes)
  BY DEF FileSum
<1> QED BY <1>1 DEF SeriesSum

LEMMA TrafficBin ==
  ASSUME NEW F \in [Processes -> MetricsFile], NEW k \in Traffics, NEW b \in Bins
  PROVE  FileSum(F, Processes).traffic[k].bins[b] = SumFunction([f \in Processes |-> F[f].traffic[k].bins[b]])
<1>1. FileSum(F, Processes).traffic[k] = SeriesSum([f \in Processes |-> F[f].traffic[k]], Processes)
  BY DEF FileSum
<1> QED BY <1>1 DEF SeriesSum

LEMMA SumAgrees ==
  ASSUME NEW F \in [Processes -> MetricsFile], \A f \in Processes : AggregatesAgree(F[f])
  PROVE  AggregatesAgree(FileSum(F, Processes))
<1> DEFINE m == FileSum(F, Processes)
<1>1. m \in MetricsFile  BY SumColumns
<1>2. \A f \in Processes, c \in Classes : AgreesAt(F[f], c)  BY AgreeSound
<1>3. IsFiniteSet(Processes)  BY MetricsSets
<1> SUFFICES ASSUME NEW c \in Classes PROVE AgreesAt(m, c)  BY <1>1, AgreeSound
<1>4. IsFiniteSet(OfClass(c)) /\ OfClass(c) \subseteq Traffics  BY MetricsSets
<1>5. ASSUME NEW x \in Fields
      PROVE  m.class[c].n[x] = SumFunction([k \in OfClass(c) |-> m.traffic[k].n[x]])
  <2> DEFINE G == [f \in Processes |-> [k \in OfClass(c) |-> F[f].traffic[k].n[x]]]
             a == [f \in Processes |-> F[f].class[c].n[x]]
             b == [k \in OfClass(c) |-> m.traffic[k].n[x]]
             H == [k \in OfClass(c) |-> [f \in Processes |-> F[f].traffic[k].n[x]]]
  <2>1. G \in [Processes -> [OfClass(c) -> Nat]] /\ a \in [Processes -> Nat]
        /\ H \in [OfClass(c) -> [Processes -> Nat]]
        /\ \A f \in Processes, k \in OfClass(c) : G[f][k] = H[k][f]
    BY <1>4, FileShape, SeriesShape
  <2>2. ASSUME NEW f \in Processes PROVE a[f] = SumFunction(G[f])
    <3>1. AgreesAt(F[f], c)  BY <1>2
    <3> HIDE DEF m, b, H
    <3> QED BY <3>1 DEF AgreesAt
  <2>3. m.class[c].n[x] = SumFunction(a)  BY ClassField
  <2>4. ASSUME NEW k \in OfClass(c)
        PROVE  b[k] \in Nat /\ b[k] = SumFunction(H[k])
    <3>0. k \in Traffics  BY <1>4
    <3>1. H[k] = [f \in Processes |-> F[f].traffic[k].n[x]]  OBVIOUS
    <3>2. b[k] = SumFunction([f \in Processes |-> F[f].traffic[k].n[x]])  BY <3>0, TrafficField
    <3> HIDE DEF H, m
    <3>3. b[k] \in Nat  BY <1>1, <1>4, FileShape, SeriesShape
    <3> QED BY <3>1, <3>2, <3>3
  <2>5. b \in [OfClass(c) -> Nat]  BY <2>4
  <2> HIDE DEF G, H, a, b
  <2> DEFINE S == Processes
             T == OfClass(c)
  <2>6. IsTable(G, S, T) /\ IsTable(H, T, S) /\ Transposed(G, H, S, T)
    BY <1>3, <1>4, <2>1 DEF IsTable, Transposed
  <2>7. RowSums(a, G, S) /\ RowSums(b, H, T)  BY <2>1, <2>2, <2>4, <2>5 DEF RowSums
  <2> HIDE DEF S, T
  <2>8. SumFunction(a) = SumFunction(b)  BY ONLY <2>6, <2>7, RowsAgree
  <2> QED BY <2>3, <2>8 DEF b
<1>6. ASSUME NEW i \in Bins
      PROVE  m.class[c].bins[i] = SumFunction([k \in OfClass(c) |-> m.traffic[k].bins[i]])
  <2> DEFINE G == [f \in Processes |-> [k \in OfClass(c) |-> F[f].traffic[k].bins[i]]]
             a == [f \in Processes |-> F[f].class[c].bins[i]]
             b == [k \in OfClass(c) |-> m.traffic[k].bins[i]]
             H == [k \in OfClass(c) |-> [f \in Processes |-> F[f].traffic[k].bins[i]]]
  <2>1. G \in [Processes -> [OfClass(c) -> Nat]] /\ a \in [Processes -> Nat]
        /\ H \in [OfClass(c) -> [Processes -> Nat]]
        /\ \A f \in Processes, k \in OfClass(c) : G[f][k] = H[k][f]
    BY <1>4, FileShape, SeriesShape
  <2>2. ASSUME NEW f \in Processes PROVE a[f] = SumFunction(G[f])
    <3>1. AgreesAt(F[f], c)  BY <1>2
    <3> HIDE DEF m, b, H
    <3> QED BY <3>1 DEF AgreesAt
  <2>3. m.class[c].bins[i] = SumFunction(a)  BY ClassBin
  <2>4. ASSUME NEW k \in OfClass(c)
        PROVE  b[k] \in Nat /\ b[k] = SumFunction(H[k])
    <3>0. k \in Traffics  BY <1>4
    <3>1. H[k] = [f \in Processes |-> F[f].traffic[k].bins[i]]  OBVIOUS
    <3>2. b[k] = SumFunction([f \in Processes |-> F[f].traffic[k].bins[i]])  BY <3>0, TrafficBin
    <3> HIDE DEF H, m
    <3>3. b[k] \in Nat  BY <1>1, <1>4, FileShape, SeriesShape
    <3> QED BY <3>1, <3>2, <3>3
  <2>5. b \in [OfClass(c) -> Nat]  BY <2>4
  <2> HIDE DEF G, H, a, b
  <2> DEFINE S == Processes
             T == OfClass(c)
  <2>6. IsTable(G, S, T) /\ IsTable(H, T, S) /\ Transposed(G, H, S, T)
    BY <1>3, <1>4, <2>1 DEF IsTable, Transposed
  <2>7. RowSums(a, G, S) /\ RowSums(b, H, T)  BY <2>1, <2>2, <2>4, <2>5 DEF RowSums
  <2> HIDE DEF S, T
  <2>8. SumFunction(a) = SumFunction(b)  BY ONLY <2>6, <2>7, RowsAgree
  <2> QED BY <2>3, <2>8 DEF b
<1>7. m.class[c].count = SumFunction([k \in OfClass(c) |-> m.traffic[k].count])
  <2> DEFINE G == [f \in Processes |-> [k \in OfClass(c) |-> F[f].traffic[k].count]]
             a == [f \in Processes |-> F[f].class[c].count]
             b == [k \in OfClass(c) |-> m.traffic[k].count]
             H == [k \in OfClass(c) |-> [f \in Processes |-> F[f].traffic[k].count]]
  <2>1. G \in [Processes -> [OfClass(c) -> Nat]] /\ a \in [Processes -> Nat]
        /\ H \in [OfClass(c) -> [Processes -> Nat]]
        /\ \A f \in Processes, k \in OfClass(c) : G[f][k] = H[k][f]
    BY <1>4, FileShape, SeriesShape
  <2>2. ASSUME NEW f \in Processes PROVE a[f] = SumFunction(G[f])
    <3>1. AgreesAt(F[f], c)  BY <1>2
    <3> HIDE DEF m, b, H
    <3> QED BY <3>1 DEF AgreesAt
  <2>3. m.class[c].count = SumFunction(a)  BY SumColumns
  <2>4. ASSUME NEW k \in OfClass(c)
        PROVE  b[k] \in Nat /\ b[k] = SumFunction(H[k])
    <3>0. k \in Traffics  BY <1>4
    <3>1. H[k] = [f \in Processes |-> F[f].traffic[k].count]  OBVIOUS
    <3>2. b[k] = SumFunction([f \in Processes |-> F[f].traffic[k].count])  BY <3>0, SumColumns
    <3> HIDE DEF H, m
    <3>3. b[k] \in Nat  BY <1>1, <1>4, FileShape, SeriesShape
    <3> QED BY <3>1, <3>2, <3>3
  <2>5. b \in [OfClass(c) -> Nat]  BY <2>4
  <2> HIDE DEF G, H, a, b
  <2> DEFINE S == Processes
             T == OfClass(c)
  <2>6. IsTable(G, S, T) /\ IsTable(H, T, S) /\ Transposed(G, H, S, T)
    BY <1>3, <1>4, <2>1 DEF IsTable, Transposed
  <2>7. RowSums(a, G, S) /\ RowSums(b, H, T)  BY <2>1, <2>2, <2>4, <2>5 DEF RowSums
  <2> HIDE DEF S, T
  <2>8. SumFunction(a) = SumFunction(b)  BY ONLY <2>6, <2>7, RowsAgree
  <2> QED BY <2>3, <2>8 DEF b
<1> QED BY <1>5, <1>6, <1>7 DEF AgreesAt

(* What is possible for each part is possible for the sum.                 *)
LEMMA PossibleSum ==
  ASSUME NEW S, IsFiniteSet(S), NEW a \in [S -> Nat], NEW b \in [S -> Nat], NEW d \in [S -> Nat],
         \A y \in S : b[y] <= a[y] /\ d[y] <= Expected(a[y], b[y])
  PROVE  /\ SumFunction(b) <= SumFunction(a)
         /\ SumFunction(d) <= Expected(SumFunction(a), SumFunction(b))
<1> DEFINE e == [y \in S |-> a[y] - b[y]]
           h == [y \in S |-> b[y] * Receivers]
           u == [y \in S |-> e[y] + h[y]]
<1>1. Receivers \in Nat  BY MetricsSets
<1>2. e \in [S -> Nat]  OBVIOUS
<1>3. h \in [S -> Nat]
  <2>1. ASSUME NEW y \in S PROVE b[y] * Receivers \in Nat
    <3>1. b[y] \in Nat  OBVIOUS
    <3> QED BY <1>1, <3>1
  <2> QED BY <2>1
<1>4. \A y \in S : a[y] = e[y] + b[y]  OBVIOUS
<1>5. \A y \in S : h[y] = b[y] * Receivers  OBVIOUS
<1>6. \A y \in S : d[y] <= u[y]  BY DEF Expected
<1> HIDE DEF e, h
<1>7. u \in [S -> Nat]  BY <1>2, <1>3
<1>8. \A y \in S : u[y] = e[y] + h[y]  OBVIOUS
<1> HIDE DEF u
<1>9. SumFunction(a) = SumFunction(e) + SumFunction(b)  BY <1>2, <1>4, SumPlus
<1>10. SumFunction(h) = SumFunction(b) * Receivers  BY <1>1, <1>3, <1>5, SumScale
<1>11. SumFunction(u) = SumFunction(e) + SumFunction(h)  BY <1>2, <1>3, <1>7, <1>8, SumPlus
<1>12. SumFunction(d) <= SumFunction(u)  BY <1>6, <1>7, SumLeq
<1>13. SumFunction(a) \in Nat /\ SumFunction(b) \in Nat /\ SumFunction(d) \in Nat
       /\ SumFunction(e) \in Nat /\ SumFunction(h) \in Nat
  BY <1>2, <1>3, SumType
<1>14. SumFunction(b) * Receivers \in Nat  BY <1>10, <1>13
<1> QED BY <1>9, <1>10, <1>11, <1>12, <1>13, <1>14 DEF Expected

(* The sum of the files passes finalize.                                   *)
LEMMA FinalizesSum ==
  ASSUME NEW F \in [Processes -> MetricsFile], \A f \in Processes : FileSound(F[f]),
         \A k \in Traffics :
           SumIn(F, "delivered", k) <= Expected(SumIn(F, "slots", k), SumIn(F, "broadcast", k))
  PROVE  Finalizes(FileSum(F, Processes))
<1> DEFINE m == FileSum(F, Processes)
           Fits(n) == n["broadcast"] <= n["slots"] /\ n["delivered"] <= Expected(n["slots"], n["broadcast"])
<1>1. m \in MetricsFile /\ AggregatesAgree(m)
  BY SumColumns, SumAgrees DEF FileSound
<1>2. {"slots", "broadcast", "delivered"} \subseteq Fields  BY DEF Fields
<1>3. ASSUME NEW k \in Traffics PROVE Fits(m.traffic[k].n)
  <2> DEFINE a == [f \in Processes |-> F[f].traffic[k].n["slots"]]
             b == [f \in Processes |-> F[f].traffic[k].n["broadcast"]]
  <2>1. \A x \in Fields : m.traffic[k].n[x] = SumIn(F, x, k)  BY SumColumns DEF SumIn
  <2>2. a \in [Processes -> Nat] /\ b \in [Processes -> Nat]
    BY <1>2, FileShape, SeriesShape
  <2>3. \A f \in Processes : b[f] <= a[f]  BY DEF FileSound, SeriesOK
  <2> HIDE DEF a, b
  <2>4. SumFunction(b) <= SumFunction(a)  BY <2>2, <2>3, MetricsSets, SumLeq
  <2>5. SumFunction(a) = SumIn(F, "slots", k) /\ SumFunction(b) = SumIn(F, "broadcast", k)
    BY DEF a, b, SumIn
  <2> HIDE DEF m
  <2> QED BY <1>2, <2>1, <2>4, <2>5
<1>4. ASSUME NEW c \in Classes PROVE Fits(m.class[c].n)
  <2> DEFINE S == OfClass(c)
             a == [k \in S |-> m.traffic[k].n["slots"]]
             b == [k \in S |-> m.traffic[k].n["broadcast"]]
             d == [k \in S |-> m.traffic[k].n["delivered"]]
  <2>1. IsFiniteSet(S) /\ S \subseteq Traffics  BY MetricsSets
  <2>2. /\ \A k \in S : m.traffic[k].n \in [Fields -> Nat] /\ Fits(m.traffic[k].n)
        /\ AgreesAt(m, c)
    BY <1>1, <1>3, <2>1, AgreeSound, FileShape, SeriesShape
  <2> HIDE DEF m, S
  <2>3. a \in [S -> Nat] /\ b \in [S -> Nat] /\ d \in [S -> Nat]
        /\ \A k \in S : b[k] <= a[k] /\ d[k] <= Expected(a[k], b[k])
    BY <1>2, <2>2
  <2>4. m.class[c].n["slots"] = SumFunction(a) /\ m.class[c].n["broadcast"] = SumFunction(b)
        /\ m.class[c].n["delivered"] = SumFunction(d)
    BY <1>2, <2>2 DEF AgreesAt, S
  <2> HIDE DEF a, b, d
  <2>5. SumFunction(b) <= SumFunction(a) /\ SumFunction(d) <= Expected(SumFunction(a), SumFunction(b))
    BY <2>1, <2>3, PossibleSum
  <2> QED BY <2>4, <2>5
<1> HIDE DEF m
<1> QED BY <1>3, <1>4 DEF Finalizes, m

(* A file that is off is not passed.                                       *)
LEMMA OffSpoils ==
  ASSUME file \in [Processes -> MetricsFile], NEW f \in Processes, FileSound(file[f]),
         NEW w \in Off(f)
  PROVE  w[1] # "none" /\ ~FileOK(w[2][f])
<1> DEFINE m == file[f]
           p == w[2][f]
<1>1. m \in MetricsFile /\ \A c \in Classes : AgreesAt(m, c)
  BY AgreeSound DEF FileSound
<1>2. m = [class |-> m.class, traffic |-> m.traffic, layout |-> m.layout, skewed |-> m.skewed]
      /\ m.class \in [Classes -> Series] /\ m.traffic \in [Traffics -> Series]
  BY <1>1 DEF MetricsFile
<1>3. \A x \in Fields : x # "none"  BY DEF Fields
<1>4. AggregatesAgree(p) => \A c \in Classes, x \in Fields :
        p.class[c].n[x] = SumFunction([k \in OfClass(c) |-> p.traffic[k].n[x]])
  BY DEF AggregatesAgree, Mismatches, Parts
<1>5. ASSUME NEW c \in Classes, NEW x \in Fields,
             w = <<x, [file EXCEPT ![f].class[c].n[x] = @ + 1]>>
      PROVE  w[1] # "none" /\ ~FileOK(p)
  <2>1. p = [m EXCEPT !.class[c].n[x] = @ + 1]  BY <1>5
  <2>2. m.class[c] \in Series /\ m.class[c].n \in [Fields -> Nat]  BY <1>2, SeriesShape
  <2>3. p.traffic = m.traffic  BY <1>2, <2>1
  <2>4. p.class[c].n[x] = m.class[c].n[x] + 1  BY <1>2, <2>1, <2>2, SeriesShape
  <2>5. m.class[c].n[x] = SumFunction([k \in OfClass(c) |-> m.traffic[k].n[x]])
    BY <1>1 DEF AgreesAt
  <2> HIDE DEF p, m
  <2> QED BY <1>3, <1>4, <1>5, <2>2, <2>3, <2>4, <2>5 DEF FileOK
<1>6. ASSUME NEW k \in Traffics, NEW x \in Fields,
             w = <<x, [file EXCEPT ![f].traffic[k].n[x] = @ + 1]>>
      PROVE  w[1] # "none" /\ ~FileOK(p)
  <2> DEFINE c == ClassOf[k]
             g == [j \in OfClass(c) |-> m.traffic[j].n[x]]
             h == [j \in OfClass(c) |-> p.traffic[j].n[x]]
  <2>1. c \in Classes /\ k \in OfClass(c) /\ IsFiniteSet(OfClass(c)) /\ OfClass(c) \subseteq Traffics
    BY MetricsSets
  <2>2. p = [m EXCEPT !.traffic[k].n[x] = @ + 1]  BY <1>6
  <2>3. m.traffic[k] \in Series /\ m.traffic[k].n \in [Fields -> Nat]  BY <1>2, SeriesShape
  <2>4. p.class = m.class  BY <1>2, <2>2
  <2>5. p.traffic = [m.traffic EXCEPT ![k].n[x] = @ + 1]  BY <1>2, <2>2
  <2>6. p.traffic[k].n[x] = m.traffic[k].n[x] + 1
        /\ \A j \in Traffics \ {k} : p.traffic[j] = m.traffic[j]
    BY <1>2, <2>3, <2>5, SeriesShape
  <2>7. g \in [OfClass(c) -> Nat]  BY <1>2, <2>1, SeriesShape
  <2>8. h \in [OfClass(c) -> Nat] /\ h[k] = g[k] + 1 /\ \A j \in OfClass(c) \ {k} : h[j] = g[j]
    <3> HIDE DEF p, m, c
    <3> QED BY <2>1, <2>6, <2>7
  <2>9. m.class[c].n[x] = SumFunction(g)  BY <1>1, <2>1 DEF AgreesAt
  <2>10. AggregatesAgree(p) => p.class[c].n[x] = SumFunction(h)  BY <1>4, <2>1
  <2> HIDE DEF p, m, c, g, h
  <2>11. SumFunction(h) = SumFunction(g) + 1 /\ SumFunction(g) \in Nat
    BY <2>1, <2>7, <2>8, SumUpdate, SumType
  <2> QED BY <1>3, <1>6, <2>4, <2>9, <2>10, <2>11 DEF FileOK
<1>7. ASSUME NEW k \in Traffics, NEW b \in Bins,
             w = <<"bins", [file EXCEPT ![f].traffic[k].bins[b] = @ + 1]>>
      PROVE  w[1] # "none" /\ ~FileOK(p)
  <2> DEFINE g == m.traffic[k].bins
             h == [g EXCEPT ![b] = @ + 1]
  <2>1. p = [m EXCEPT !.traffic[k].bins[b] = @ + 1]  BY <1>7
  <2>2. p.traffic = [m.traffic EXCEPT ![k].bins[b] = @ + 1]  BY <1>2, <2>1
  <2>3. m.traffic[k] \in Series /\ g \in [Bins -> Nat]  BY <1>2, SeriesShape
  <2>4. p.traffic[k] = [m.traffic[k] EXCEPT !.bins[b] = @ + 1]  BY <1>2, <2>2
  <2>5. p.traffic[k].bins = h /\ p.traffic[k].count = m.traffic[k].count
    BY <2>3, <2>4, SeriesShape
  <2>6. h \in [Bins -> Nat] /\ h[b] = g[b] + 1 /\ \A i \in Bins \ {b} : h[i] = g[i]
    BY <2>3
  <2>7. m.traffic[k].count = SumFunction(g)  BY DEF FileSound, SeriesOK
  <2> HIDE DEF p, m, g, h
  <2>8. SumFunction(h) = SumFunction(g) + 1 /\ SumFunction(g) \in Nat
    BY <2>3, <2>6, MetricsSets, SumUpdate, SumType
  <2>9. ~SeriesOK(p.traffic[k])  BY <2>5, <2>7, <2>8 DEF SeriesOK
  <2> QED BY <1>7, <2>9 DEF FileOK
<1>8. ASSUME NEW c \in Classes, w = <<"count", [file EXCEPT ![f].class[c].count = @ + 1]>>
      PROVE  w[1] # "none" /\ ~FileOK(p)
  <2>1. p = [m EXCEPT !.class[c].count = @ + 1]  BY <1>8
  <2>2. p.class = [m.class EXCEPT ![c].count = @ + 1]  BY <1>2, <2>1
  <2>3. m.class[c] \in Series /\ m.class[c].count \in Nat  BY <1>2, SeriesShape
  <2>4. p.class[c] = [m.class[c] EXCEPT !.count = @ + 1]  BY <1>2, <2>2
  <2>5. p.class[c].count = m.class[c].count + 1 /\ p.class[c].bins = m.class[c].bins
    BY <2>3, <2>4, SeriesShape
  <2>6. m.class[c].count = SumFunction(m.class[c].bins)  BY DEF FileSound, SeriesOK
  <2> HIDE DEF p, m
  <2>7. ~SeriesOK(p.class[c])  BY <2>3, <2>5, <2>6 DEF SeriesOK
  <2> QED BY <1>8, <2>7 DEF FileOK
<1>9. ASSUME w = <<"layout", [file EXCEPT ![f].layout = "other"]>>
      PROVE  w[1] # "none" /\ ~FileOK(p)
  <2>1. p = [m EXCEPT !.layout = "other"]  BY <1>9
  <2>2. p.layout = "other"  BY <1>2, <2>1
  <2> HIDE DEF p, m
  <2> QED BY <1>9, <2>2 DEF FileOK
<1> DEFINE
      A4 == {<<"count", [file EXCEPT ![f].class[c].count = @ + 1]>> : c \in Classes}
      A5 == {<<"layout", [file EXCEPT ![f].layout = "other"]>>}
      R == w[1] # "none" /\ ~FileOK(p)
<1>10. w \in ClassOff(f) \union TrafficOff(f) \union BinsOff(f) \union A4 \union A5
  <2>1. w \in Off(f)  OBVIOUS
  <2> QED BY <2>1 DEF Off
<1>11. ASSUME w \in ClassOff(f) PROVE R
  <2>1. PICK c \in Classes, x \in Fields : w = <<x, [file EXCEPT ![f].class[c].n[x] = @ + 1]>>
    BY <1>11 DEF ClassOff
  <2> QED BY <1>5, <2>1
<1>12. ASSUME w \in TrafficOff(f) PROVE R
  <2>1. PICK k \in Traffics, x \in Fields : w = <<x, [file EXCEPT ![f].traffic[k].n[x] = @ + 1]>>
    BY <1>12 DEF TrafficOff
  <2> QED BY <1>6, <2>1
<1>13. ASSUME w \in BinsOff(f) PROVE R
  <2>1. PICK k \in Traffics, b \in Bins : w = <<"bins", [file EXCEPT ![f].traffic[k].bins[b] = @ + 1]>>
    BY <1>13 DEF BinsOff
  <2> QED BY <1>7, <2>1
<1>14. ASSUME w \in A4 PROVE R
  <2>1. PICK c \in Classes : w = <<"count", [file EXCEPT ![f].class[c].count = @ + 1]>>  BY <1>14
  <2> QED BY <1>8, <2>1
<1>15. ASSUME w \in A5 PROVE R  BY <1>9, <1>15
<1> HIDE DEF A4, A5
<1> QED BY <1>10, <1>11, <1>12, <1>13, <1>14, <1>15

LEMMA ExpectedGrows ==
  ASSUME NEW s \in Nat, NEW b \in Nat
  PROVE  /\ Expected(s, b) \in Int /\ Expected(s + 1, b) = Expected(s, b) + 1
         /\ Expected(s + 1, b + 1) = Expected(s, b) + Receivers
<1>1. Receivers \in Nat  BY MetricsSets
<1>2. b * Receivers \in Nat /\ (b + 1) * Receivers = b * Receivers + Receivers  BY <1>1
<1> QED BY <1>1, <1>2 DEF Expected

(* One event is counted: the checks still hold, and the sums of the slots  *)
(* and of the submitted messages move with it.                             *)
LEMMA EventCounted ==
  ASSUME MetricsTypes, \A f \in Processes : FileSound(file[f]), DeliveriesPossible,
         NEW f \in Processes, NEW k \in Traffics, NEW delta, NEW bins, NEW v \in 0..1,
         Event(delta, bins), v = 1 => "delivered" \in delta,
         "delivered" \in delta =>
           /\ "slots" \notin delta
           /\ Sum("delivered", k) < Expected(Sum("slots", k), Sum("broadcast", k)),
         file' = [file EXCEPT ![f] = After(file[f], k, delta, bins, v)]
  PROVE  /\ file' \in [Processes -> MetricsFile]
         /\ (\A g \in Processes : FileSound(file[g]))' /\ DeliveriesPossible'
         /\ \A x \in {"slots", "submitted"} :
              InFiles(x) \in Nat /\ InFiles(x)' = InFiles(x) + One(x, delta)
<1> DEFINE G == file'
<1>1. file \in [Processes -> MetricsFile] /\ Receivers \in Nat  BY MetricsSets DEF MetricsTypes
<1>2. /\ G \in [Processes -> MetricsFile] /\ \A g \in Processes : FileSound(G[g])
      /\ \A x \in Fields : FieldIn(G, x) = FieldIn(file, x) + One(x, delta)
      /\ \A x \in Fields, j \in Traffics :
           SumIn(G, x, j) = SumIn(file, x, j) + IF j = k THEN One(x, delta) ELSE 0
  <2>1. Counts(file, G, f, k, delta, bins, v)  BY <1>1 DEF Counts
  <2> HIDE DEF G
  <2>2. CountedUp(file, G, k, delta)  BY <2>1, CountedStep
  <2> QED BY <2>2 DEF CountedUp
<1>3. {"slots", "submitted", "broadcast", "delivered"} \subseteq Fields  BY DEF Fields
<1>4. \A x : InFiles(x) = FieldIn(file, x) /\ InFiles(x)' = FieldIn(G, x)
  BY DEF InFiles, FieldIn
<1>5. \A x, j : Sum(x, j) = SumIn(file, x, j) /\ Sum(x, j)' = SumIn(G, x, j)
  BY DEF Sum, SumIn, Entry
<1>6. ASSUME NEW j \in Traffics
      PROVE  SumIn(G, "delivered", j) <= Expected(SumIn(G, "slots", j), SumIn(G, "broadcast", j))
  <2> DEFINE s == SumIn(file, "slots", j)
             b == SumIn(file, "broadcast", j)
             d == SumIn(file, "delivered", j)
  <2>1. s \in Nat /\ b \in Nat /\ d \in Nat  BY <1>1, <1>3, SumsOfFiles
  <2>2. d <= Expected(s, b) /\ (j = k /\ "delivered" \in delta => d < Expected(s, b))
    BY <1>5 DEF DeliveriesPossible
  <2>3. /\ SumIn(G, "slots", j) = s + IF j = k THEN One("slots", delta) ELSE 0
        /\ SumIn(G, "broadcast", j) = b + IF j = k THEN One("broadcast", delta) ELSE 0
        /\ SumIn(G, "delivered", j) = d + IF j = k THEN One("delivered", delta) ELSE 0
    BY <1>2, <1>3
  <2> HIDE DEF s, b, d, G
  <2>4. /\ Expected(s, b) \in Int /\ Expected(s + 1, b) = Expected(s, b) + 1
        /\ Expected(s + 1, b + 1) = Expected(s, b) + Receivers
    BY <2>1, ExpectedGrows
  <2>5. CASE j # k \/ "slots" \notin delta
    <3>1. j = k => "broadcast" \notin delta  BY <2>5 DEF Event
    <3>2. SumIn(G, "slots", j) = s /\ SumIn(G, "broadcast", j) = b
      BY <2>1, <2>3, <2>5, <3>1 DEF One
    <3>3. \/ SumIn(G, "delivered", j) = d + 1 /\ j = k /\ "delivered" \in delta
          \/ SumIn(G, "delivered", j) = d
      BY <2>1, <2>3 DEF One
    <3> QED BY <2>1, <2>2, <2>4, <3>2, <3>3
  <2>6. CASE j = k /\ "slots" \in delta
    <3>1. SumIn(G, "delivered", j) = d /\ SumIn(G, "slots", j) = s + 1
      BY <2>1, <2>3, <2>6 DEF One
    <3>2. SumIn(G, "broadcast", j) = b \/ SumIn(G, "broadcast", j) = b + 1
      BY <2>1, <2>3 DEF One
    <3> QED BY <1>1, <2>1, <2>2, <2>4, <3>1, <3>2
  <2> QED BY <2>5, <2>6
<1>7. DeliveriesPossible'  BY <1>5, <1>6 DEF DeliveriesPossible
<1>8. \A x \in Fields : FieldIn(file, x) \in Nat  BY <1>1, SumsOfFiles
<1> QED BY <1>2, <1>3, <1>4, <1>7, <1>8

LEMMA RefusedOnce ==
  ASSUME NEW h \in [Processes -> Nat], NEW f \in Processes
  PROVE  /\ [h EXCEPT ![f] = @ + 1] \in [Processes -> Nat] /\ SumFunction(h) \in Nat
         /\ SumFunction([h EXCEPT ![f] = @ + 1]) = SumFunction(h) + 1
<1> DEFINE g == [h EXCEPT ![f] = @ + 1]
<1>1. g \in [Processes -> Nat] /\ g[f] = h[f] + 1 /\ \A q \in Processes \ {f} : g[q] = h[q]
  OBVIOUS
<1> HIDE DEF g
<1>2. SumFunction(g) = SumFunction(h) + 1 /\ SumFunction(h) \in Nat
  BY <1>1, MetricsSets, SumUpdate, SumType
<1> QED BY <1>1, <1>2 DEF g

LEMMA MetricsInitInv == MetricsInit => MetricsInv
<1> SUFFICES ASSUME MetricsInit PROVE MetricsInv  OBVIOUS
<1>1. Zero \in Series  BY DEF Zero, Series
<1>2. EmptyFile \in MetricsFile  BY <1>1 DEF EmptyFile, MetricsFile
<1>3. MetricsTypes  BY <1>2 DEF MetricsInit, MetricsTypes
<1>4. \A x \in Fields : Zero.n[x] = 0  BY DEF Zero
<1>5. SeriesOK(Zero)
  <2> DEFINE g == Zero.bins
  <2>1. g \in [Bins -> Nat] /\ \A b \in Bins : g[b] = 0  BY DEF Zero
  <2> HIDE DEF g
  <2>2. SumFunction(g) = 0  BY <2>1, MetricsSets, SumZero
  <2>3. Zero.count = 0  BY DEF Zero
  <2> QED BY <1>4, <2>2, <2>3 DEF SeriesOK, Fields, g
<1>6. ASSUME NEW c \in Classes PROVE AgreesAt(EmptyFile, c)
  <2>1. ASSUME NEW g \in [OfClass(c) -> Nat], \A k \in OfClass(c) : g[k] = 0 PROVE SumFunction(g) = 0
    BY <2>1, MetricsSets, SumZero
  <2>2. \A k \in OfClass(c) : EmptyFile.traffic[k] = Zero  BY MetricsSets DEF EmptyFile
  <2>3. EmptyFile.class[c] = Zero  BY DEF EmptyFile
  <2>4. ASSUME NEW x \in Fields
        PROVE  SumFunction([k \in OfClass(c) |-> EmptyFile.traffic[k].n[x]]) = 0
    <3> DEFINE g == [k \in OfClass(c) |-> EmptyFile.traffic[k].n[x]]
    <3>1. g \in [OfClass(c) -> Nat] /\ \A k \in OfClass(c) : g[k] = 0  BY <1>4, <2>2
    <3> HIDE DEF g
    <3>2. SumFunction(g) = 0  BY <2>1, <3>1
    <3> QED BY <3>2 DEF g
  <2>5. ASSUME NEW b \in Bins
        PROVE  SumFunction([k \in OfClass(c) |-> EmptyFile.traffic[k].bins[b]]) = 0
    <3> DEFINE g == [k \in OfClass(c) |-> EmptyFile.traffic[k].bins[b]]
    <3>1. g \in [OfClass(c) -> Nat] /\ \A k \in OfClass(c) : g[k] = 0  BY <2>2 DEF Zero
    <3> HIDE DEF g
    <3>2. SumFunction(g) = 0  BY <2>1, <3>1
    <3> QED BY <3>2 DEF g
  <2>6. SumFunction([k \in OfClass(c) |-> EmptyFile.traffic[k].count]) = 0
    <3> DEFINE g == [k \in OfClass(c) |-> EmptyFile.traffic[k].count]
    <3>1. g \in [OfClass(c) -> Nat] /\ \A k \in OfClass(c) : g[k] = 0  BY <2>2 DEF Zero
    <3> HIDE DEF g
    <3>2. SumFunction(g) = 0  BY <2>1, <3>1
    <3> QED BY <3>2 DEF g
  <2> QED BY <1>4, <2>3, <2>4, <2>5, <2>6 DEF AgreesAt, Zero
<1>7. ASSUME NEW x \in Fields PROVE InClasses(EmptyFile, x) = 0
  <2> DEFINE g == [c \in Classes |-> EmptyFile.class[c].n[x]]
  <2>1. g \in [Classes -> Nat] /\ \A c \in Classes : g[c] = 0  BY <1>4 DEF EmptyFile
  <2> HIDE DEF g
  <2>2. SumFunction(g) = 0  BY <2>1, MetricsSets, SumZero
  <2> QED BY <2>2 DEF g, InClasses
<1>8. FileSound(EmptyFile)
  <2>1. AggregatesAgree(EmptyFile)  BY <1>2, <1>6, AgreeSound
  <2>2. InClasses(EmptyFile, "delivered") = 0  BY <1>7 DEF Fields
  <2> QED BY <1>5, <2>1, <2>2 DEF FileSound, EmptyFile
<1>9. \A f \in Processes : file[f] = EmptyFile  BY DEF MetricsInit
<1>10. SlotsAccountedFor
  <2>1. ASSUME NEW x \in Fields PROVE InFiles(x) = 0
    <3> DEFINE g == [f \in Processes |-> InClasses(file[f], x)]
    <3>1. g \in [Processes -> Nat] /\ \A f \in Processes : g[f] = 0  BY <1>7, <1>9
    <3> HIDE DEF g
    <3>2. SumFunction(g) = 0  BY <3>1, MetricsSets, SumZero
    <3> QED BY <3>2 DEF g, InFiles
  <2>2. TotalSendRefused = 0
    <3>1. refusals \in [Processes -> Nat] /\ \A f \in Processes : refusals[f] = 0  BY DEF MetricsInit
    <3> QED BY <3>1, MetricsSets, SumZero DEF TotalSendRefused
  <2>3. early = 0 /\ late = 0  BY DEF MetricsInit
  <2> QED BY <2>1, <2>2, <2>3 DEF SlotsAccountedFor, Fields
<1>11. DeliveriesPossible
  <2>1. ASSUME NEW k \in Traffics, NEW x \in Fields PROVE Sum(x, k) = 0
    <3> DEFINE g == [f \in Processes |-> Entry(f, k).n[x]]
    <3>1. g \in [Processes -> Nat] /\ \A f \in Processes : g[f] = 0
      BY <1>4, <1>9 DEF Entry, EmptyFile
    <3> HIDE DEF g
    <3>2. SumFunction(g) = 0  BY <3>1, MetricsSets, SumZero
    <3> QED BY <3>2 DEF g, Sum
  <2>2. Expected(0, 0) = 0  BY MetricsSets DEF Expected
  <2> QED BY <2>1, <2>2 DEF DeliveriesPossible, Fields
<1>12. Outcome  BY DEF MetricsInit, Outcome
<1> QED BY <1>3, <1>8, <1>9, <1>10, <1>11, <1>12 DEF MetricsInv

(* What is left of the invariant when the files and the counters stay      *)
LEMMA BooksStay ==
  ASSUME MetricsInv, UNCHANGED file
  PROVE  /\ file' \in [Processes -> MetricsFile] /\ (\A f \in Processes : FileSound(file[f]))'
         /\ DeliveriesPossible' /\ \A x \in {"slots", "submitted"} : InFiles(x)' = InFiles(x)
<1>1. file' \in [Processes -> MetricsFile] /\ \A f \in Processes : FileSound(file'[f])
  BY DEF MetricsInv, MetricsTypes
<1>2. \A x, k : Sum(x, k)' = Sum(x, k)  BY DEF Sum, Entry
<1>3. DeliveriesPossible'  BY <1>2 DEF MetricsInv, DeliveriesPossible
<1>4. \A x : InFiles(x)' = InFiles(x)  BY DEF InFiles
<1> QED BY <1>1, <1>3, <1>4

LEMMA CountSlotKeeps ==
  ASSUME MetricsInv, NEW f \in Processes, NEW k \in Traffics, CountSlot(f, k)
  PROVE  MetricsInv'
<1>1. /\ MetricsTypes /\ \A g \in Processes : FileSound(file[g])
      /\ SlotsAccountedFor /\ DeliveriesPossible
  BY DEF MetricsInv
<1>2. /\ verdict = "counting" /\ UNCHANGED <<merged, spoilt, disconnects, early, verdict, blamed>>
  BY DEF CountSlot
<1>3. Outcome'  BY <1>2 DEF Outcome
<1>4. file \in [Processes -> MetricsFile] /\ refusals \in [Processes -> Nat]
      /\ disconnects \in [Processes -> Nat] /\ early \in Nat /\ late \in Nat
      /\ TotalSendRefused \in Nat
  BY <1>1, RefusedOnce DEF MetricsTypes, TotalSendRefused
<1>5. ASSUME NEW delta, Event(delta, {}), "slots" \in delta, "delivered" \notin delta,
             file' = Counted(f, k, delta, {})
      PROVE  /\ file' \in [Processes -> MetricsFile]
             /\ (\A g \in Processes : FileSound(file[g]))' /\ DeliveriesPossible'
             /\ InFiles("slots") \in Nat /\ InFiles("submitted") \in Nat
             /\ InFiles("slots")' = InFiles("slots") + 1
             /\ InFiles("submitted")' = InFiles("submitted") + One("submitted", delta)
  <2>1. file' = [file EXCEPT ![f] = After(file[f], k, delta, {}, 0)]
    BY <1>4, <1>5, CountedIsAfter
  <2>2. 0 \in 0..1 /\ (0 = 1 => "delivered" \in delta) /\ One("slots", delta) = 1
    BY <1>5 DEF One
  <2> QED BY <1>1, <1>5, <2>1, <2>2, EventCounted
<1>6. CASE /\ \E cast \in {{}, {"broadcast"}} :
                file' = Counted(f, k, {"slots", "submitted"} \union cast, {})
           /\ UNCHANGED <<refusals, late>>
  <2>1. PICK cast \in {{}, {"broadcast"}} :
          file' = Counted(f, k, {"slots", "submitted"} \union cast, {})
    BY <1>6
  <2> DEFINE delta == {"slots", "submitted"} \union cast
  <2>2. Event(delta, {}) /\ "slots" \in delta /\ "delivered" \notin delta /\ One("submitted", delta) = 1
    BY DEF Event, Fields, One
  <2>3. file' = Counted(f, k, delta, {})  BY <2>1
  <2> HIDE DEF delta
  <2>4. /\ file' \in [Processes -> MetricsFile]
        /\ (\A g \in Processes : FileSound(file[g]))' /\ DeliveriesPossible'
        /\ InFiles("slots") \in Nat /\ InFiles("submitted") \in Nat
        /\ InFiles("slots")' = InFiles("slots") + 1
        /\ InFiles("submitted")' = InFiles("submitted") + 1
    BY <1>5, <2>2, <2>3
  <2>5. UNCHANGED <<refusals, late, disconnects, early>> /\ TotalSendRefused' = TotalSendRefused
    BY <1>2, <1>6 DEF TotalSendRefused
  <2>6. SlotsAccountedFor'  BY <1>1, <1>4, <2>4, <2>5 DEF SlotsAccountedFor
  <2>7. MetricsTypes'  BY <1>4, <2>4, <2>5 DEF MetricsTypes
  <2> QED BY <1>3, <2>4, <2>6, <2>7 DEF MetricsInv
<1>7. CASE /\ file' = Counted(f, k, {"slots"}, {})
           /\ \/ disconnects[f] = 0 /\ refusals' = [refusals EXCEPT ![f] = @ + 1] /\ UNCHANGED late
              \/ disconnects[f] = 0 /\ late' = late + 1 /\ UNCHANGED refusals
              \/ disconnects[f] > 0 /\ UNCHANGED <<refusals, late>>
  <2>1. Event({"slots"}, {}) /\ One("submitted", {"slots"}) = 0
    BY DEF Event, Fields, One
  <2>2. /\ file' \in [Processes -> MetricsFile]
        /\ (\A g \in Processes : FileSound(file[g]))' /\ DeliveriesPossible'
        /\ InFiles("slots") \in Nat /\ InFiles("submitted") \in Nat
        /\ InFiles("slots")' = InFiles("slots") + 1
        /\ InFiles("submitted")' = InFiles("submitted")
    BY <1>5, <1>7, <2>1
  <2>3. CASE refusals' = [refusals EXCEPT ![f] = @ + 1] /\ UNCHANGED late
    <3>1. refusals' \in [Processes -> Nat] /\ TotalSendRefused' = TotalSendRefused + 1
      BY <1>4, <2>3, RefusedOnce DEF TotalSendRefused
    <3>2. SlotsAccountedFor'  BY <1>1, <1>2, <1>4, <2>2, <2>3, <3>1 DEF SlotsAccountedFor
    <3>3. MetricsTypes'  BY <1>2, <1>4, <2>2, <2>3, <3>1 DEF MetricsTypes
    <3> QED BY <1>3, <2>2, <3>2, <3>3 DEF MetricsInv
  <2>4. CASE late' = late + 1 /\ UNCHANGED refusals
    <3>1. TotalSendRefused' = TotalSendRefused  BY <2>4 DEF TotalSendRefused
    <3>2. SlotsAccountedFor'  BY <1>1, <1>2, <1>4, <2>2, <2>4, <3>1 DEF SlotsAccountedFor
    <3>3. MetricsTypes'  BY <1>2, <1>4, <2>2, <2>4 DEF MetricsTypes
    <3> QED BY <1>3, <2>2, <3>2, <3>3 DEF MetricsInv
  <2>5. CASE disconnects[f] > 0 /\ UNCHANGED <<refusals, late>>
    <3>1. SlotsAccountedFor'  BY <1>2, <2>5 DEF SlotsAccountedFor
    <3>2. MetricsTypes'  BY <1>2, <1>4, <2>2, <2>5 DEF MetricsTypes
    <3> QED BY <1>3, <2>2, <3>1, <3>2 DEF MetricsInv
  <2> QED BY <1>7, <2>3, <2>4, <2>5
<1> QED BY <1>6, <1>7 DEF CountSlot

LEMMA CountDeliveryKeeps ==
  ASSUME MetricsInv, NEW f \in Processes, NEW k \in Traffics, CountDelivery(f, k)
  PROVE  MetricsInv'
<1>1. /\ MetricsTypes /\ \A g \in Processes : FileSound(file[g])
      /\ SlotsAccountedFor /\ DeliveriesPossible /\ file \in [Processes -> MetricsFile]
  BY DEF MetricsInv, MetricsTypes
<1>2. /\ verdict = "counting"
      /\ Sum("delivered", k) < Expected(Sum("slots", k), Sum("broadcast", k))
      /\ UNCHANGED <<merged, spoilt, disconnects, refusals, early, late, verdict, blamed>>
  BY DEF CountDelivery
<1> DEFINE hit(b) == IF ClassOf[k] = "must_deliver" /\ b <= Deadline THEN {"hit"} ELSE {}
           delta(b) == {"delivered"} \union hit(b)
<1>3. PICK b \in Bins, v \in 0..1 :
        file' = [Counted(f, k, delta(b), {b}) EXCEPT ![f].skewed = @ + v]
  BY DEF CountDelivery
<1>4. file' = [file EXCEPT ![f] = After(file[f], k, delta(b), {b}, v)]
  <2> DEFINE d == delta(b)
             B == {b}
  <2>1. file' = CountedWith(f, k, d, B, v)  BY <1>3 DEF CountedWith
  <2> HIDE DEF d, B
  <2>2. file \in [Processes -> MetricsFile]  BY <1>1
  <2>3. \A G : G = [file EXCEPT ![f] = After(file[f], k, d, B, v)] <=> G = CountedWith(f, k, d, B, v)
    BY ONLY <2>2, f \in Processes, k \in Traffics, CountedIsAfter, SMTT(30)
  <2> QED BY <2>1, <2>3 DEF d, B
<1>5. /\ Event(delta(b), {b}) /\ "delivered" \in delta(b) /\ "slots" \notin delta(b)
      /\ One("slots", delta(b)) = 0 /\ One("submitted", delta(b)) = 0
  BY DEF Event, Fields, One
<1> DEFINE d == delta(b)
<1> HIDE DEF delta, d
<1>6. /\ file' \in [Processes -> MetricsFile]
      /\ (\A g \in Processes : FileSound(file[g]))' /\ DeliveriesPossible'
      /\ \A x \in {"slots", "submitted"} :
           InFiles(x) \in Nat /\ InFiles(x)' = InFiles(x) + One(x, d)
  <2>1. Event(d, {b}) /\ "delivered" \in d /\ "slots" \notin d
        /\ file' = [file EXCEPT ![f] = After(file[f], k, d, {b}, v)]
    BY <1>4, <1>5 DEF d
  <2> QED BY <1>1, <1>2, <2>1, EventCounted
<1>7. InFiles("slots")' = InFiles("slots") /\ InFiles("submitted")' = InFiles("submitted")
  <2>1. One("slots", d) = 0 /\ One("submitted", d) = 0  BY <1>5 DEF d
  <2> QED BY <1>6, <2>1
<1>8. SlotsAccountedFor'  BY <1>1, <1>2, <1>7 DEF SlotsAccountedFor, TotalSendRefused
<1>9. Outcome'  BY <1>2 DEF Outcome
<1>10. MetricsTypes'  BY <1>1, <1>2, <1>6 DEF MetricsTypes
<1> QED BY <1>6, <1>8, <1>9, <1>10 DEF MetricsInv

LEMMA CountApartKeeps ==
  ASSUME MetricsInv, NEW f \in Processes, CountApart(f)
  PROVE  MetricsInv'
<1>1. /\ verdict = "counting" /\ UNCHANGED <<file, merged, spoilt, late, verdict, blamed>>
  BY DEF CountApart
<1>2. /\ file' \in [Processes -> MetricsFile] /\ (\A g \in Processes : FileSound(file[g]))'
      /\ DeliveriesPossible' /\ InFiles("slots")' = InFiles("slots")
      /\ InFiles("submitted")' = InFiles("submitted")
  BY <1>1, BooksStay
<1>3. Outcome'  BY <1>1 DEF Outcome
<1>4. refusals \in [Processes -> Nat] /\ disconnects \in [Processes -> Nat]
      /\ early \in Nat /\ late \in Nat /\ file \in [Processes -> MetricsFile]
  BY DEF MetricsInv, MetricsTypes
<1>5. CASE disconnects' = [disconnects EXCEPT ![f] = 1] /\ UNCHANGED <<refusals, early>>
  <2>1. disconnects' \in [Processes -> Nat] /\ disconnects'[f] = 1  BY <1>4, <1>5
  <2>2. SlotsAccountedFor'  BY <2>1 DEF SlotsAccountedFor
  <2>3. MetricsTypes'  BY <1>1, <1>2, <1>4, <1>5, <2>1 DEF MetricsTypes
  <2> QED BY <1>2, <1>3, <2>2, <2>3 DEF MetricsInv
<1>6. CASE refusals' = [refusals EXCEPT ![f] = @ + 1] /\ early' = early + 1 /\ UNCHANGED disconnects
  <2>1. refusals' \in [Processes -> Nat] /\ TotalSendRefused' = TotalSendRefused + 1
        /\ TotalSendRefused \in Nat
    BY <1>4, <1>6, RefusedOnce DEF TotalSendRefused
  <2>2. InFiles("slots") \in Nat /\ InFiles("submitted") \in Nat
    <3>1. {"slots", "submitted"} \subseteq Fields  BY DEF Fields
    <3>2. \A x : InFiles(x) = FieldIn(file, x)  BY DEF InFiles, FieldIn
    <3> QED BY <1>4, <3>1, <3>2, SumsOfFiles
  <2>3. SlotsAccountedFor'
    BY <1>1, <1>2, <1>4, <1>6, <2>1, <2>2 DEF MetricsInv, SlotsAccountedFor
  <2>4. MetricsTypes'  BY <1>1, <1>2, <1>4, <1>6, <2>1 DEF MetricsTypes
  <2> QED BY <1>2, <1>3, <2>3, <2>4 DEF MetricsInv
<1> QED BY <1>5, <1>6 DEF CountApart

LEMMA MergeFilesKeeps ==
  ASSUME MetricsInv, MergeFiles PROVE MetricsInv'
<1>1. verdict = "counting" /\ UNCHANGED <<file, disconnects, refusals, early, late>>
  BY DEF MergeFiles
<1>2. /\ file' \in [Processes -> MetricsFile] /\ (\A g \in Processes : FileSound(file[g]))'
      /\ DeliveriesPossible' /\ InFiles("slots")' = InFiles("slots")
      /\ InFiles("submitted")' = InFiles("submitted")
  BY <1>1, BooksStay
<1>3. SlotsAccountedFor'
  BY <1>1, <1>2 DEF MetricsInv, SlotsAccountedFor, TotalSendRefused
<1>4. MetricsTypes'  BY <1>1 DEF MetricsInv, MetricsTypes
<1>5. file \in [Processes -> MetricsFile] /\ \A f \in Processes : FileSound(file[f])
  BY DEF MetricsInv, MetricsTypes
<1>6. PICK w \in Written :
        LET sum == FoldFunction(Add, EmptyFile, w[2])
        IN /\ spoilt' = w[1]
           /\ IF (\A f \in Processes : FileOK(w[2][f])) /\ Finalizes(sum)
              THEN /\ merged' = sum /\ verdict' = "merged"
                   /\ blamed' = Blame(InClasses(sum, "submitted"), InClasses(sum, "slots"))
              ELSE verdict' = "refused" /\ UNCHANGED <<merged, blamed>>
  BY DEF MergeFiles
<1>7. Outcome'
  <2>1. CASE w = <<"none", file>>
    <3> DEFINE sum == FoldFunction(Add, EmptyFile, file)
    <3>1. sum = FileSum(file, Processes)  BY <1>5, MergeIsSum
    <3>2. Finalizes(sum)
      <4>1. \A x, k : Sum(x, k) = SumIn(file, x, k)  BY DEF Sum, SumIn, Entry
      <4>2. \A k \in Traffics :
              SumIn(file, "delivered", k)
                <= Expected(SumIn(file, "slots", k), SumIn(file, "broadcast", k))
        BY <4>1 DEF MetricsInv, DeliveriesPossible
      <4>3. Finalizes(FileSum(file, Processes))  BY <1>5, <4>2, FinalizesSum
      <4> QED BY <3>1, <4>3
    <3>3. w[1] = "none" /\ w[2] = file  BY <2>1
    <3> HIDE DEF sum
    <3>4. /\ spoilt' = "none"
          /\ IF \A f \in Processes : FileOK(file[f])
             THEN /\ merged' = sum /\ verdict' = "merged"
                  /\ blamed' = Blame(InClasses(sum, "submitted"), InClasses(sum, "slots"))
             ELSE verdict' = "refused"
      BY <1>6, <3>2, <3>3 DEF sum
    <3>5. CASE \A f \in Processes : FileOK(file[f])
      <4>1. verdict' = "merged" /\ merged' = FileSum(file', Processes)
        BY <1>1, <3>1, <3>4, <3>5
      <4>2. blamed' = Blame(InClasses(merged, "submitted"), InClasses(merged, "slots"))'
        <5>1. TotalPeerDisconnects' = TotalPeerDisconnects /\ TotalSendRefused' = TotalSendRefused
          BY <1>1 DEF TotalPeerDisconnects, TotalSendRefused
        <5>2. merged' = sum /\ blamed' = Blame(InClasses(sum, "submitted"), InClasses(sum, "slots"))
          BY <3>4, <3>5
        <5> QED BY <5>1, <5>2 DEF Blame
      <4> QED BY <3>4, <4>1, <4>2 DEF Outcome
    <3>6. CASE \E f \in Processes : ~FileOK(file[f])
      <4>1. PICK f \in Processes : ~FileOK(file[f])  BY <3>6
      <4>2. FileSound(file[f])  BY <1>5
      <4>3. ~HasTraffic(file[f])  BY <4>1, <4>2 DEF FileSound, FileOK
      <4>4. verdict' = "refused"  BY <3>4, <3>6
      <4> QED BY <1>1, <4>3, <4>4 DEF Outcome
    <3> QED BY <3>5, <3>6
  <2>2. ASSUME NEW f \in Processes, w \in Off(f) PROVE Outcome'
    <3>1. w[1] # "none" /\ ~FileOK(w[2][f])  BY <1>5, <2>2, OffSpoils
    <3>2. verdict' = "refused" /\ spoilt' = w[1]  BY <1>6, <3>1
    <3> QED BY <3>1, <3>2 DEF Outcome
  <2>3. w = <<"none", file>> \/ \E f \in Processes : w \in Off(f)  BY DEF Written
  <2> QED BY <2>1, <2>2, <2>3
<1> QED BY <1>2, <1>3, <1>4, <1>7 DEF MetricsInv

LEMMA MetricsInvariant == MetricsSpec => []MetricsInv
<1>1. MetricsInv /\ [MetricsNext]_metricsVars => MetricsInv'
  <2> SUFFICES ASSUME MetricsInv, [MetricsNext]_metricsVars PROVE MetricsInv'  OBVIOUS
  <2>1. CASE UNCHANGED metricsVars
    <3>1. UNCHANGED <<file, merged, spoilt, disconnects, refusals, early, late, verdict, blamed>>
      BY <2>1 DEF metricsVars
    <3>2. DeliveriesPossible' /\ (\A f \in Processes : FileSound(file[f]))'
          /\ InFiles("slots")' = InFiles("slots") /\ InFiles("submitted")' = InFiles("submitted")
      BY <3>1, BooksStay
    <3>3. SlotsAccountedFor'
      BY <3>1, <3>2 DEF MetricsInv, SlotsAccountedFor, TotalSendRefused
    <3>4. MetricsTypes'  BY <3>1 DEF MetricsInv, MetricsTypes
    <3>5. Outcome'
      BY <3>1 DEF MetricsInv, Outcome, Blame, TotalPeerDisconnects, TotalSendRefused
    <3> QED BY <3>2, <3>3, <3>4, <3>5 DEF MetricsInv
  <2> QED BY <2>1, CountSlotKeeps, CountDeliveryKeeps, CountApartKeeps, MergeFilesKeeps DEF MetricsNext
<1> QED BY <1>1, MetricsInitInv, PTL DEF MetricsSpec

(* What is merged is what was counted (MergeFiles): no file with a number  *)
(* off - a count of a class or a traffic key, a bin, a class's number of   *)
(* samples, or the layout - gets through, the sum of files in order agrees *)
(* and is consistent exactly when none of them is skewed, and files with   *)
(* traffic are refused only when a number was off.                         *)
THEOREM MergedIsWhatWasCounted == MetricsSpec => []MergeIsExact
<1>1. MetricsInv => MergeIsExact
  <2> SUFFICES ASSUME MetricsInv PROVE MergeIsExact  OBVIOUS
  <2>1. ASSUME verdict = "merged"
        PROVE  /\ spoilt = "none" /\ AggregatesAgree(merged)
               /\ MergedConsistent(merged) = (\A f \in Processes : file[f].skewed = 0)
    <3>1. /\ spoilt = "none" /\ merged = FileSum(file, Processes)
          /\ file \in [Processes -> MetricsFile] /\ \A f \in Processes : AggregatesAgree(file[f])
      BY <2>1 DEF MetricsInv, Outcome, MetricsTypes, FileSound
    <3>2. AggregatesAgree(merged)  BY <3>1, SumAgrees
    <3> DEFINE g == [f \in Processes |-> file[f].skewed]
    <3>3. merged.skewed = SumFunction(g) /\ g \in [Processes -> Nat]
      BY <3>1, SumColumns, FileColumns
    <3>4. \A f \in Processes : g[f] = file[f].skewed  OBVIOUS
    <3> HIDE DEF g
    <3>5. merged.skewed = 0 <=> \A f \in Processes : g[f] = 0
      BY <3>3, MetricsSets, SumZero
    <3> QED BY <3>1, <3>2, <3>4, <3>5 DEF MergedConsistent
  <2>2. ASSUME verdict = "refused", \A f \in Processes : HasTraffic(file[f])
        PROVE  spoilt # "none"
    BY <2>2 DEF MetricsInv, Outcome
  <2> QED BY <2>1, <2>2 DEF MergeIsExact
<1> QED BY <1>1, MetricsInvariant, PTL

LEMMA ReachesAll ==
  ASSUME NEW a \in Nat, NEW s \in Nat, a >= s PROVE Reaches(a, s)
<1>1. Threshold \in 0..100  BY MetricsAssumption
<1>2. 100 - Threshold \in Nat /\ s * 100 = s * Threshold + s * (100 - Threshold)  BY <1>1
<1>3. s * (100 - Threshold) \in Nat /\ s * Threshold \in Nat  BY <1>1, <1>2
<1> QED BY <1>2, <1>3 DEF Reaches

(* A shortfall has its cause (EvaluateGate): the farm is blamed only when  *)
(* a slot was late, the SUT only when it dropped or refused something, and *)
(* without a disconnect only when the late slots alone would have passed.  *)
THEOREM ShortfallHasItsCause == MetricsSpec => []ShortfallIsAttributed
<1>1. MetricsInv => ShortfallIsAttributed
  <2> SUFFICES ASSUME MetricsInv, verdict = "merged"
               PROVE  /\ blamed = "SUT" => TotalSendRefused + TotalPeerDisconnects > 0
                      /\ blamed = "farm" => late > 0
                      /\ (blamed = "SUT" /\ TotalPeerDisconnects = 0 /\ early = 0) =>
                           Reaches(InClasses(merged, "slots") - late, InClasses(merged, "slots"))
    BY DEF ShortfallIsAttributed
  <2>1. /\ file \in [Processes -> MetricsFile] /\ merged = FileSum(file, Processes)
        /\ disconnects \in [Processes -> Nat] /\ refusals \in [Processes -> Nat]
        /\ early \in Nat /\ late \in Nat /\ SlotsAccountedFor
        /\ blamed = Blame(InClasses(merged, "submitted"), InClasses(merged, "slots"))
    BY DEF MetricsInv, Outcome, MetricsTypes
  <2>2. TotalPeerDisconnects \in Nat /\ TotalSendRefused \in Nat
        /\ (TotalPeerDisconnects = 0 <=> \A f \in Processes : disconnects[f] = 0)
    BY <2>1, MetricsSets, SumType, SumZero DEF TotalPeerDisconnects, TotalSendRefused
  <2>3. ASSUME NEW x \in Fields PROVE InClasses(merged, x) = InFiles(x) /\ InFiles(x) \in Nat
    <3> DEFINE S == Processes
               T == Classes
               G == [f \in S |-> [c \in T |-> file[f].class[c].n[x]]]
               H == [c \in T |-> [f \in S |-> file[f].class[c].n[x]]]
               a == [f \in S |-> InClasses(file[f], x)]
               b == [c \in T |-> merged.class[c].n[x]]
    <3>1. IsFiniteSet(S) /\ IsFiniteSet(T)  BY MetricsSets
    <3>2. \A f \in S, c \in T : file[f].class[c].n[x] \in Nat  BY <2>1, FileShape, SeriesShape
    <3>3. IsTable(G, S, T) /\ IsTable(H, T, S) /\ Transposed(G, H, S, T)
      BY <3>1, <3>2 DEF IsTable, Transposed
    <3>4. RowSums(a, G, S)
      <4>1. a \in [S -> Nat]  BY <2>1, SumsOfFiles
      <4>2. ASSUME NEW f \in S PROVE a[f] = SumFunction(G[f])
        <5>1. G[f] = [c \in T |-> file[f].class[c].n[x]]  OBVIOUS
        <5> QED BY <5>1 DEF InClasses
      <4> HIDE DEF a, G, S
      <4> QED BY <4>1, <4>2 DEF RowSums
    <3>5. RowSums(b, H, T)
      <4>1. merged \in MetricsFile  BY <2>1, SumColumns
      <4>2. b \in [T -> Nat]  BY <4>1, FileShape, SeriesShape
      <4>3. ASSUME NEW c \in T PROVE b[c] = SumFunction(H[c])
        <5>1. H[c] = [f \in S |-> file[f].class[c].n[x]]  OBVIOUS
        <5>2. merged.class[c].n[x] = SumFunction([f \in S |-> file[f].class[c].n[x]])
          <6>1. c \in Classes /\ x \in Fields /\ file \in [Processes -> MetricsFile]  BY <2>1
          <6>2. FileSum(file, Processes).class[c].n[x]
                  = SumFunction([f \in Processes |-> file[f].class[c].n[x]])
            BY ONLY <6>1, SumColumns
          <6>3. merged = FileSum(file, Processes)  BY <2>1
          <6> QED BY ONLY <6>2, <6>3
        <5> QED BY <5>1, <5>2
      <4> HIDE DEF b, H, T
      <4> QED BY <4>2, <4>3 DEF RowSums
    <3>6. InClasses(merged, x) = SumFunction(b) /\ InFiles(x) = SumFunction(a)
      BY DEF InClasses, InFiles
    <3>7. InFiles(x) \in Nat
      <4>1. InFiles(x) = FieldIn(file, x)  BY DEF InFiles, FieldIn
      <4> QED BY <2>1, <4>1, SumsOfFiles
    <3> HIDE DEF S, T, G, H, a, b
    <3>8. SumFunction(a) = SumFunction(b)  BY <3>3, <3>4, <3>5, RowsAgree
    <3> QED BY <3>6, <3>7, <3>8
  <2> DEFINE a == InClasses(merged, "submitted")
             s == InClasses(merged, "slots")
  <2>4. a \in Nat /\ s \in Nat
        /\ (TotalPeerDisconnects = 0 => s + early = a + TotalSendRefused + late)
    <3>1. "submitted" \in Fields /\ "slots" \in Fields  BY DEF Fields
    <3> QED BY <2>1, <2>2, <2>3, <3>1 DEF SlotsAccountedFor
  <2>5. blamed = Blame(a, s)  BY <2>1
  <2> HIDE DEF a, s
  <2>6. blamed = "SUT" => TotalSendRefused + TotalPeerDisconnects > 0
    BY <2>2, <2>5 DEF Blame
  <2>7. ASSUME blamed = "farm", late = 0 PROVE FALSE
    <3>1. /\ ~Reaches(a, s) /\ ~(TotalPeerDisconnects > 0)
          /\ ~(TotalSendRefused > 0 /\ Reaches(a + TotalSendRefused, s))
      BY <2>5, <2>7 DEF Blame
    <3>2. s + early = a + TotalSendRefused  BY <2>2, <2>4, <2>7, <3>1
    <3>3. a + TotalSendRefused \in Nat /\ a + TotalSendRefused >= s  BY <2>1, <2>2, <2>4, <3>2
    <3>4. Reaches(a + TotalSendRefused, s)  BY <2>4, <3>3, ReachesAll
    <3>5. TotalSendRefused = 0  BY <2>2, <3>1, <3>4
    <3>6. a + TotalSendRefused = a  BY <2>4, <3>5
    <3> QED BY <3>1, <3>4, <3>6
  <2>8. ASSUME blamed = "SUT", TotalPeerDisconnects = 0, early = 0 PROVE Reaches(s - late, s)
    <3>1. Reaches(a + TotalSendRefused, s)  BY <2>5, <2>8 DEF Blame
    <3>2. a + TotalSendRefused = s - late  BY <2>1, <2>2, <2>4, <2>8
    <3> QED BY <3>1, <3>2
  <2> QED BY <2>1, <2>6, <2>7, <2>8 DEF s
<1> QED BY <1>1, MetricsInvariant, PTL

-----------------------------------------------------------------------------
(* Percentiles                                                             *)

(* A rank of p percent of n, rounded up                                    *)
LEMMA RankRoundsUp ==
  ASSUME NEW n \in Nat, NEW p \in 0..100
  PROVE  LET r == (n * p + 99) \div 100
         IN r \in Nat /\ r <= n /\ r * 100 >= n * p
<1> DEFINE r == (n * p + 99) \div 100
<1>1. n * p \in Nat /\ n * (100 - p) \in Nat /\ n * 100 = n * p + n * (100 - p)
  <2>1. p \in Nat /\ 100 - p \in Nat  OBVIOUS
  <2> QED BY <2>1
<1> DEFINE a == n * p
           y == a + 99
<1>2. y \in Nat  BY <1>1
<1>3. r = y \div 100  OBVIOUS
<1> HIDE DEF a, r
<1>4. y \div 100 \in Nat /\ 100 * (y \div 100) <= y /\ y < 100 * (y \div 100) + 100
  <2> HIDE DEF y
  <2>1. 100 \in Nat \ {0}  OBVIOUS
  <2> QED BY <1>2, <2>1, NatDivMod
<1>5. r \in Nat /\ 100 * r <= a + 99 /\ a + 99 < 100 * r + 100  BY <1>3, <1>4
<1>6. a \in Nat /\ a <= n * 100  BY <1>1 DEF a
<1>7. r <= n /\ r * 100 >= a  BY <1>5, <1>6
<1> QED BY <1>5, <1>7 DEF a, r

(* What lies below a bin grows with the bin, and below the last is all.    *)
LEMMA BelowGrows ==
  ASSUME NEW s \in Series, NEW b \in Bins
  PROVE  /\ Below(s, b) \in Nat
         /\ \A i \in Bins : i <= b => Below(s, i) <= Below(s, b)
         /\ b = Cardinality(Bins) => Below(s, b) = SumFunction(s.bins)
<1>1. IsFiniteSet(Bins) /\ Bins = 1..Cardinality(Bins) /\ Bins \subseteq Nat
      /\ Cardinality(Bins) \in Nat
  BY MetricsAssumption, FS_CardinalityType
<1>2. s.bins \in [Bins -> Nat]  BY SeriesShape
<1>3. \A i \in Bins : 1..i \subseteq Bins
  <2> DEFINE N == Cardinality(Bins)
  <2>1. N \in Nat /\ Bins = 1..N  BY <1>1
  <2> HIDE DEF N
  <2> QED BY <2>1
<1>4. ASSUME NEW i \in Bins
      PROVE  Below(s, i) = SumFunction(On(s.bins, 1..i)) /\ IsFiniteSet(1..i)
             /\ On(s.bins, 1..i) \in [1..i -> Nat]
  <2>1. IsFiniteSet(1..i)  BY <1>1, <1>3, FS_Subset
  <2>2. On(s.bins, 1..i) \in [1..i -> Nat]  BY <1>2, <1>3 DEF On
  <2> QED BY <2>1, <2>2 DEF Below, On
<1>5. Below(s, b) \in Nat  BY <1>4, SumType
<1>6. ASSUME NEW i \in Bins, i <= b PROVE Below(s, i) <= Below(s, b)
  <2> DEFINE S == 1..b
             R == 1..i
             g == On(s.bins, S)
  <2>1. R \in SUBSET S  BY <1>1, <1>6
  <2>2. IsFiniteSet(S) /\ g \in [S -> Nat] /\ Below(s, b) = SumFunction(g)  BY <1>4
  <2>3. Below(s, i) = SumFunction(On(s.bins, R))  BY <1>4
  <2>4. On(g, R) = On(s.bins, R)  BY <2>1 DEF On
  <2> HIDE DEF S, R, g
  <2>5. SumFunction(On(g, R)) <= SumFunction(g)  BY <2>1, <2>2, SumPart
  <2> QED BY <2>2, <2>3, <2>4, <2>5
<1>7. ASSUME b = Cardinality(Bins) PROVE Below(s, b) = SumFunction(s.bins)
  <2>1. 1..b = Bins  BY <1>1, <1>7
  <2>2. On(s.bins, Bins) = s.bins  BY <1>2, OnAll
  <2> QED BY <1>4, <2>1, <2>2
<1> QED BY <1>5, <1>6, <1>7

(* A series of the sum counts what its bins hold.                          *)
LEMMA SumCountsBins ==
  ASSUME NEW F \in [Processes -> MetricsFile], \A f \in Processes : FileSound(F[f]),
         NEW k \in Traffics
  PROVE  LET s == FileSum(F, Processes).traffic[k] IN s.count = SumFunction(s.bins)
<1> DEFINE s == FileSum(F, Processes).traffic[k]
           S == Processes
           T == Bins
           G == [f \in S |-> F[f].traffic[k].bins]
           H == [i \in T |-> [f \in S |-> F[f].traffic[k].bins[i]]]
           a == [f \in S |-> F[f].traffic[k].count]
           b == s.bins
<1>1. IsFiniteSet(S) /\ IsFiniteSet(T)  BY MetricsSets
<1>2. \A f \in S : F[f].traffic[k].bins \in [T -> Nat] /\ F[f].traffic[k].count \in Nat
  BY FileShape, SeriesShape
<1>3. IsTable(G, S, T) /\ IsTable(H, T, S) /\ Transposed(G, H, S, T)
  BY <1>1, <1>2 DEF IsTable, Transposed
<1>4. RowSums(a, G, S)  BY <1>2 DEF RowSums, FileSound, SeriesOK
<1>5. RowSums(b, H, T)
  <2>1. FileSum(F, Processes) \in MetricsFile  BY SumColumns
  <2>2. s \in Series  BY <2>1, FileShape
  <2>3. b \in [T -> Nat]  BY <2>2, SeriesShape
  <2>4. ASSUME NEW i \in T PROVE b[i] = SumFunction(H[i])
    <3>1. H[i] = [f \in S |-> F[f].traffic[k].bins[i]]  OBVIOUS
    <3>2. s.bins[i] = SumFunction([f \in S |-> F[f].traffic[k].bins[i]])  BY SumColumns
    <3> QED BY <3>1, <3>2
  <2> HIDE DEF b, H, T
  <2> QED BY <2>3, <2>4 DEF RowSums
<1>6. s.count = SumFunction(a)  BY SumColumns
<1> HIDE DEF S, T, G, H, a, b
<1>7. SumFunction(a) = SumFunction(b)  BY <1>3, <1>4, <1>5, RowsAgree
<1> QED BY <1>6, <1>7 DEF b

(* A percentile within the limit (histogramPercentile, judgePercentile)    *)
(* means that no more than the rest of the deliveries of all processes was *)
(* later than the limit.                                                   *)
THEOREM PercentileIsWithin == MetricsSpec => []WithinLimitIsTrue
<1>1. MetricsInv => WithinLimitIsTrue
  <2> SUFFICES ASSUME MetricsInv, verdict = "merged", NEW k \in Traffics, WithinLimit(k)
               PROVE  LET s == merged.traffic[k]
                      IN (s.count - Below(s, Limit)) * 100 <= s.count * (100 - Rank)
    BY DEF WithinLimitIsTrue
  <2> DEFINE s == merged.traffic[k]
             N == Cardinality(Bins)
             rank == (s.count * Rank + 99) \div 100
             r == IF rank = 0 THEN 1 ELSE rank
             P == {b \in Bins : Below(s, b) >= r}
  <2>1. file \in [Processes -> MetricsFile] /\ merged = FileSum(file, Processes)
        /\ \A f \in Processes : FileSound(file[f])
    BY DEF MetricsInv, Outcome, MetricsTypes
  <2>2. merged \in MetricsFile /\ s.count = SumFunction(s.bins)  BY <2>1, SumColumns, SumCountsBins
  <2>3. s \in Series /\ s.count \in Nat  BY <2>2, FileShape, SeriesShape
  <2>4. s.count > 0 /\ Percentile(s) <= Limit  BY DEF WithinLimit
  <2>5. Rank \in 1..100 /\ Limit \in Bins /\ Bins = 1..N /\ N \in Nat
    BY MetricsAssumption, FS_CardinalityType
  <2>6. Percentile(s) = Min(P)  BY DEF Percentile
  <2> HIDE DEF s
  <2>7. rank \in Nat /\ rank <= s.count /\ rank * 100 >= s.count * Rank
    <3>1. Rank \in 0..100  BY <2>5
    <3> QED BY <2>3, <3>1, RankRoundsUp
  <2> HIDE DEF N, rank
  <2>8. N \in Bins /\ Limit \in Nat /\ Bins \subseteq Nat  BY <2>5
  <2>9. Below(s, N) = s.count  BY <2>2, <2>3, <2>8, BelowGrows DEF N, s
  <2>10. N \in P  BY <2>3, <2>4, <2>7, <2>8, <2>9
  <2>11. P \in SUBSET Nat /\ P # {}  BY <2>8, <2>10
  <2>12. Min(P) \in P  BY <2>11, MinIsIn
  <2>13. Min(P) \in Bins /\ Below(s, Min(P)) >= r /\ Min(P) <= Limit
    BY <2>4, <2>6, <2>12
  <2> DEFINE below == Below(s, Limit)
  <2>14. below \in Nat /\ Below(s, Min(P)) \in Nat /\ Below(s, Min(P)) <= below
    BY <2>3, <2>5, <2>13, BelowGrows
  <2> HIDE DEF P, below
  <2>15. below >= rank  BY <2>7, <2>13, <2>14
  <2>16. s.count * Rank + s.count * (100 - Rank) = s.count * 100
    <3> DEFINE c == s.count
               r0 == Rank
    <3>1. c \in Int /\ r0 \in Int  BY <2>3, <2>5
    <3> HIDE DEF c, r0
    <3>2. c * r0 + c * (100 - r0) = c * 100  BY <3>1
    <3> QED BY <3>2 DEF c, r0
  <2>17. (s.count - below) * 100 = s.count * 100 - below * 100 /\ s.count * Rank \in Nat
         /\ s.count * (100 - Rank) \in Int
    BY <2>3, <2>5, <2>14
  <2>18. (s.count - below) * 100 <= s.count * (100 - Rank)
    BY <2>3, <2>7, <2>14, <2>15, <2>16, <2>17
  <2> QED BY <2>18 DEF s, below
<1> QED BY <1>1, MetricsInvariant, PTL
=============================================================================
