---------------------------- MODULE MetricsMerge ----------------------------
(***************************************************************************)
(* From the counters of the processes to the judgement of a run: each      *)
(* process writes a metrics file that counts everything twice, by class    *)
(* and by traffic; the orchestrator checks each file, adds them up, checks *)
(* the sum, and asks whether the offered load was attempted                *)
(* (orchestrator/run/metrics.go and gate.go) and whether a percentile is   *)
(* within its limit (scenario_judge.go).                                   *)
(*                                                                         *)
(* The counters of a slot are the sender's, those of a delivery the        *)
(* receiver's, so only the sum relates them.  One number of one file may   *)
(* be off, as from a faulty adapter.  One histogram stands for the four.   *)
(***************************************************************************)
EXTENDS Integers, FiniteSets, FiniteSetsExt

CONSTANTS
  Files,       \* the number of processes that count
  Traffics,    \* traffic keys
  ClassOf,     \* the class of each traffic key
  Receivers,   \* receivers of a broadcast slot
  Bins,        \* bins of a histogram, 1..n
  Deadline,    \* the bin whose upper end is the deadline
  Threshold,   \* attempted_threshold in percent
  Rank,        \* the percentile that is judged
  Limit,       \* the bin whose upper end is the limit
  MaxEvents,   \* bound: slots and deliveries
  MaxApart     \* bound: disconnects and refusals outside the window

Classes == {"loss_tolerant", "must_deliver"}

ASSUME MetricsAssumption ==
  /\ Files \in Nat /\ IsFiniteSet(Traffics) /\ ClassOf \in [Traffics -> Classes]
  /\ {Receivers, MaxEvents, MaxApart} \subseteq Nat
  /\ IsFiniteSet(Bins) /\ Bins = 1..Cardinality(Bins)
  /\ Threshold \in 0..100 /\ Rank \in 1..100 /\ {Limit, Deadline} \subseteq Bins

Fields == {"slots", "broadcast", "submitted", "delivered", "hit"}

(* The counts and the histogram of a class or of a traffic key             *)
Zero == [n |-> [f \in Fields |-> 0], bins |-> [b \in Bins |-> 0], count |-> 0]
EmptyFile ==
  [class |-> [c \in Classes |-> Zero], traffic |-> [k \in Traffics |-> Zero],
   layout |-> "log2x16", skewed |-> 0]

VARIABLES
  file,     \* what each process has counted
  merged,   \* the sum of the files
  spoilt,   \* the number that is off: "none", "layout" or a place
  disconnects, \* peer_disconnects of each process, which has one connection
  refusals, \* send_refused of each process
  early,    \* history: refusals outside the window
  late,     \* history: slots their process came too late for
  verdict,  \* "counting", "refused" or "merged"
  blamed    \* for a shortfall of attempts: "nobody", "SUT" or "farm"

metricsVars == <<file, merged, spoilt, disconnects, refusals, early, late, verdict, blamed>>

Processes == 1..Files

MetricsInit ==
  /\ file = [f \in Processes |-> EmptyFile] /\ merged = EmptyFile
  /\ spoilt = "none" /\ verdict = "counting" /\ blamed = "nobody"
  /\ disconnects = [f \in Processes |-> 0] /\ refusals = [f \in Processes |-> 0]
  /\ early = 0 /\ late = 0

-----------------------------------------------------------------------------
(* The processes                                                           *)

Entry(f, k) == file[f].traffic[k]
Sum(field, k) == SumFunction([f \in Processes |-> Entry(f, k).n[field]])
Events == SumFunction([k \in Traffics |-> Sum("slots", k) + Sum("delivered", k)])

(* Counts by traffic key and by class, as bk_metrics does                  *)
Bump(entry, delta, bins) ==
  [n |-> [x \in Fields |-> entry.n[x] + (IF x \in delta THEN 1 ELSE 0)],
   bins |-> [b \in Bins |-> entry.bins[b] + (IF b \in bins THEN 1 ELSE 0)],
   count |-> entry.count + Cardinality(bins)]

Counted(f, k, delta, bins) ==
  [file EXCEPT ![f].traffic[k] = Bump(@, delta, bins),
               ![f].class[ClassOf[k]] = Bump(@, delta, bins)]

(* totalPeerDisconnects and totalSendRefused, from what each process says  *)
(* when it is done                                                         *)
TotalPeerDisconnects == SumFunction(disconnects)
TotalSendRefused == SumFunction(refusals)

(* A slot of the window falls due: it is submitted, the library refuses    *)
(* it, the process comes too late, or its connection is gone.              *)
CountSlot(f, k) ==
  /\ verdict = "counting" /\ Events < MaxEvents
  /\ \/ /\ disconnects[f] = 0
        /\ \E cast \in {{}, {"broadcast"}} :
             file' = Counted(f, k, {"slots", "submitted"} \union cast, {})
        /\ UNCHANGED <<refusals, late>>
     \/ /\ file' = Counted(f, k, {"slots"}, {})
        /\ \/ disconnects[f] = 0 /\ refusals' = [refusals EXCEPT ![f] = @ + 1] /\ UNCHANGED late
           \/ disconnects[f] = 0 /\ late' = late + 1 /\ UNCHANGED refusals
           \/ disconnects[f] > 0 /\ UNCHANGED <<refusals, late>>
  /\ UNCHANGED <<merged, spoilt, disconnects, early, verdict, blamed>>

(* The peer goes away; or the library refuses a send of the warm-up, which *)
(* send_or_count counts like any other.                                    *)
CountApart(f) ==
  /\ verdict = "counting" /\ TotalPeerDisconnects + early < MaxApart
  /\ disconnects[f] = 0
  /\ \/ /\ disconnects' = [disconnects EXCEPT ![f] = 1] /\ UNCHANGED <<refusals, early>>
     \/ /\ refusals' = [refusals EXCEPT ![f] = @ + 1] /\ early' = early + 1
        /\ UNCHANGED disconnects
  /\ UNCHANGED <<file, merged, spoilt, late, verdict, blamed>>

(* expectedReceives                                                        *)
Expected(slots, broadcast) == (slots - broadcast) + broadcast * Receivers

(* A message arrives, at any process, as often as its slots allow: in time *)
(* or not, which only must-deliver traffic is asked, and with times in     *)
(* their order or not.                                                     *)
CountDelivery(f, k) ==
  /\ verdict = "counting" /\ Events < MaxEvents
  /\ Sum("delivered", k) < Expected(Sum("slots", k), Sum("broadcast", k))
  /\ \E b \in Bins, violation \in 0..1 :
       LET hit == IF ClassOf[k] = "must_deliver" /\ b <= Deadline THEN {"hit"} ELSE {}
       IN file' = [Counted(f, k, {"delivered"} \union hit, {b}) EXCEPT ![f].skewed = @ + violation]
  /\ UNCHANGED <<merged, spoilt, disconnects, refusals, early, late, verdict, blamed>>

(* The files as they are written: as counted, or in one of them one count  *)
(* of a class or of a traffic key, a bin or a class's number of staleness  *)
(* samples is off by one, or the layout is another.  (The violations of    *)
(* the order of times have no second account; a count of them that is one  *)
(* too high may pass, and EvaluateGate refuses the run for any above zero.) *)
ClassOff(f) ==
  {<<x, [file EXCEPT ![f].class[c].n[x] = @ + 1]>> : c \in Classes, x \in Fields}
TrafficOff(f) ==
  {<<x, [file EXCEPT ![f].traffic[k].n[x] = @ + 1]>> : k \in Traffics, x \in Fields}
BinsOff(f) ==
  {<<"bins", [file EXCEPT ![f].traffic[k].bins[b] = @ + 1]>> : k \in Traffics, b \in Bins}
Off(f) ==
  ClassOff(f) \union TrafficOff(f) \union BinsOff(f)
  \union {<<"count", [file EXCEPT ![f].class[c].count = @ + 1]>> : c \in Classes}
  \union {<<"layout", [file EXCEPT ![f].layout = "other"]>>}

Written == {<<"none", file>>} \union UNION {Off(f) : f \in Processes}

-----------------------------------------------------------------------------
(* Checking and merging                                                    *)

(* addClassCounts and addHistogram                                         *)
Plus(a, b) ==
  [n |-> [x \in Fields |-> a.n[x] + b.n[x]],
   bins |-> [i \in Bins |-> a.bins[i] + b.bins[i]], count |-> a.count + b.count]

OfClass(c) == {k \in Traffics : ClassOf[k] = c}

(* validateClassCounts and validateV2Histogram                             *)
SeriesOK(s) ==
  /\ s.n["broadcast"] <= s.n["slots"] /\ s.n["submitted"] <= s.n["slots"]
  /\ s.n["hit"] <= s.n["delivered"]
  /\ s.count = SumFunction(s.bins)

(* What the traffic of a class adds up to                                  *)
Parts(m, c) ==
  [n |-> [x \in Fields |-> SumFunction([k \in OfClass(c) |-> m.traffic[k].n[x]])],
   bins |-> [b \in Bins |-> SumFunction([k \in OfClass(c) |-> m.traffic[k].bins[b]])],
   count |-> SumFunction([k \in OfClass(c) |-> m.traffic[k].count])]

(* firstClassCountMismatch                                                 *)
Mismatches(got, want) == {x \in Fields : got.n[x] # want.n[x]}

(* Fault: the histograms are compared by their counts alone.               *)
FaultAggregatesAgree(m) ==
  \A c \in Classes : LET want == Parts(m, c) IN
    Mismatches(m.class[c], want) \subseteq {"hit"} /\ m.class[c].count = want.count

(* validateV2AggregateConsistency: every class is the sum of its traffic,  *)
(* field by field and bin by bin.                                          *)
AggregatesAgree(m) ==
  \A c \in Classes : LET want == Parts(m, c) IN
    /\ Mismatches(m.class[c], want) = {}
    /\ m.class[c].bins = want.bins /\ m.class[c].count = want.count

(* A file without traffic is refused.                                      *)
HasTraffic(m) == \E k \in Traffics : m.traffic[k] # Zero

InClasses(m, field) == SumFunction([c \in Classes |-> m.class[c].n[field]])

(* validateMetricsFile                                                     *)
FileOK(m) ==
  /\ m.layout = "log2x16" /\ HasTraffic(m)
  /\ \A c \in Classes : SeriesOK(m.class[c])
  /\ \A k \in Traffics : SeriesOK(m.traffic[k])
  /\ AggregatesAgree(m) /\ m.skewed <= InClasses(m, "delivered")

(* MergedMetrics.add                                                       *)
Add(f, m) ==
  [class |-> [c \in Classes |-> Plus(f.class[c], m.class[c])],
   traffic |-> [k \in Traffics |-> Plus(f.traffic[k], m.traffic[k])],
   layout |-> m.layout, skewed |-> f.skewed + m.skewed]

(* ValidateMergedMetricsConsistency                                        *)
MergedConsistent(m) == AggregatesAgree(m) /\ m.skewed = 0

-----------------------------------------------------------------------------
(* Judging                                                                 *)

(* ratioOrOne, compared with the threshold                                 *)
Reaches(attempted, slots) == slots = 0 \/ attempted * 100 >= slots * Threshold

(* Fault: whoever refused anything is blamed.                              *)
FaultBlame(attempted, slots) ==
  IF Reaches(attempted, slots) THEN "nobody"
  ELSE IF TotalPeerDisconnects > 0 \/ TotalSendRefused > 0 THEN "SUT" ELSE "farm"

(* EvaluateGate: a shortfall is the SUT's when it dropped connections, or  *)
(* when what it refused makes up for it.                                   *)
Blame(attempted, slots) ==
  IF Reaches(attempted, slots) THEN "nobody"
  ELSE IF \/ TotalPeerDisconnects > 0
          \/ TotalSendRefused > 0 /\ Reaches(attempted + TotalSendRefused, slots)
       THEN "SUT" ELSE "farm"

(* finalize: no class and no traffic key was delivered more often than it  *)
(* could be.                                                               *)
Finalizes(m) ==
  LET Possible(n) == n["broadcast"] <= n["slots"]
                     /\ n["delivered"] <= Expected(n["slots"], n["broadcast"])
  IN /\ \A c \in Classes : Possible(m.class[c].n)
     /\ \A k \in Traffics : Possible(m.traffic[k].n)

(* MergeMetricsData reads the files, checks each, adds them up and         *)
(* finalizes the sum, which the gate then judges.                          *)
MergeFiles ==
  /\ verdict = "counting"
  /\ \E w \in Written :
       LET sum == FoldFunction(Add, EmptyFile, w[2])
       IN /\ spoilt' = w[1]
          /\ IF (\A f \in Processes : FileOK(w[2][f])) /\ Finalizes(sum)
             THEN /\ merged' = sum /\ verdict' = "merged"
                  /\ blamed' = Blame(InClasses(sum, "submitted"), InClasses(sum, "slots"))
             ELSE verdict' = "refused" /\ UNCHANGED <<merged, blamed>>
  /\ UNCHANGED <<file, disconnects, refusals, early, late>>

Below(s, b) == SumFunction([i \in 1..b |-> s.bins[i]])

(* Fault: the rank is rounded down.                                        *)
FaultPercentile(s) ==
  LET rank == (s.count * Rank) \div 100
  IN Min({b \in Bins : Below(s, b) >= (IF rank = 0 THEN 1 ELSE rank)})

(* histogramPercentile: the bin in which the rank lies, rounded up, and at *)
(* least the first.                                                        *)
Percentile(s) ==
  LET rank == (s.count * Rank + 99) \div 100
  IN Min({b \in Bins : Below(s, b) >= (IF rank = 0 THEN 1 ELSE rank)})

WithinLimit(k) == merged.traffic[k].count > 0 /\ Percentile(merged.traffic[k]) <= Limit

MetricsNext ==
  \/ \E f \in Processes, k \in Traffics : CountSlot(f, k) \/ CountDelivery(f, k)
  \/ \E f \in Processes : CountApart(f)
  \/ MergeFiles

MetricsSpec == MetricsInit /\ [][MetricsNext]_metricsVars

-----------------------------------------------------------------------------
(* What is merged is what was counted: a file with one count, bin or       *)
(* number of samples off (Off) does not get through, and files in order    *)
(* are never refused - however slots and deliveries are spread over the    *)
(* processes.                                                              *)
MergeIsExact ==
  /\ verdict = "merged" =>
       /\ spoilt = "none" /\ AggregatesAgree(merged)
       /\ MergedConsistent(merged) = (\A f \in Processes : file[f].skewed = 0)
  /\ (verdict = "refused" /\ \A f \in Processes : HasTraffic(file[f])) => spoilt # "none"

(* A shortfall is held against the farm only when a process of it was      *)
(* late, and against the SUT only when it dropped or refused something;    *)
(* and without a disconnect, and when it refused nothing but sends of the  *)
(* window, only when the slots that were late would not be a shortfall by  *)
(* themselves.                                                             *)
ShortfallIsAttributed ==
  verdict = "merged" =>
    /\ blamed = "SUT" => TotalSendRefused + TotalPeerDisconnects > 0
    /\ blamed = "farm" => late > 0
    /\ (blamed = "SUT" /\ TotalPeerDisconnects = 0 /\ early = 0) =>
         Reaches(InClasses(merged, "slots") - late, InClasses(merged, "slots"))

(* A percentile within the limit means what it says of the deliveries of   *)
(* all processes together: no more than the rest of them was later.        *)
WithinLimitIsTrue ==
  verdict = "merged" =>
    \A k \in Traffics : WithinLimit(k) =>
      LET s == merged.traffic[k]
      IN (s.count - Below(s, Limit)) * 100 <= s.count * (100 - Rank)
=============================================================================
