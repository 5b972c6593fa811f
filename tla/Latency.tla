-------------------------------- MODULE Latency --------------------------------
(***************************************************************************)
(* The latency tool: runLatency and verdict of main.go, one probe after    *)
(* the other, and the result in whole milliseconds that runLatencyAPI      *)
(* (main_appliance.go) makes of it.  Time is counted in ticks, Ms of them  *)
(* to a millisecond.  The samples are a bag: how many probes took how      *)
(* long; what the code reads from the sorted slice is read from the bag.   *)
(***************************************************************************)
EXTENDS Integers, FiniteSets, FiniteSetsExt

CONSTANTS
  Ms,        \* ticks per millisecond
  Durations, \* how long a probe that succeeds may take
  FailTimes, \* how long a probe that fails (error, or status >= 500) may take
  NoRun      \* no run in progress

ASSUME LatencyAssumption ==
  /\ Ms \in Nat \ {0}
  /\ Durations \subseteq Nat /\ Durations # {} /\ IsFiniteSet(Durations)
  /\ FailTimes \subseteq Nat

VARIABLE run  \* the run in progress: its parameters, and what it has measured

\* A count or an interval that is not positive stands for the default.
Params(count, interval) ==
  [total |-> IF count <= 0 THEN 50 ELSE count,
   interval |-> IF interval <= 0 THEN 200 ELSE interval]

Begin(p) ==
  run' = [total |-> p.total, interval |-> Ms * p.interval,
          sent |-> 0, samples |-> [d \in Durations |-> 0], elapsed |-> 0]

\* One GET, and the pause before the next.
Probe ==
  /\ run # NoRun
  /\ run.sent < run.total
  /\ LET pause == IF run.sent < run.total - 1 THEN run.interval ELSE 0
     IN  \/ \E d \in Durations :
              run' = [run EXCEPT !.sent = @ + 1, !.samples[d] = @ + 1,
                                 !.elapsed = @ + d + pause]
         \/ \E f \in FailTimes :
              run' = [run EXCEPT !.sent = @ + 1, !.elapsed = @ + f + pause]

Complete == run # NoRun /\ run.sent = run.total

\* What a run is made of.
Samples == [Durations -> Nat]
Runs == [total : Nat, interval : Nat, sent : Nat, samples : Samples, elapsed : Nat]

-----------------------------------------------------------------------------
(* The result                                                              *)

AtMost(s, x) == SumFunctionOnSet(s, {d \in Durations : d <= x})
Success(s) == SumFunctionOnSet(s, Durations)

\* Mutation of Sorted: an index off by one.
SortedNext(s, k) == Min({d \in Durations : AtMost(s, d) >= k})

\* samples[k] once the slice is sorted.
Sorted(s, k) == Min({d \in Durations : AtMost(s, d) > k})

Percentile(s, q) ==
  LET n == Success(s) IN Sorted(s, Min({n - 1, (n * q) \div 100}))

Average(s) == SumFunctionOnSet([d \in Durations |-> d * s[d]], Durations) \div Success(s)

\* The standard deviation, as an integer.
Jitter(s) ==
  LET avg == Average(s)
      squares == SumFunctionOnSet([d \in Durations |-> s[d] * (d - avg) * (d - avg)],
                                  Durations)
  IN  CHOOSE j \in 0 .. Max(Durations) :
        j * j * Success(s) <= squares /\ squares < (j + 1) * (j + 1) * Success(s)

\* Mutation of Verdict: the share of failures is taken of the successes.
VerdictOfSuccesses(r) ==
  LET failed == r.total - r.success
  IN  CASE r.success = 0 -> "TOTAL FAILURE"
        [] r.success # 0 /\ 2 * failed > r.success -> "MOSTLY FAILING"
        [] 2 * failed <= r.success /\ 10 * failed > r.success -> "DEGRADED"
        [] 10 * failed <= r.success /\ r.p95 > 1000 * Ms -> "SLOW"
        [] 10 * failed <= r.success /\ r.p95 \in 250 * Ms + 1 .. 1000 * Ms -> "OK"
        [] OTHER -> "GOOD"

Verdict(r) ==
  LET failed == r.total - r.success
  IN  CASE r.success = 0 -> "TOTAL FAILURE"
        [] r.success # 0 /\ 2 * failed > r.total -> "MOSTLY FAILING"
        [] 2 * failed <= r.total /\ 10 * failed > r.total -> "DEGRADED"
        [] 10 * failed <= r.total /\ r.p95 > 1000 * Ms -> "SLOW"
        [] 10 * failed <= r.total /\ r.p95 \in 250 * Ms + 1 .. 1000 * Ms -> "OK"
        [] OTHER -> "GOOD"

Result(r) ==
  LET s == r.samples
      n == Success(s)
      measured == [total |-> r.total, success |-> n,
                   min |-> Sorted(s, 0), avg |-> Average(s), p50 |-> Percentile(s, 50),
                   p95 |-> Percentile(s, 95), p99 |-> Percentile(s, 99),
                   max |-> Sorted(s, n - 1), jitter |-> Jitter(s)]
  IN  IF n = 0
      THEN [total |-> r.total, success |-> 0, min |-> 0, avg |-> 0, p50 |-> 0,
            p95 |-> 0, p99 |-> 0, max |-> 0, jitter |-> 0, verdict |-> "TOTAL FAILURE"]
      ELSE [f \in DOMAIN measured \cup {"verdict"} |->
              IF f = "verdict" THEN Verdict(measured)
              ELSE IF f \in {"total", "success"} THEN measured[f]
              ELSE measured[f] \div Ms]

-----------------------------------------------------------------------------
(* Properties                                                              *)

\* What "p95_ms" and the others say of the samples of a complete run, to the
\* millisecond: at most q % of them took less, and at least q % no longer; they
\* are ordered, and the average and the jitter fit between the extremes.
PercentilesRight ==
  Complete /\ Success(run.samples) > 0 =>
    LET s == run.samples
        n == Success(s)
        r == Result(run)
        Right(p, q) == /\ 100 * AtMost(s, p * Ms - 1) <= q * n
                       /\ 100 * AtMost(s, p * Ms + Ms - 1) >= q * n
    IN  /\ Right(r.p50, 50) /\ Right(r.p95, 95) /\ Right(r.p99, 99)
        /\ r.min <= r.p50 /\ r.p50 <= r.p95 /\ r.p95 <= r.p99 /\ r.p99 <= r.max
        /\ r.min <= r.avg /\ r.avg <= r.max
        /\ r.jitter <= r.max - r.min + 1

\* The verdict is true of the probes of a complete run, however few they are:
\* good news only if 90 % of them succeeded and 95 % of those were fast enough,
\* and bad news only for a reason.
VerdictTrue ==
  Complete =>
    LET v == Result(run).verdict
        n == Success(run.samples)
        Fast(ms) == 100 * AtMost(run.samples, ms * Ms) > 95 * n
    IN  /\ v \in {"SLOW", "OK", "GOOD"} <=> n > 0 /\ 10 * n >= 9 * run.total
        /\ v = "GOOD" <=> n > 0 /\ 10 * n >= 9 * run.total /\ Fast(250)
        /\ v = "SLOW" => ~Fast(1000)
        /\ v = "OK" => Fast(1000) /\ ~Fast(250)
        /\ v = "MOSTLY FAILING" <=> n > 0 /\ 2 * n < run.total
        /\ v = "TOTAL FAILURE" <=> n = 0
=============================================================================
