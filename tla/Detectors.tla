------------------------------- MODULE Detectors -------------------------------
(***************************************************************************)
(* The statistical tests of drift/detectors.py that the adapters use.  A   *)
(* sample is a function from the values of a signal to how often each was  *)
(* observed; the fractions of the code are compared crosswise.  A test is  *)
(* said to be significant when its statistic passes a critical value, the  *)
(* large-sample form of p < alpha in scipy.                                *)
(***************************************************************************)
EXTENDS Integers, FiniteSets, FiniteSetsExt, Functions

CONSTANTS
    Values,      \* what a score or a latency may be, an interval of Nat
    MinSample,   \* MIN_SAMPLE_SIZE
    KsCritical,  \* KsCritical[n]: critical value, in hundredths, of n KS tests in a family
    DefaultCritical, \* critical value of ks_test's default alpha
    ZCritical    \* and of the square of z

ASSUME DetectorsAssumption ==
    /\ Values \subseteq Nat /\ IsFiniteSet(Values) /\ Values # {} /\ MinSample \in Nat \ {0, 1}
    /\ ZCritical \in Nat /\ DefaultCritical \in Nat
    /\ \A n \in DOMAIN KsCritical : KsCritical[n] \in Nat

Size(s) == SumFunction(s)

AtMost(s, x) == SumFunctionOnSet(s, {v \in Values : v <= x})

Ordered(s, k) == Min({x \in Values : AtMost(s, x) >= k})

Distance(m, n) == IF m < n THEN n - m ELSE m - n

(* The gap between the distribution functions at x, times both sizes.      *)
Gap(b, c, x) == Distance(AtMost(b, x) * Size(c), AtMost(c, x) * Size(b))

Enough(n, m) == n >= MinSample /\ m >= MinSample

KsSignificant(b, c, critical) ==
    LET statistic == Max({Gap(b, c, x) : x \in Values})
    IN  100 * statistic * statistic > critical * Size(b) * Size(c) * (Size(b) + Size(c))

KsTest(b, c, critical) == Enough(Size(b), Size(c)) /\ KsSignificant(b, c, critical)

(* Quartile q of a sample, times 4, interpolated between its neighbours.   *)
Quartile(s, q) ==
    LET place == (Size(s) - 1) * q
        low == Ordered(s, place \div 4 + 1)
        high == Ordered(s, Min({place \div 4 + 2, Size(s)}))
    IN  4 * low + (place % 4) * (high - low)

(* The distance exceeds a fifth of the spread of the baseline.             *)
WassersteinDistance(b, c) ==
    /\ Enough(Size(b), Size(c))
    /\ 20 * SumFunction([x \in Values |-> Gap(b, c, x)])
          > (Quartile(b, 3) - Quartile(b, 1)) * Size(b) * Size(c)

TwoProportionZTest(bs, bn, cs, cn) ==
    LET skew == Distance(bs * cn, cs * bn)
        hits == bs + cs
        all  == bn + cn
    IN  /\ Enough(bn, cn)
        /\ hits \notin {0, all}
        /\ 100 * skew * skew * all > ZCritical * hits * (all - hits) * bn * cn

Width(vector) == vector[1]

(* Vectors of several widths cannot be compared.  The permutations are     *)
(* drawn at random: they may find a shift between samples that differ.     *)
EmbeddingDrift(b, c, found) ==
    /\ Enough(Size(b), Size(c))
    /\ Cardinality({Width(v) : v \in {u \in DOMAIN b : b[u] + c[u] > 0}}) = 1
    /\ \E v \in DOMAIN b : b[v] * Size(c) # c[v] * Size(b)
    /\ found
=============================================================================
