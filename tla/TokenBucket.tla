----------------------------- MODULE TokenBucket -----------------------------
(***************************************************************************)
(* The start allowance of an account pool (settle and admit of             *)
(* internal/store/research_permit.go, which evaluation pools share):       *)
(* allowance refills with time up to a burst, and a start takes StartCost  *)
(* of it.  Allowance is counted in the units one tick refills at rate one. *)
(***************************************************************************)
EXTENDS Naturals

CONSTANT StartCost

ASSUME StartCostAssumption == StartCost \in Nat \ {0}

Later(x, y) == IF x > y THEN x ELSE y
Lesser(x, y) == IF x < y THEN x ELSE y

\* settle: refill up to the burst for time past the mark; a clock that was set back
\* credits nothing and the bucket goes on at its mark.
Refilled(tokens, burst, rate, mark, time) ==
  IF time > mark
  THEN Lesser(burst * StartCost, tokens + rate * (time - mark))
  ELSE tokens

\* The time at which a bucket that is short at its mark holds a start again.
ShortUntil(tokens, rate, mark) == mark + (StartCost - tokens + rate - 1) \div rate
=============================================================================
