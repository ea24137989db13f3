----------------------------- MODULE Durations -----------------------------
(***************************************************************************)
(* time.Duration: nanoseconds in a signed 64-bit integer, in the model's   *)
(* unit of time.  Products and negations wrap; the difference of two times *)
(* saturates.                                                              *)
(***************************************************************************)
EXTENDS Integers

CONSTANT MaxDuration   \* the largest time.Duration; the smallest is -MaxDuration-1

ASSUME DurationAssumption == MaxDuration \in Nat

Durations == (-MaxDuration - 1)..MaxDuration

\* What the product n is in two's complement.
Wrapped(n) == LET half == MaxDuration + 1
              IN  ((n + half) % (2 * half)) - half

\* time.Time.Sub of two times that are d apart.
Saturated(d) == IF d > MaxDuration THEN MaxDuration
                ELSE IF d < -MaxDuration - 1 THEN -MaxDuration - 1 ELSE d

\* The smallest duration is its own negation.
Negated(d) == IF d = -MaxDuration - 1 THEN d ELSE -d
=============================================================================
