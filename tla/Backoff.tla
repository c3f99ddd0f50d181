------------------------------- MODULE Backoff -------------------------------
(***************************************************************************)
(* computeBackoff (internal/controller/integration_controller.go): the     *)
(* delay before the next probe of an Integration.  Attempts are int32 and  *)
(* durations int64 in the code; both are signed words whose width is a     *)
(* parameter, so that wrapping is within reach of TLC.  The unit is the    *)
(* second.                                                                 *)
(***************************************************************************)
EXTENDS Integers

CONSTANTS
    Nil,            \* an optional field that is not set
    CounterWidth,   \* bits of the retry counter (32)
    DurationWidth,  \* bits of a duration (64)
    ShiftCap        \* the largest shift (16)

ASSUME WidthAssumption ==
    /\ CounterWidth \in Nat \ {0} /\ DurationWidth \in Nat \ {0}
    /\ ShiftCap \in Nat

defaultInitialBackoff == 5
defaultMaxBackoff     == 300
defaultMaxRetries     == 5

\* n as a signed word of w bits.
Signed(n, w) == ((n + 2^(w - 1)) % 2^w) - 2^(w - 1)

Word(w) == {Signed(n, w) : n \in 0..(2^w - 1)}

\* intg.Status.Retries++
Incremented(n) == Signed(n + 1, CounterWidth)

MaxRetries(policy) == IF policy = Nil THEN defaultMaxRetries ELSE policy.maxRetries

InitialDelay(policy) ==
    IF policy = Nil \/ policy.initialDelay = Nil THEN defaultInitialBackoff
                                                 ELSE policy.initialDelay

MaxDelay(policy) ==
    IF policy = Nil \/ policy.maxDelay = Nil THEN defaultMaxBackoff
                                             ELSE policy.maxDelay

Fixed(policy) == policy # Nil /\ policy.backoff = "fixed"

\* attempt - 1, itself an int32 that wraps, capped.
Shift(attempt) ==
    LET shift == Signed(attempt - 1, CounterWidth)
    IN  IF shift > ShiftCap THEN ShiftCap ELSE shift

\* int64(1) << uint(shift): a negative shift becomes a huge unsigned one, and
\* every bit is shifted out.
ShiftedOne(shift) == IF shift < 0 THEN 0 ELSE 2^shift

\* Mutant: the guard against a product that is zero or wrapped is gone.
TrustsProduct(policy, attempt) ==
    LET d == Signed(InitialDelay(policy) * ShiftedOne(Shift(attempt)), DurationWidth)
    IN  IF Fixed(policy) THEN InitialDelay(policy)
        ELSE IF d > MaxDelay(policy) THEN MaxDelay(policy) ELSE d

ComputeBackoff(policy, attempt) ==
    LET d == Signed(InitialDelay(policy) * ShiftedOne(Shift(attempt)), DurationWidth)
    IN  IF Fixed(policy) THEN InitialDelay(policy)
        ELSE IF d <= 0 \/ d > MaxDelay(policy) THEN MaxDelay(policy)
        ELSE d
==============================================================================
