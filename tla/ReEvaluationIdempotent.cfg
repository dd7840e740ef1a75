SPECIFICATION Spec
INVARIANT ReEvaluateIsIdempotent
