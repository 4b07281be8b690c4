SPECIFICATION Spec
INVARIANTS NeverSplit ReadySurvives RefusedKept
