SPECIFICATION Spec
CONSTANT TotalVFs = 2
INVARIANT OverrideReleased
