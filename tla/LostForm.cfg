SPECIFICATION PagesSpec
CONSTANT Nowhere = Nowhere
INVARIANT TurnReachesTarget
