CONSTANT MaxLaunches = 2
SPECIFICATION Spec
INVARIANT PriorIsOriginal
