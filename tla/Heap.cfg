\* Eight nodes: four levels, and a last row that is not full.
SPECIFICATION Spec
CONSTANT N = 8
INVARIANTS TypeOK HeapShape
PROPERTY ImplementsPriorityQueue
