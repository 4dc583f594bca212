CONSTANTS
  p1 = p1
  c1 = c1
  c2 = c2
  Producer = {p1}
  Consumer = {c1, c2}
  Size = 3
  MaxItems = 9
SPECIFICATION Spec
INVARIANTS TypeOK
PROPERTIES TakenInOrder IsBoundedQueue ConsumersGoOn ProducersGoOn DisableEndsAll
