\* create_queue(3, ...): the shape does not depend on the capacity
CONSTANTS
  Capacity = 3
  Items = {a, b}
  NoItem = NoItem
  Garbage = Garbage
SPECIFICATION Spec
INVARIANTS
  LentItemIntact
PROPERTIES
  IsDropOldestQueue
