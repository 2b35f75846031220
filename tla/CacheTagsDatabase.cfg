\* The bin is a table of the database, as by default.
SPECIFICATION Spec
CONSTANTS
  r1 = r1
  r2 = r2
  node = node
  list = list
  page = page
  block = block
  Requests = {r1, r2}
  Tags = {node, list}
  Cids = {page}
  TagsOf <- OnePage
  TransactionalBin = TRUE
  NoItem = NoItem
  MaxWrites = 2
SYMMETRY RequestSymmetry
INVARIANTS TypeOK MarkedMeansFresh EveryChangeMarked
PROPERTY OwnWritesSeen
