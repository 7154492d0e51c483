SPECIFICATION Spec
CONSTANTS
  t1 = t1
  t2 = t2
  u1 = u1
  u2 = u2
  Thread <- MCThread
  HomeOf <- MCHomeOf
  NumNodes = 2
  Kinds = {"event", "sparsity"}
  Owners = {0}
  LeafSize = 2
  MaxIds = 3
  Null = Null
SYMMETRY MCSymmetry
INVARIANT TablesInv
INVARIANT LookupsAgree
