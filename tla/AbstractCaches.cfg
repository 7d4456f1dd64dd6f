SPECIFICATION Spec
CONSTANTS
  Path = {p1, p2}
  Address = {0, 3, 4}
  nb_sets = 1
  nb_ways = 2
  cacheline_size = 2
SYMMETRY PathSymmetry
INVARIANTS SetsWellFormed MustSound MaySound
           ConflictsCovered PersistenceSound
