CONSTANTS
 Gate = {g1, g2, g3, g4}
 Link = {l1, l2, l3, l4, l5}
 Rank = {0, 1, 2, 3}
SYMMETRY Addresses
SPECIFICATION Spec
INVARIANTS NoDangling OutputsAgree DestroyedOnce NoLeak
