SPECIFICATION Spec
CONSTANTS
  Bundled = {b1}
  External = {e1}
  Nobody = Nobody
  MaxVersion = 2
INVARIANTS
  SyncSeesDamage
  PromisesKept
