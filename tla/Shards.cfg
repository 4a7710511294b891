CONSTANTS
  masac = masac
  mappo = mappo
  iql = iql
  Job = {masac, mappo, iql}
  Masac = {masac}
  Concurrency = 2
  MaxRuns = 2
SYMMETRY Alike
SPECIFICATION Spec
INVARIANT NothingLeftRunning
PROPERTY ManifestIsTrue
