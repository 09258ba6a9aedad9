\* Three nodes in every acyclic structure, two rows in one batch or two,
\* with and without a prior.
SPECIFICATION SamplingSpec
CONSTANTS
  N = 3
  Values = {v1, v2}
  MaxBatch = 2
  MaxRows = 2
  Priors = {TRUE, FALSE}
  MaxDraws = 2
  Scale = 12
SYMMETRY ValueSymmetry
INVARIANTS LearnedFromAllRows EliminationExact SamplersAgree GibbsConditional SamplingTotal
PROPERTIES ImputesLikeliest
