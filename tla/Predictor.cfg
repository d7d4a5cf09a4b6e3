SPECIFICATION PredictorSpec
CONSTANTS
  UMax = 1048575
  Models = {1, 2}
  Details = {0, 1, 2}
  NoProfile = NoProfile
  Profiles <- MCProfiles
  Requests <- MCRequests
  Observations <- MCObservations
  Earned <- MCEarned
  kMaxProfiles = 2
  kMaxSamplesPerKey = 2
  MaxGeneration = 4
INVARIANTS TableBounded StampsIdentify LearnedWithinBounds
PROPERTY BindingStable
