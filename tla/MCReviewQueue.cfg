SPECIFICATION FairSpec
CONSTANTS
  Workers = {"gpu0", "gpu1"}
  ItemCount = 2
  MaxClaims <- BatchAndSingle
  MaxAttempts = 2
  Nobody = Nobody
INVARIANTS OneLease BatchGivenUp
PROPERTIES ItemsGoRound PromiseKept
