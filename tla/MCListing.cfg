SPECIFICATION ListingSpec
CONSTANTS
  MaxStamps = 5
  Sizes = {1, 2}
  Filters = {"", "pending_partner", "accepted"}
  None = None
INVARIANTS
  MissedOnlyByMoves
  RepeatsAreExplained
