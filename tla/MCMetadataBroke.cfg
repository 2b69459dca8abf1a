SPECIFICATION Spec
CONSTANTS
  Card = {1}
  FirstCards = {1}
  PageSize = 1
  MetaBatch = 1
  RefKinds <- NoList
  RefPages = 1
  MaxPages = 2
  DailyBudget = 1
  DiscoveryCadence = 2
  NewAssetsCadence = 1
  MetadataCadence = 2
  ReferenceCadence = 1
PROPERTIES
  MetadataDoneIsDone
