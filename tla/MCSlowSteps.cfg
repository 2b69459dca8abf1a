SPECIFICATION FairSpec
CONSTANTS
  Card = {1, 2}
  FirstCards = {2}
  PageSize = 1
  MetaBatch = 1
  RefKinds <- OneList
  RefPages = 2
  MaxPages = 2
  DailyBudget = 3
  DiscoveryCadence = 2
  NewAssetsCadence = 1
  MetadataCadence = 1
  ReferenceCadence = 1
INVARIANTS
  TypeOK
  OkMeansWalked
PROPERTIES
  WalkDoneIsWhole
  MetadataDoneUnlessBroke
  ReferenceDoneIsWhole
  EveryCardKnown
  AttributesRefreshed
