SPECIFICATION Spec
CONSTANTS
  LeadWindow = 40
  Extension = 30
  MinLead = 0
  MaxFutureDays = 30
  InitialOffset = 30
  Target = "target"
  CardsPerScreen = 2
  MaxListSwipes = 2
  SameScreenLimit = 2
  ResetsList = TRUE
  MaxAttempts = 2
  MaxElapsed = 25
  Pauses = {25}
  Products <- MCProducts
  Lookalikes <- MCLookalikes
  StartTime <- MCStartTime
  Jobs <- PublicationJobs
  Showcases <- PublicationShowcases
  Shops <- PublicationShops
  Galleries <- PublicationGalleries
INVARIANTS TypeOK PostCarriesTargetProduct PostShowsTaskVideo PostHasCaption PostedOnlyWithPermission PostNearRequestedTime DebugReadyDraftIsComplete OnePostPerAttempt
PROPERTIES AttemptIsJudged
