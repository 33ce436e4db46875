SPECIFICATION Spec
CONSTANTS
  LeadWindow = 40
  Extension = 30
  MinLead = 0
  MaxFutureDays = 30
  InitialOffset = 30
  Target = "target"
  CardsPerScreen = 2
  MaxListSwipes = 2
  SameScreenLimit = 2
  ResetsList = TRUE
  MaxAttempts = 1
  MaxElapsed = 0
  Pauses = {25}
  Products <- MCProducts
  Lookalikes <- MCLookalikes
  StartTime <- MCStartTime
  Jobs <- StopJobs
  Showcases <- PublicationShowcases
  Shops <- PublicationShops
  Galleries <- PublicationGalleries
INVARIANT StopMeansNoPost
