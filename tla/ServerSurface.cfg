SPECIFICATION Spec
CONSTANTS
  Nothing = Nothing
  usd = usd
  cad = cad
  Currencies = {usd, cad}
  MaxSafe = 3
  UrlParts <- Spellings
  RawEnvironments <- SomeEnvironments
  HttpRequests <- SomeRequests
  Tools = {"capture_order", "create_webhook", "release_authorization", "update_order_reference"}
  Supplied <- SomeEvidence
  MaxPreviews = 2
INVARIANTS
  ExecutedAsConfigured
  ExecutionsPreparable
  LoaderAndDoctorAgree
CHECK_DEADLOCK FALSE
