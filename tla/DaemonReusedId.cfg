\* One open finding page, two decisions: is the one reported recorded?
SPECIFICATION Spec
CONSTANTS
  ann = ann
  bob = bob
  f1 = f1
  s1 = s1
  batch = batch
  h1 = h1
  h2 = h2
  Reported = {f1}
  Original <- OriginalReview
  FourEyes = TRUE
  Actor = {ann, bob}
  RoleOf <- BobApproves
  Target = {batch}
  TargetOf <- OnBatch
  Synthetic <- SyntheticOf
  Handler = {h1}
  Choices = {"accept", "quarantine"}
  Cited = {}
  Nobody = Nobody
  Shifts <- OneId
PROPERTIES
  RecordedAsAsked
\* People may stop deciding, and the bounds end every run.
CHECK_DEADLOCK FALSE
