\* Findings and targets over one connection at a time; findings over two that overlap.
SPECIFICATION Spec
CONSTANTS
  ann = ann
  bob = bob
  f1 = f1
  s1 = s1
  batch = batch
  h1 = h1
  h2 = h2
  Reported = {f1}
  Original <- OriginalReview
  FourEyes = TRUE
  Actor = {ann, bob}
  RoleOf <- BobApproves
  Target = {batch}
  TargetOf <- OnBatch
  Synthetic <- SyntheticOf
  Handler = {h1, h2}
  Choices = {"accept", "quarantine"}
  Cited = {}
  Nobody = Nobody
  Shifts <- AllShifts
INVARIANTS
  TypeOK
  ApprovalsNameARequest
  AnsweredWithItsRecord
  DecidedOnLatest
  AuditReads
  DaemonAgrees
PROPERTIES
  LoweringNeedsTwo
  LiftingNeedsTwo
  ImplementsRegister
SYMMETRY Connections
\* People may stop deciding, and the bounds end every run.
CHECK_DEADLOCK FALSE
