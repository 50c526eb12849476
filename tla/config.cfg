SPECIFICATION Spec
CONSTANTS
  SiteInputs <- MCSites
  CertInputs <- MCCerts
  Settings = {1, 2}
  Backups <- MCBackups
  DefaultSettings = 1
  ExampleSite <- MCExampleSite
  ExampleCert <- MCExampleCert
  MaxRevision = 6
  MaxCrashes = 2
INVARIANTS ServedIsStored RestartRequiredAccurate
PROPERTIES ChangesTraceable StartsAgain
CHECK_DEADLOCK FALSE
