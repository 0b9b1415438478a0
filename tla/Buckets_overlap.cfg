CONSTANTS
  Clients = {c1, c2}
  Ann = ann
  Bob = bob
  Users = {ann, bob}
  Buckets = {b1, b2}
  First = b1
  Preview = preview
  Download = download
  Permissions = {preview, download}
  GrantSets = {{}, {preview}, {download}, {preview, download}}
  Checks <- MCChecks
  Ids = {i1, i2}
  Executions = {e1, e2}
  None = None
  MaxEvents = 2
  MaxFaults = 1
SPECIFICATION MCSpec
INVARIANTS GrantsAreAskedFor OneRequestDecides OneScopeDecides OperationsAreGranted ChangesAreInScope
PROPERTIES RowsConverge
