SPECIFICATION Spec
CONSTANTS
  r1 = r1
  r2 = r2
  n1 = n1
  n2 = n2
  Runs <- MCRuns
  Namespaces <- MCNamespaces
  NoRun = NoRun
  Settings <- MCSettings
  Calls <- MCCalls
INVARIANTS TypeOK LeaseGuardsPort TraceFileWhole AuditMatchesRun
PROPERTY RunsReturn
CHECK_DEADLOCK FALSE
