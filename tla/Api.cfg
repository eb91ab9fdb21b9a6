SPECIFICATION ApiSpec
CONSTANTS
  t1 = t1
  t2 = t2
  q1 = q1
  q2 = q2
  q3 = q3
  c1 = c1
  c2 = c2
  c3 = c3
  None = None
  Requests <- ThreeRequests
  Calls <- ApiCalls
  AppConns <- SharedPool
  SystemConns <- SharedPool
  ScriptConns <- Script
  InitialRows <- TenantRows
  Flags = {"beta"}
CONSTRAINT ThreeOfOnePart
SYMMETRY Symmetric
INVARIANTS ScopeIsTheCallers RefsStayInTenant OneTenantPerSubject ScanFindsOne EventsMatchRows
