SPECIFICATION Spec
CONSTANTS
  s1 = s1
  s2 = s2
  s3 = s3
  Requests <- MCRequests
  MaxInflight = 2
  Workloads <- MCWorkloads
SYMMETRY Perms
CHECK_DEADLOCK FALSE
INVARIANTS RowsSound InputsCurrent ReadsOwnOutput
