SPECIFICATION Spec
CONSTANTS
  p = p
  q = q
  c = c
  d = d
  Names = {"office"}
  Procs <- MCProcs
  Certs <- MCCerts
  Values <- MCValues
  Settings <- MCPlainSettings
SYMMETRY Symmetry
INVARIANT AllReadBack
