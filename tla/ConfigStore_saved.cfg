SPECIFICATION Spec
CONSTANTS
  p = p
  q = q
  c = c
  d = d
  Names = {"office"}
  Procs <- MCProcs
  Certs <- MCCerts
  Values <- MCValues
  Settings <- MCSettings
SYMMETRY Symmetry
INVARIANTS ReadsBack CertificateKept FirstIsAtomic
