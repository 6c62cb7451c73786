SPECIFICATION Spec
CONSTANTS
  None = None
  vp = vp  vp2 = vp2  vv = vv  np = np  np2 = np2  nv = nv
  b1 = b1  b2 = b2  b3 = b3  b4 = b4
  d1 = d1  d2 = d2  d3 = d3
  n1 = n1  n2 = n2  nqn = nqn
  VblkPF <- MCVblkPFFirst
  NvmePF <- MCNvmePFFirst
  VF <- MCVF
  PFOf <- MCPFOf
  Dev <- MCDev
  Kind <- MCKind
  Bdev <- MCBdev
  Backing <- MCBacking
  VblkBdev <- MCVblkBdevFirst
  NS <- MCNS
  NsBdev <- MCNsBdevFirst
  NsNqn <- MCNsNqn
  Nqn <- MCNqn
  CtrlNqn <- MCCtrlNqnFirst
  Sharing = FALSE
  MaxRuns = 1
INVARIANTS
  TypeOK
  SourceKeepsBacking
  NeverRefused
  MovedCompletely
  SourceDrained
