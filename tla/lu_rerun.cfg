SPECIFICATION Spec
CONSTANTS
  None = None
  vp = vp  vp2 = vp2  vv = vv  np = np  np2 = np2  nv = nv
  b1 = b1  b2 = b2  b3 = b3  b4 = b4
  d1 = d1  d2 = d2  d3 = d3
  n1 = n1  n2 = n2  nqn = nqn
  VblkPF <- MCVblkPFRerun
  NvmePF <- MCNvmePFRerun
  VF <- MCVF
  PFOf <- MCPFOf
  Dev <- MCDev
  Kind <- MCKind
  Bdev <- MCBdev
  Backing <- MCBacking
  VblkBdev <- MCVblkBdevRerun
  NS <- MCNS
  NsBdev <- MCNsBdevRerun
  NsNqn <- MCNsNqn
  Nqn <- MCNqn
  CtrlNqn <- MCCtrlNqnRerun
  Sharing = FALSE
  MaxRuns = 3
INVARIANTS
  SourceKeepsBacking
PROPERTIES
  PFDestroyedLast
  GapOnlyByKill
  HandoverRefined
