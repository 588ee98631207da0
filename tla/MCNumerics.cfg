SPECIFICATION Spec
CONSTANTS
  FMax = 64
  Masked <- MCMasked
  Gap = 8
  GROUP_SIZE = 2
  I32 = 2048
  NotFinite = NotFinite
  NaN = NaN
  Infinite = Infinite
  TolAbs = 1
  TolRel <- MCTolRel
  Special <- MCSpecial
  SampleJobs <- MCSampleJobs
  QuantizeJobs <- MCQuantizeJobs
  LayoutJobs <- MCLayoutJobs
  KernelJobs <- MCKernelJobs
INVARIANTS
  SampleExact
  QuantizationExact
  LayoutExact
  ReportExact
CHECK_DEADLOCK FALSE
