CONSTANTS
  t1 = t1 t2 = t2 small = small large = large gpu = gpu
  Threads = {t1, t2}
  Kernels = {k1, k2, k3}
  Contexts = {c1, c2}
  Programs = {small, large}
  SizeOf <- Sizes
  NSlots = 2
  Limits = {1, 2}
  NULL = NULL
  Images = {m1, m2}
  Devices = {gpu}
  DeviceOf <- OneDevice
  InOrder = {t1, t2}
  Demand <- Separate
SPECIFICATION BSpec
INVARIANTS KernelsFit CountsExact ContextsHeld SizeWithinLimit NothingCached LentOncePerDevice ImagesCounted
SYMMETRY Alike
