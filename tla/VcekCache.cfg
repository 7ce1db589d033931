\* Two chips, three reports, two failures or crashes.
SPECIFICATION Spec
CONSTANTS
    Keys = {k1, k2}
    MaxReports = 3
    MaxFaults = 2
INVARIANTS VerdictRight CacheUsable
PROPERTIES CertificateKept
