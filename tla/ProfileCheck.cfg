\* Two runs over files and a domain; servers, disks and writes fail, runs are
\* killed, the domain changes once and the cache is changed from outside once.
SPECIFICATION Spec
SYMMETRY MCSymmetry
CONSTANTS
    None = None
    r1 = r1
    r2 = r2
    k1 = k1
    k2 = k2
    badKey = badKey
    Runs <- MCRuns
    Keys <- MCKeys
    System = "host"
    Formats = {"sha256"}
    RuleTools = {"jq"}
    Digest <- MCDigest
    Serves <- MCServes
    Signed <- MCSigned
    OnDisk <- MCOnDisk
    Online <- MCOnline
    Invocations <- MCInvocations
    ConfigLinters = {2}
    MaxForeign = 1
    MaxChanges = 1
INVARIANTS
    TypeOK
    CacheHoldsPins
    CacheErrorsAreForeign
    RunsWhatItPinned
    SameCommandSameBytes
    WithdrawnKeyIsRefused
