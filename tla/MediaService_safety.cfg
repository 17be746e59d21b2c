SPECIFICATION MCSpec
CONSTANTS
    k1 = k1
    k2 = k2
    Keys = {k1, k2}
    Size <- MCSize
    Limits = {2, 3}
    Tokens = {t1, t2}
    Readers = {r1}
    Arcs = {a1, a2, a3}
    MaxAssets = 1
    MaxCrashes = 1
    None = None
    Top = 8
INVARIANTS SpaceAccounted HoldersAreCurrent LeasesServed ActsAsSet HeaderResolves
PROPERTIES ReleasedBecomesFree
