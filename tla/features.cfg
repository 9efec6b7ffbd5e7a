SPECIFICATION Spec
CONSTANTS
    Threads = {t1, t2}
    x = x
    y = y
    Nil = Nil
    Features <- MCFeatures
    Bundles <- MCBundles
    Requested = {"stable"}
INVARIANTS
    TypeOK
    NameSurvives
    OverwriteSucceeds
    BundleIsRegistered
