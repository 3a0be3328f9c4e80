CONSTANTS
    Blocks = {1, 2}
    BlockOf <- MC_BlockOf
    CONFIG_VERSION <- MC_Version
    DefaultCfg <- MC_DefaultCfg
    EraseCfg <- MC_EraseCfg
    OldCfgs <- MC_OldCfgs
    HostCfgs <- MC_HostCfgs
    Orients <- MC_Orients
    MaxCrashes = 3

SPECIFICATION Spec

INVARIANT TypeOK
INVARIANT FlashWholeConfig
PROPERTY MigratedOnce
