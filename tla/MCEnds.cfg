CONSTANTS
    x0 = x0
    x1 = x1
    x2 = x2
    t1 = t1
    t2 = t2
    home = home
    other = other
    nil = nil
    AddrLen = 1
    NonceLen = 1
    FpLen = 1
    SecretLen = 1
    WordBits = 20
    DefaultPort = 7657
SPECIFICATION Spec
CHECK_DEADLOCK FALSE
SYMMETRY Symmetry
INVARIANTS
    NothingSentTwice
    LiveIsDurable
    RelayAccounts
    CarrierStatusIsTrue
    RelayedIntact
    GateAdmitsOne
    JournalSeesItsOwn
    PairingIsSound
    RenewalIsPossible
    CutsDoNotMatter
    OneShotIsSound
    TallyIsHonest
PROPERTIES
    PublicationIsFenced
    StopIsFinal
    TokenOnlyImproves
    DuplexIsAPipe
