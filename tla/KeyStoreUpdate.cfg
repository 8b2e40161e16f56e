\* As KeyStore.cfg, for one property.
CONSTANTS
    f1 = f1
    f2 = f2
    v = v
    w = w
    Files = {f1, f2}
    WatchesFile = watchesFile
    Mnemonics = {m}
    PrivateKeys = {k}
    Passwords = {p1, p2}
    Coins = {c1}
    DefaultCoin = c1
    WatchLists <- NoneOrOne
    MaxWatches = 2
    NoKey = NoKey
    NoFile = NoFile
    Torn = Torn
SPECIFICATION Spec
PROPERTY CurrentPasswordUpdates
