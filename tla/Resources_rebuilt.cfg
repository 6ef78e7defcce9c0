SPECIFICATION MCSpec
CONSTANTS
    c1 = c1  c2 = c2  r1 = r1  sw = sw  tg = tg
    a = a  b = b  bad = bad  none = none
    i1 = i1  i2 = i2  i3 = i3
    Objects = {c1, sw, tg}
    Host <- MCHost
    Files = {"lock"}
    NoObject = none
    NoFile = none
    Holders <- MCHolders
    ProcessOf <- MCProcessOf
    Paths = {"lock", "entry", a, b}
    Cookers = {c1, c2}
    EntryLock = "entry"
    Payloads = {a, b}
    Bad = bad
    NoPayload = none
    MaxCorruptions = 1
    Publishers = {c1, c2}
    Readers = {r1}
    Sweep = sw
    Target = tg
    Ids = {a, b}
    History <- MCHistory
    PublishLock = "lock"
    LeasePath <- MCLeasePath
    NoId = none
    SwapchainImages = {i1, i2, i3}
    NoImage = none
PROPERTIES
    CorruptionIsRebuilt
