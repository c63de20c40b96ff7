SPECIFICATION Spec
CONSTANTS
    r1 = r1
    old = old
    new = new
    r2 = r2
    chrome = chrome
    firefox = firefox
    ua = ua
    Requests = {r1, r2}
    Hosts = {old, new}
    Presets = {chrome, firefox}
    HeaderNames = {ua}
    PlainHosts = {}
    H1OnlyHosts = {old}
    H2Presets = {chrome}
    DefaultPreset = chrome
    HeadersOf <- MCHeadersOf
    MaxSets = 2
    Nil = Nil
    User = User
INVARIANT NoCorruptReplay
CHECK_DEADLOCK FALSE
