\* Packet aging with ts_diff held in a C int of IntBits bits: clock
\* differences of 2^(IntBits-1) or more wrap around.
CONSTANTS
    k1 = k1
    k2 = k2
    k3 = k3
    s1 = s1
    s2 = s2
    u1 = u1
    u2 = u2
    ip1 = ip1
    ip2 = ip2
    r1 = r1
    r2 = r2
    NoKey = NoKey
    NoUser = NoUser
    ZeroIp = ZeroIp
    BadIp = BadIp
    NoComma = NoComma
    NoPkt = NoPkt
    Keys <- MC_Keys
    Signers <- MC_Signers
    Users <- MC_Users
    Ips <- MC_Ips
    Requests <- MC_Requests
    SdpIds <- MC_SdpIds
    Msgs <- MC_Msgs
    Stanzas <- MC_Stanzas
    AccHash <- MC_AccHash
    MinSpaDataSize = 3
    MaxSpaPacketLen = 8
    MinGnupgMsgSize = 2
    HttpHeaderLen = 5
    DataLens = {2, 3}
    EnableSpaOverHttp = "N"
    DisableSdpMode = "Y"
    EnableDigestPersistence = "Y"
    EnableSpaPacketAging = "Y"
    AllowLegacyAccessRequests = "Y"
    EnableForwarding = "Y"
    EnableLocalNat = "N"
    NatSupported = TRUE
    MaxSpaPacketAge = 1
    EnableFw = TRUE
    CmdAsUser = FALSE
    TestMode = FALSE
    StoreMayFail = TRUE
    DefFwAccessTimeout = 1
    IntBits = 2
    MaxTime = 2
    PacketCtrLimit = 3
SPECIFICATION Spec
INVARIANT Freshness
