SPECIFICATION TextsSpec
CONSTANTS
    MaxVersionDigits = 2
    Addresses <- MCAddresses
    ProjectIds = {"p"}
    Tokens = {"t"}
    Origins <- MCOrigins
    ParsedTexts <- MCParsedTexts
    BuiltAgents <- MCBuilt
    NoRequest = NoRequest
    NoOptions = NoOptions
    Base58 <- MCBase58
    Bytes <- MCBytes
    Points <- MCPoints
    Ed25519Length = 34
    Payloads <- MCPayloads
    Wallets = {"w1", "w2"}
    AddressOf <- MCAddressOf
    Signatures <- MCSignatures
    Nobody = "nobody"
    NoCacao = NoCacao
INVARIANTS
    RelayReadsOptions
    BuiltReadsBack
    VerifiedWasSigned
    SignedVerifies
    KeyWasNamed
CHECK_DEADLOCK FALSE
