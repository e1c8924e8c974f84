CONSTANTS
    gitlab = gitlab
    spa = spa
    callback = callback
    local = local
    Client <- MCClient
    Public <- MCPublic
    URI <- MCURI
    Redirects <- MCRedirects
    Scope = {"openid"}
    Request = {p1, p2}
    User = {alice}
    Verifier = {v1, v2}
    MaxCodes = 1
    MaxTokens = 2
    CacheMayFail = TRUE
    SharedCache = FALSE
SPECIFICATION Spec
SYMMETRY Symmetry
INVARIANTS TypeOK TracesToAuthorization ProofPresented ConsumedRightly
CHECK_DEADLOCK FALSE
