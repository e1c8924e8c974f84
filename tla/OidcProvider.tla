---------------------------- MODULE OidcProvider ----------------------------
(***************************************************************************)
(* internal/auth/oidc's Provider behind handleAuthorize and handleToken:   *)
(* authorization codes bound to a PKCE challenge, refresh tokens that are  *)
(* replaced on use, and the client_credentials grant.                      *)
(*                                                                         *)
(* Codes and refresh tokens live in the cache (Redis, or the memory of the *)
(* process); a token request reads its entry, deletes it and stores the    *)
(* next refresh token in separate steps, so requests overlap.              *)
(*                                                                         *)
(* A code is its place in the order of authorizations, a refresh token its *)
(* place in the order of issue: uuid.NewString never repeats a value.      *)
(***************************************************************************)
EXTENDS Naturals, Sequences

CONSTANTS
    Request,       \* goroutines that serve the token endpoint
    Client,        \* registered applications
    Public,        \* those registered without a secret
    URI,
    Redirects,     \* the redirect URIs registered for each client
    Scope,
    User,
    Verifier,      \* PKCE code verifiers
    MaxCodes,      \* bound on the number of authorizations
    MaxTokens,     \* bound on the number of refresh tokens
    CacheMayFail,  \* can a call to the cache return an error
    SharedCache    \* Redis, which a restart of the server leaves alone

ASSUME ClientAssumption ==
    /\ Public \subseteq Client
    /\ Redirects \in [Client -> SUBSET URI]
ASSUME BoundAssumption ==
    /\ MaxCodes \in Nat /\ MaxTokens \in Nat
    /\ CacheMayFail \in BOOLEAN /\ SharedCache \in BOOLEAN

\* The challenge that base64url(sha256(verifier)) is.
S256(v) == <<"S256", v>>

AuthCode == [client : Client, redirect : URI, scope : Scope, user : User,
             challenge : {S256(v) : v \in Verifier}]

\* The forms handleToken accepts, for codes K and refresh tokens T; every one
\* names a client and may carry its secret.
ExchangeRequest(K) ==
    [grant : {"authorization_code"}, client : Client, secret : {"right", "wrong"},
     code : K, redirect : URI, verifier : Verifier]
RefreshRequest(T) ==
    [grant : {"refresh_token"}, client : Client, secret : {"right", "wrong"}, token : T]
CredentialsRequest ==
    [grant : {"client_credentials"}, client : Client, secret : {"right", "wrong"}]
TokenRequest(K, T) == ExchangeRequest(K) \cup RefreshRequest(T) \cup CredentialsRequest

NoRequest == [grant |-> "none"]

VARIABLES
    enabled,     \* clients whose row in applications is enabled
    codes,       \* the records stored under oidc:code:, in order
    liveCodes,   \* those the cache still holds
    tokens,      \* the records stored under oidc:refresh:, in order, with
                 \* the code they descend from and the request they answered
    liveTokens,  \* those the cache still holds
    pc,          \* what each request does next
    req,         \* the request it serves
    \* History, read by the properties only:
    tried,       \* codes an exchange has deleted
    spent        \* refresh tokens deleted by a request, with its client

vars == <<enabled, codes, liveCodes, tokens, liveTokens, pc, req,
          tried, spent>>
cache == <<codes, liveCodes, tokens, liveTokens>>

Code == 1..Len(codes)
Token == 1..Len(tokens)

Init ==
    /\ enabled = Client
    /\ codes = <<>> /\ liveCodes = {}
    /\ tokens = <<>> /\ liveTokens = {}
    /\ pc = [p \in Request |-> "idle"]
    /\ req = [p \in Request |-> NoRequest]
    /\ tried = {} /\ spent = {}

-----------------------------------------------------------------------------
\* Does ClientStore.Get find the client: registered, and its row enabled.
Get(c) == c \in enabled

AllowsRedirect(c, r) == r \in Redirects[c]

\* Authorize, for the user of the session handleAuthorize found. An unknown
\* or disabled client, a redirect URI it did not register and a missing
\* challenge are refused.
Authorize(c, r, s, u, challenge) ==
    /\ Len(codes) < MaxCodes
    /\ Get(c)
    /\ AllowsRedirect(c, r)
    /\ codes' = Append(codes, [client |-> c, redirect |-> r, scope |-> s,
                               user |-> u, challenge |-> challenge])
    /\ liveCodes' = liveCodes \cup {Len(codes) + 1}
    /\ UNCHANGED <<enabled, tokens, liveTokens, pc, req, tried, spent>>

\* Seeded fault: the secret is compared with nothing.
TrustingClient(r) == Get(r.client)

\* authenticateClient
AuthenticateClient(r) ==
    /\ Get(r.client)
    /\ r.client \in Public \/ r.secret = "right"

\* A token request arrives and its client is authenticated; one that fails,
\* or presents a value that was never issued, is refused and changes nothing.
Receive(p, r) ==
    /\ pc[p] = "idle"
    /\ AuthenticateClient(r)
    /\ pc' = [pc EXCEPT ![p] = "authenticated"]
    /\ req' = [req EXCEPT ![p] = r]
    /\ UNCHANGED <<enabled, cache, tried, spent>>

\* The answer is sent, be it tokens or an error.
Goto(p, label) ==
    /\ pc' = [pc EXCEPT ![p] = label]
    /\ req' = IF label = "idle" THEN [req EXCEPT ![p] = NoRequest] ELSE req

\* The read of the code; a miss, or an error of the cache, ends the request.
GetCode(p) ==
    /\ pc[p] = "authenticated" /\ req[p].grant = "authorization_code"
    /\ \/ req[p].code \in liveCodes /\ Goto(p, "delete")
       \/ (req[p].code \notin liveCodes \/ CacheMayFail) /\ Goto(p, "idle")
    /\ UNCHANGED <<enabled, cache, tried, spent>>

\* The checks of ExchangeCode on the record it read.
CodeMatches(r, record) ==
    /\ record.client = r.client
    /\ record.redirect = r.redirect
    /\ S256(r.verifier) = record.challenge

\* Seeded fault: the checks come first, a failed attempt leaves the code.
CheckThenDelete(p) ==
    /\ pc[p] = "delete" /\ req[p].grant = "authorization_code"
    /\ IF CodeMatches(req[p], codes[req[p].code])
       THEN liveCodes' = liveCodes \ {req[p].code} /\ Goto(p, "issue")
       ELSE UNCHANGED liveCodes /\ Goto(p, "idle")
    /\ tried' = tried \cup {req[p].code}
    /\ UNCHANGED <<enabled, codes, tokens, liveTokens, spent>>

\* The deletion of the code, whose error is ignored, and then the checks.
DeleteCode(p) ==
    /\ pc[p] = "delete" /\ req[p].grant = "authorization_code"
    /\ \/ /\ liveCodes' = liveCodes \ {req[p].code}
          /\ tried' = tried \cup {req[p].code}
       \/ CacheMayFail /\ UNCHANGED <<liveCodes, tried>>
    /\ IF CodeMatches(req[p], codes[req[p].code]) THEN Goto(p, "issue")
                                                  ELSE Goto(p, "idle")
    /\ UNCHANGED <<enabled, codes, tokens, liveTokens, spent>>

\* Seeded fault: the record's client is not compared with the request's, as if
\* the token were proof enough.
AnyClientRefresh(p) ==
    /\ pc[p] = "authenticated" /\ req[p].grant = "refresh_token"
    /\ \/ req[p].token \in liveTokens /\ Goto(p, "delete")
       \/ (req[p].token \notin liveTokens \/ CacheMayFail) /\ Goto(p, "idle")
    /\ UNCHANGED <<enabled, cache, tried, spent>>

\* The read of the refresh token; another client's is refused and left alone.
GetRefresh(p) ==
    /\ pc[p] = "authenticated" /\ req[p].grant = "refresh_token"
    /\ \/ /\ req[p].token \in liveTokens
          /\ tokens[req[p].token].client = req[p].client
          /\ Goto(p, "delete")
       \/ /\ \/ req[p].token \in liveTokens =>
                   tokens[req[p].token].client # req[p].client
             \/ CacheMayFail
          /\ Goto(p, "idle")
    /\ UNCHANGED <<enabled, cache, tried, spent>>

\* The deletion of the refresh token, whose error is ignored.
DeleteRefresh(p) ==
    /\ pc[p] = "delete" /\ req[p].grant = "refresh_token"
    /\ \/ /\ liveTokens' = liveTokens \ {req[p].token}
          /\ spent' = spent \cup {<<req[p].token, req[p].client>>}
       \/ CacheMayFail /\ UNCHANGED <<liveTokens, spent>>
    /\ Goto(p, "issue")
    /\ UNCHANGED <<enabled, codes, liveCodes, tokens, tried>>

\* The record a request read, and the code it descends from.
Record(r) == IF r.grant = "authorization_code" THEN codes[r.code] ELSE tokens[r.token]
Grant(r) == IF r.grant = "authorization_code" THEN r.code ELSE tokens[r.token].code

\* Seeded fault: a refresh token whose Set failed counts as stored.
CountsAsStored(p) ==
    /\ pc[p] = "issue"
    /\ \/ /\ Len(tokens) < MaxTokens
          /\ tokens' = Append(tokens,
                [client |-> req[p].client, user |-> Record(req[p]).user,
                 scope |-> Record(req[p]).scope, code |-> Grant(req[p]),
                 request |-> req[p]])
       \/ CacheMayFail /\ UNCHANGED tokens
    /\ liveTokens' = liveTokens \cup {Len(tokens) + 1}
    /\ Goto(p, "idle")
    /\ UNCHANGED <<enabled, codes, liveCodes, tried, spent>>

\* issueTokens with a refresh token. If it cannot be stored the request fails
\* and what was deleted stays deleted.
IssueTokens(p) ==
    /\ pc[p] = "issue"
    /\ \/ /\ Len(tokens) < MaxTokens
          /\ tokens' = Append(tokens,
                [client |-> req[p].client, user |-> Record(req[p]).user,
                 scope |-> Record(req[p]).scope, code |-> Grant(req[p]),
                 request |-> req[p]])
          /\ liveTokens' = liveTokens \cup {Len(tokens) + 1}
       \/ CacheMayFail /\ UNCHANGED <<tokens, liveTokens>>
    /\ Goto(p, "idle")
    /\ UNCHANGED <<enabled, codes, liveCodes, tried, spent>>

\* ClientCredentials issues tokens for the client itself, for the scopes it
\* reads from its row, and stores nothing that refreshes them.
ClientCredentials(p) ==
    /\ pc[p] = "authenticated" /\ req[p].grant = "client_credentials"
    /\ Goto(p, "idle")
    /\ UNCHANGED <<enabled, cache, tried, spent>>

-----------------------------------------------------------------------------
\* The entry of a code (2 minutes) or a refresh token expires.
ExpireCode(k) ==
    /\ k \in liveCodes
    /\ liveCodes' = liveCodes \ {k}
    /\ UNCHANGED <<enabled, codes, tokens, liveTokens, pc, req, tried, spent>>

ExpireToken(t) ==
    /\ t \in liveTokens
    /\ liveTokens' = liveTokens \ {t}
    /\ UNCHANGED <<enabled, codes, liveCodes, tokens, pc, req, tried, spent>>

\* Somebody disables the client in the applications table.
Disable(c) ==
    /\ c \in enabled
    /\ enabled' = enabled \ {c}
    /\ UNCHANGED <<cache, pc, req, tried, spent>>

\* The server is restarted: the requests it served are gone, and with the
\* in-memory cache so are the codes and the refresh tokens.
Restart ==
    /\ pc' = [p \in Request |-> "idle"]
    /\ req' = [p \in Request |-> NoRequest]
    /\ IF SharedCache THEN UNCHANGED <<liveCodes, liveTokens>>
                      ELSE liveCodes' = {} /\ liveTokens' = {}
    /\ UNCHANGED <<enabled, codes, tokens, tried, spent>>

Serve(p) ==
    \/ \E r \in TokenRequest(Code, Token) : Receive(p, r)
    \/ GetCode(p) \/ DeleteCode(p)
    \/ GetRefresh(p) \/ DeleteRefresh(p)
    \/ IssueTokens(p) \/ ClientCredentials(p)

Next ==
    \/ \E c \in Client, r \in URI, s \in Scope, u \in User, v \in Verifier :
          Authorize(c, r, s, u, S256(v))
    \/ \E p \in Request : Serve(p)
    \/ \E k \in liveCodes : ExpireCode(k)
    \/ \E t \in liveTokens : ExpireToken(t)
    \/ \E c \in Client : Disable(c)
    \/ Restart

Spec == Init /\ [][Next]_vars

-----------------------------------------------------------------------------
RefreshToken == [client : Client, user : User, scope : Scope, code : 1..MaxCodes,
                 request : TokenRequest(1..MaxCodes, 1..MaxTokens)]

\* Codes, tokens and requests have the shapes the provider stores, and the
\* cache holds only what was stored in it.
TypeOK ==
    /\ enabled \subseteq Client
    /\ codes \in Seq(AuthCode) /\ Len(codes) <= MaxCodes /\ liveCodes \subseteq Code
    /\ tokens \in Seq(RefreshToken) /\ Len(tokens) <= MaxTokens /\ liveTokens \subseteq Token
    /\ pc \in [Request -> {"idle", "authenticated", "delete", "issue"}]
    /\ req \in [Request -> TokenRequest(Code, Token) \cup {NoRequest}]
    /\ tried \subseteq Code
    /\ spent \subseteq Token \X Client

\* Every refresh token, after any number of refreshes, is for the client, the
\* user and the scope of one authorization, which named a redirect URI that
\* client registered: nothing widens or changes hands on the way
\* (provider.go, ExchangeCode, RefreshTokens and issueTokens).
TracesToAuthorization ==
    \A t \in Token :
        /\ tokens[t].code \in Code
        /\ LET code == codes[tokens[t].code] IN
              /\ tokens[t].client = code.client
              /\ tokens[t].user = code.user
              /\ tokens[t].scope = code.scope
              /\ code.redirect \in Redirects[code.client]

\* A code is exchanged only by the holder of the verifier its challenge was
\* made from, for the redirect URI it was made for, and every refresh token
\* was given to a request that proved to be its client: with the secret when
\* the client has one (provider.go, authenticateClient and verifyPKCE).
ProofPresented ==
    \A t \in Token : LET r == tokens[t].request IN
        /\ r.client = tokens[t].client
        /\ r.client \in Public \/ r.secret = "right"
        /\ r.grant = "authorization_code" =>
              LET code == codes[r.code] IN
                 /\ r.redirect = code.redirect
                 /\ S256(r.verifier) = code.challenge

TriedCodeIsGone == tried \cap liveCodes = {}

OnlyOwnerSpends == \A x \in spent : tokens[x[1]].client = x[2]

\* An exchange that got as far as deleting its code has used it up, also when
\* the client, the redirect URI or the verifier then turn out to be wrong: no
\* later request finds it (provider.go:112-123). A refresh token on the other
\* hand is used up only by a request of its own client: one that presents
\* another client's is refused without disturbing it (provider.go:150).
ConsumedRightly == TriedCodeIsGone /\ OnlyOwnerSpends
=============================================================================
