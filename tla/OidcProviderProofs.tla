------------------------- MODULE OidcProviderProofs -------------------------
(***************************************************************************)
(* Theorems about OidcProvider, for any number of requests, clients, users *)
(* and verifiers, any redirect URIs, any bounds, with and without an       *)
(* unreliable or a shared cache.                                           *)
(***************************************************************************)
EXTENDS OidcProvider, SequenceTheorems, TLAPS

-----------------------------------------------------------------------------
(* Requests and records.                                                   *)

\* What a request of each grant carries.
LEMMA RequestFields ==
  ASSUME NEW K, NEW T, NEW r \in TokenRequest(K, T)
  PROVE  /\ r.client \in Client /\ r.secret \in {"right", "wrong"}
         /\ r.grant \in {"authorization_code", "refresh_token", "client_credentials"}
         /\ r.grant = "authorization_code" =>
               r.code \in K /\ r.redirect \in URI /\ r.verifier \in Verifier
         /\ r.grant = "refresh_token" => r.token \in T
  BY DEF TokenRequest, ExchangeRequest, RefreshRequest, CredentialsRequest

\* A request stays one when more codes and tokens exist.
LEMMA RequestsGrow ==
  ASSUME NEW K, NEW T, NEW K2, NEW T2, K \subseteq K2, T \subseteq T2
  PROVE  TokenRequest(K, T) \subseteq TokenRequest(K2, T2)
  BY DEF TokenRequest, ExchangeRequest, RefreshRequest

\* Nobody's request is not a request.
LEMMA NoRequestIsNone ==
  \A K, T : NoRequest \notin TokenRequest(K, T)
  BY RequestFields DEF NoRequest

-----------------------------------------------------------------------------
(* The invariant.                                                          *)

\* A code names a redirect URI its client registered.
CodesRegistered ==
  \A k \in Code : codes[k].redirect \in Redirects[codes[k].client]

\* A request that is served is one of somebody who proved to be its client.
Authenticated ==
  \A p \in Request : pc[p] # "idle" =>
    /\ req[p] \in TokenRequest(Code, Token)
    /\ req[p].client \in Public \/ req[p].secret = "right"
    /\ pc[p] \in {"delete", "issue"} =>
         req[p].grant \in {"authorization_code", "refresh_token"}

\* A request about to issue tokens has passed the checks of its grant: on the record
\* of the code, which never changes, or on that of the refresh token.
Checked ==
  \A p \in Request :
    /\ pc[p] = "issue" /\ req[p].grant = "authorization_code" =>
         CodeMatches(req[p], codes[req[p].code])
    /\ pc[p] \in {"delete", "issue"} /\ req[p].grant = "refresh_token" =>
         tokens[req[p].token].client = req[p].client

\* The request a token answered named a code or a token that exists.
AnsweredRequests ==
  \A t \in Token : tokens[t].request \in TokenRequest(Code, Token)

IInv == /\ TypeOK /\ CodesRegistered /\ Authenticated /\ Checked /\ AnsweredRequests
        /\ TracesToAuthorization /\ ProofPresented /\ TriedCodeIsGone /\ OnlyOwnerSpends

\* Nothing has happened yet.
LEMMA InitHolds == Init => IInv
<1> SUFFICES ASSUME Init PROVE IInv
  OBVIOUS
<1>1. /\ codes = <<>> /\ tokens = <<>> /\ Code = {} /\ Token = {}
      /\ liveCodes = {} /\ liveTokens = {} /\ tried = {} /\ spent = {}
  BY DEF Init, Code, Token
<1>2. TypeOK
  BY <1>1, BoundAssumption DEF Init, TypeOK
<1> QED BY <1>1, <1>2 DEF Init, IInv, CodesRegistered, Authenticated, Checked,
           AnsweredRequests, TracesToAuthorization, ProofPresented, TriedCodeIsGone,
           OnlyOwnerSpends

-----------------------------------------------------------------------------
(* Steps that leave the records alone.                                     *)

\* What is said of the records stays true while they do, whatever the cache loses.
LEMMA RecordsStay ==
  ASSUME IInv, UNCHANGED <<codes, tokens>>
  PROVE  /\ CodesRegistered' /\ AnsweredRequests' /\ TracesToAuthorization'
         /\ ProofPresented' /\ Code' = Code /\ Token' = Token
  BY DEF IInv, CodesRegistered, AnsweredRequests, TracesToAuthorization,
         ProofPresented, Code, Token

\* Where no request moves, and the cache only loses entries.
LEMMA CacheShrinks ==
  ASSUME IInv, UNCHANGED <<codes, tokens, pc, req, tried, spent>>,
         enabled' \subseteq Client, liveCodes' \subseteq liveCodes, liveTokens' \subseteq liveTokens
  PROVE  IInv'
<1>1. TypeOK'
  BY RecordsStay DEF IInv, TypeOK
<1>2. Authenticated' /\ Checked' /\ TriedCodeIsGone' /\ OnlyOwnerSpends'
  BY RecordsStay DEF IInv, Authenticated, Checked, CodeMatches, TriedCodeIsGone, OnlyOwnerSpends
<1> QED BY <1>1, <1>2, RecordsStay DEF IInv

\* A request that moves on.
LEMMA GotoMoves ==
  ASSUME IInv, NEW p \in Request, NEW label \in {"idle", "delete", "issue"}, Goto(p, label)
  PROVE  /\ pc' \in [Request -> {"idle", "authenticated", "delete", "issue"}]
         /\ req' \in [Request -> TokenRequest(Code, Token) \cup {NoRequest}]
         /\ \A q \in Request : pc'[q] = IF q = p THEN label ELSE pc[q]
         /\ \A q \in Request : req'[q] = IF q = p /\ label = "idle" THEN NoRequest ELSE req[q]
  BY DEF IInv, TypeOK, Goto

\* It may, if what is asked of its next step has been seen to.
LEMMA StepOfRequest ==
  ASSUME IInv, NEW p \in Request, NEW label \in {"idle", "delete", "issue"}, Goto(p, label),
         pc[p] # "idle",
         label # "idle" => req[p].grant \in {"authorization_code", "refresh_token"},
         label = "issue" /\ req[p].grant = "authorization_code" =>
           CodeMatches(req[p], codes[req[p].code]),
         label # "idle" /\ req[p].grant = "refresh_token" =>
           tokens[req[p].token].client = req[p].client,
         UNCHANGED <<enabled, codes, tokens>>,
         liveCodes' \subseteq liveCodes, liveTokens' \subseteq liveTokens,
         tried' \subseteq Code, tried' \cap liveCodes' = {},
         spent' \subseteq Token \X Client, \A x \in spent' : tokens[x[1]].client = x[2]
  PROVE  IInv'
<1>1. TypeOK'
  BY RecordsStay, GotoMoves DEF IInv, TypeOK
<1>2. Authenticated'
  BY RecordsStay, GotoMoves DEF IInv, Authenticated
<1>3. Checked'
  BY RecordsStay, GotoMoves DEF IInv, Checked, CodeMatches
<1>4. TriedCodeIsGone' /\ OnlyOwnerSpends'
  BY RecordsStay DEF TriedCodeIsGone, OnlyOwnerSpends
<1> QED BY <1>1, <1>2, <1>3, <1>4, RecordsStay DEF IInv

\* What the history and the cache satisfy as they are.
LEMMA HistoryNow ==
  ASSUME IInv
  PROVE  /\ tried \subseteq Code /\ tried \cap liveCodes = {}
         /\ spent \subseteq Token \X Client
         /\ \A x \in spent : tokens[x[1]].client = x[2]
  BY DEF IInv, TypeOK, TriedCodeIsGone, OnlyOwnerSpends

\* A request comes in from somebody who can authenticate.
LEMMA ReceiveHolds ==
  ASSUME IInv, NEW p \in Request, NEW r \in TokenRequest(Code, Token), Receive(p, r)
  PROVE  IInv'
<1>0. /\ pc' = [pc EXCEPT ![p] = "authenticated"] /\ req' = [req EXCEPT ![p] = r]
      /\ r.client \in Public \/ r.secret = "right"
      /\ UNCHANGED <<enabled, codes, liveCodes, tokens, liveTokens, tried, spent>>
  BY DEF Receive, AuthenticateClient, cache
<1>1. TypeOK'
  BY <1>0, RecordsStay DEF IInv, TypeOK
<1>2. Authenticated'
  BY <1>0, RecordsStay DEF IInv, TypeOK, Authenticated
<1>3. Checked'
  BY <1>0 DEF IInv, TypeOK, Checked, CodeMatches
<1>4. TriedCodeIsGone' /\ OnlyOwnerSpends'
  BY <1>0 DEF IInv, TriedCodeIsGone, OnlyOwnerSpends
<1> QED BY <1>0, <1>1, <1>2, <1>3, <1>4, RecordsStay DEF IInv

\* The reads change nothing but where the request is; what GetRefresh lets through
\* is its client's.
LEMMA ReadHolds ==
  ASSUME IInv, NEW p \in Request, GetCode(p) \/ GetRefresh(p) \/ ClientCredentials(p)
  PROVE  IInv'
<1>0. UNCHANGED <<enabled, codes, liveCodes, tokens, liveTokens, tried, spent>>
  BY DEF GetCode, GetRefresh, ClientCredentials, cache
<1>1. pc[p] # "idle"
  BY DEF GetCode, GetRefresh, ClientCredentials
<1>2. CASE Goto(p, "idle")
  BY <1>0, <1>1, <1>2, HistoryNow, StepOfRequest
<1>3. CASE GetCode(p) /\ Goto(p, "delete")
  BY <1>0, <1>1, <1>3, HistoryNow, StepOfRequest DEF GetCode
<1>4. CASE GetRefresh(p) /\ Goto(p, "delete") /\ ~Goto(p, "idle")
  <2>1. req[p].grant = "refresh_token" /\ tokens[req[p].token].client = req[p].client
    BY <1>4 DEF GetRefresh
  <2> QED BY <1>0, <1>1, <1>4, <2>1, HistoryNow, StepOfRequest
<1> QED BY <1>2, <1>3, <1>4 DEF GetCode, GetRefresh, ClientCredentials

\* A code that is deleted is gone and stays so; the checks are made on its record.
LEMMA DeleteCodeHolds ==
  ASSUME IInv, NEW p \in Request, DeleteCode(p)
  PROVE  IInv'
<1>1. req[p] \in TokenRequest(Code, Token) /\ req[p].code \in Code
  BY RequestFields DEF DeleteCode, IInv, Authenticated
<1>2. UNCHANGED <<enabled, codes, tokens, liveTokens, spent>> /\ pc[p] # "idle"
  BY DEF DeleteCode
<1>3. /\ liveCodes' \subseteq liveCodes
      /\ tried' \subseteq Code /\ tried' \cap liveCodes' = {}
  BY <1>1, HistoryNow DEF DeleteCode
<1>4. CASE Goto(p, "idle")
  BY <1>2, <1>3, <1>4, HistoryNow, StepOfRequest
<1>5. CASE Goto(p, "issue") /\ CodeMatches(req[p], codes[req[p].code])
  BY <1>2, <1>3, <1>5, HistoryNow, StepOfRequest DEF DeleteCode
<1> QED BY <1>4, <1>5 DEF DeleteCode

\* A refresh token is deleted for its own client only.
LEMMA DeleteRefreshHolds ==
  ASSUME IInv, NEW p \in Request, DeleteRefresh(p)
  PROVE  IInv'
<1>1. /\ req[p] \in TokenRequest(Code, Token) /\ req[p].token \in Token
      /\ req[p].client \in Client
      /\ tokens[req[p].token].client = req[p].client
  BY RequestFields DEF DeleteRefresh, IInv, Authenticated, Checked
<1>2. /\ UNCHANGED <<enabled, codes, tokens, liveCodes, tried>> /\ pc[p] # "idle"
      /\ req[p].grant = "refresh_token" /\ Goto(p, "issue")
  BY DEF DeleteRefresh
<1>3. /\ liveTokens' \subseteq liveTokens
      /\ spent' \subseteq Token \X Client
      /\ \A x \in spent' : tokens[x[1]].client = x[2]
  BY <1>1, HistoryNow DEF DeleteRefresh
<1> QED BY <1>1, <1>2, <1>3, HistoryNow, StepOfRequest

-----------------------------------------------------------------------------
(* Steps that add a record.                                                *)

\* What Append does to a sequence of records.
LEMMA Appended ==
  ASSUME NEW S, NEW s \in Seq(S), NEW e \in S
  PROVE  /\ Append(s, e) \in Seq(S) /\ Len(Append(s, e)) = Len(s) + 1
         /\ \A k \in 1..Len(s) : Append(s, e)[k] = s[k]
         /\ Append(s, e)[Len(s) + 1] = e
         /\ 1..Len(Append(s, e)) = 1..Len(s) \cup {Len(s) + 1}
         /\ Len(s) + 1 \notin 1..Len(s) /\ Len(s) \in Nat
  OBVIOUS

\* A code is bound to a redirect URI its client registered, and nothing refers to
\* it yet.
LEMMA AuthorizeHolds ==
  ASSUME IInv, NEW c \in Client, NEW r \in URI, NEW s \in Scope, NEW u \in User,
         NEW v \in Verifier, Authorize(c, r, s, u, S256(v))
  PROVE  IInv'
<1>1. PICK k \in AuthCode : k = [client |-> c, redirect |-> r, scope |-> s, user |-> u,
                                 challenge |-> S256(v)]
  BY DEF AuthCode
<1>2. /\ k.client = c /\ k.redirect = r /\ r \in Redirects[c] /\ Len(codes) < MaxCodes
      /\ codes' = Append(codes, k) /\ liveCodes' = liveCodes \cup {Len(codes) + 1}
      /\ UNCHANGED <<enabled, tokens, liveTokens, pc, req, tried, spent>>
  BY <1>1 DEF Authorize, AllowsRedirect
<1>3. /\ codes' \in Seq(AuthCode) /\ Len(codes') = Len(codes) + 1 /\ Len(codes) \in Nat
      /\ \A n \in Code : codes'[n] = codes[n]
      /\ codes'[Len(codes) + 1] = k
      /\ Code' = Code \cup {Len(codes) + 1} /\ Len(codes) + 1 \notin Code /\ Token' = Token
  BY <1>2, Appended DEF IInv, TypeOK, Code, Token
<1>4. TokenRequest(Code, Token) \subseteq TokenRequest(Code', Token')
  BY <1>3, RequestsGrow
<1>5. TypeOK'
  <2>1. req' \in [Request -> TokenRequest(Code', Token') \cup {NoRequest}]
    BY <1>2, <1>4 DEF IInv, TypeOK
  <2>2. /\ Len(codes') <= MaxCodes /\ liveCodes' \subseteq Code' /\ tried' \subseteq Code'
        /\ Token' = Token
    BY <1>2, <1>3, BoundAssumption DEF IInv, TypeOK
  <2> QED BY <2>1, <2>2, <1>2, <1>3 DEF IInv, TypeOK, RefreshToken
<1>6. CodesRegistered'
  BY <1>2, <1>3 DEF IInv, CodesRegistered
<1>7. Authenticated' /\ AnsweredRequests'
  BY <1>2, <1>3, <1>4 DEF IInv, Authenticated, AnsweredRequests
<1>8. Checked'
  <2>1. \A p \in Request : pc[p] = "issue" /\ req[p].grant = "authorization_code" =>
                             req[p].code \in Code
    BY RequestFields DEF IInv, Authenticated
  <2> QED BY <2>1, <1>2, <1>3 DEF IInv, Checked, CodeMatches
<1>9. TracesToAuthorization'
  BY <1>2, <1>3 DEF IInv, TracesToAuthorization
<1>10. ProofPresented'
  <2>1. \A t \in Token : tokens[t].request.grant = "authorization_code" =>
                           tokens[t].request.code \in Code
    BY RequestFields DEF IInv, AnsweredRequests
  <2> QED BY <2>1, <1>2, <1>3 DEF IInv, ProofPresented
<1>11. TriedCodeIsGone' /\ OnlyOwnerSpends'
  BY <1>2, <1>3, HistoryNow DEF TriedCodeIsGone, OnlyOwnerSpends
<1> QED BY <1>5, <1>6, <1>7, <1>8, <1>9, <1>10, <1>11 DEF IInv

\* What is issued is for the client, the user and the scope of the record that was
\* read, which go back to an authorization.
LEMMA IssueHolds ==
  ASSUME IInv, NEW p \in Request, IssueTokens(p)
  PROVE  IInv'
<1> DEFINE r == req[p]
<1>0. /\ pc[p] = "issue" /\ Goto(p, "idle")
      /\ UNCHANGED <<enabled, codes, liveCodes, tried, spent>>
  BY DEF IssueTokens
<1>1. CASE UNCHANGED <<tokens, liveTokens>>
  BY <1>0, <1>1, HistoryNow, StepOfRequest
<1>2. CASE ~UNCHANGED <<tokens, liveTokens>>
  <2>r. /\ r \in TokenRequest(Code, Token) /\ r.client \in Client
        /\ r.client \in Public \/ r.secret = "right"
        /\ r.grant = "authorization_code" => r.code \in Code /\ CodeMatches(r, codes[r.code])
        /\ r.grant # "authorization_code" =>
             r.token \in Token /\ tokens[r.token].client = r.client
    BY <1>0, RequestFields DEF IInv, Authenticated, Checked
  <2>g. /\ Grant(r) \in Code
        /\ Record(r).user = codes[Grant(r)].user /\ Record(r).user \in User
        /\ Record(r).scope = codes[Grant(r)].scope /\ Record(r).scope \in Scope
        /\ r.client = codes[Grant(r)].client
    <3>1. \A k \in Code : codes[k] \in AuthCode
      BY ElementOfSeq DEF IInv, TypeOK, Code
    <3>2. CASE r.grant = "authorization_code"
      BY <2>r, <3>1, <3>2 DEF Grant, Record, CodeMatches, AuthCode
    <3>3. CASE r.grant # "authorization_code"
      <4>1. Grant(r) = tokens[r.token].code /\ Record(r) = tokens[r.token]
        BY <3>3 DEF Grant, Record
      <4> QED BY <2>r, <3>1, <3>3, <4>1 DEF IInv, TracesToAuthorization, AuthCode
    <3> QED BY <3>2, <3>3
  <2>c. Code \subseteq 1..MaxCodes /\ Token \subseteq 1..MaxTokens
    BY BoundAssumption DEF IInv, TypeOK, Code, Token
  <2>1. r \in TokenRequest(1..MaxCodes, 1..MaxTokens)
    BY <2>r, <2>c, RequestsGrow
  <2>2. PICK x \in RefreshToken :
          x = [client |-> r.client, user |-> Record(r).user, scope |-> Record(r).scope,
               code |-> Grant(r), request |-> r]
    BY <2>r, <2>g, <2>c, <2>1 DEF RefreshToken
  <2>x. /\ x.client = r.client /\ x.user = Record(r).user /\ x.scope = Record(r).scope
        /\ x.code = Grant(r) /\ x.request = r
    BY <2>2
  <2>3. /\ Len(tokens) < MaxTokens /\ tokens' = Append(tokens, x)
        /\ liveTokens' = liveTokens \cup {Len(tokens) + 1}
    BY <1>2, <2>2 DEF IssueTokens
  <2>4. /\ tokens' \in Seq(RefreshToken) /\ Len(tokens') = Len(tokens) + 1 /\ Len(tokens) \in Nat
        /\ \A t \in Token : tokens'[t] = tokens[t]
        /\ tokens'[Len(tokens) + 1] = x
        /\ Token' = Token \cup {Len(tokens) + 1} /\ Len(tokens) + 1 \notin Token /\ Code' = Code
    BY <1>0, <2>3, Appended DEF IInv, TypeOK, Code, Token
  <2>5. TokenRequest(Code, Token) \subseteq TokenRequest(Code', Token')
    BY <2>4, RequestsGrow
  <2> HIDE DEF r
  <2>6. TypeOK'
    <3>1. req' \in [Request -> TokenRequest(Code', Token') \cup {NoRequest}]
      BY <1>0, <2>5, GotoMoves
    <3>2. /\ Len(tokens') <= MaxTokens /\ liveTokens' \subseteq Token'
          /\ spent' \subseteq Token' \X Client
      BY <1>0, <2>3, <2>4, BoundAssumption DEF IInv, TypeOK
    <3>3. pc' \in [Request -> {"idle", "authenticated", "delete", "issue"}]
      BY <1>0, GotoMoves
    <3> QED BY <3>1, <3>2, <3>3, <1>0, <2>4 DEF IInv, TypeOK, AuthCode
  <2>7. CodesRegistered'
    BY <1>0, <2>4 DEF IInv, CodesRegistered
  <2>8. Authenticated'
    BY <1>0, <2>5, GotoMoves DEF IInv, Authenticated
  <2>9. Checked'
    <3>1. \A q \in Request : pc[q] \in {"delete", "issue"} /\ req[q].grant = "refresh_token" =>
                               req[q].token \in Token
      BY RequestFields DEF IInv, Authenticated
    <3> QED BY <3>1, <1>0, <2>4, GotoMoves DEF IInv, Checked, CodeMatches
  <2>10. AnsweredRequests'
    BY <2>r, <2>x, <2>4, <2>5 DEF IInv, AnsweredRequests
  <2>11. TracesToAuthorization'
    BY <1>0, <2>g, <2>x, <2>4 DEF IInv, TracesToAuthorization, CodesRegistered
  <2>12. ProofPresented'
    BY <1>0, <2>r, <2>x, <2>4 DEF IInv, ProofPresented, CodeMatches
  <2>13. TriedCodeIsGone' /\ OnlyOwnerSpends'
    BY <1>0, <2>4, HistoryNow DEF TriedCodeIsGone, OnlyOwnerSpends
  <2> QED BY <2>6, <2>7, <2>8, <2>9, <2>10, <2>11, <2>12, <2>13 DEF IInv
<1> QED BY <1>1, <1>2

-----------------------------------------------------------------------------
\* A restart forgets requests, and perhaps the cache.
LEMMA RestartHolds ==
  ASSUME IInv, Restart
  PROVE  IInv'
<1>0. /\ pc' = [p \in Request |-> "idle"] /\ req' = [p \in Request |-> NoRequest]
      /\ liveCodes' \subseteq liveCodes /\ liveTokens' \subseteq liveTokens
      /\ UNCHANGED <<enabled, codes, tokens, tried, spent>>
  BY DEF Restart
<1>1. TypeOK'
  BY <1>0, RecordsStay DEF IInv, TypeOK
<1>2. Authenticated' /\ Checked' /\ TriedCodeIsGone' /\ OnlyOwnerSpends'
  BY <1>0 DEF IInv, Authenticated, Checked, TriedCodeIsGone, OnlyOwnerSpends
<1> QED BY <1>0, <1>1, <1>2, RecordsStay DEF IInv

\* Every step keeps the invariant.
LEMMA StepHolds ==
  ASSUME IInv, [Next]_vars
  PROVE  IInv'
<1>1. ASSUME NEW c \in Client, NEW r \in URI, NEW s \in Scope, NEW u \in User,
             NEW v \in Verifier, Authorize(c, r, s, u, S256(v))
      PROVE  IInv'
  BY <1>1, AuthorizeHolds
<1>2. ASSUME NEW p \in Request, Serve(p)
      PROVE  IInv'
  BY <1>2, ReceiveHolds, ReadHolds, DeleteCodeHolds, DeleteRefreshHolds, IssueHolds DEF Serve
<1>3. ASSUME NEW k \in liveCodes, ExpireCode(k)
      PROVE  IInv'
  BY <1>3, CacheShrinks DEF ExpireCode, IInv, TypeOK
<1>4. ASSUME NEW t \in liveTokens, ExpireToken(t)
      PROVE  IInv'
  BY <1>4, CacheShrinks DEF ExpireToken, IInv, TypeOK
<1>5. ASSUME NEW c \in Client, Disable(c)
      PROVE  IInv'
  BY <1>5, CacheShrinks DEF Disable, cache, IInv, TypeOK
<1>6. CASE Restart
  BY <1>6, RestartHolds
<1>7. CASE UNCHANGED vars
  BY <1>7, CacheShrinks DEF vars, IInv, TypeOK
<1> QED BY <1>1, <1>2, <1>3, <1>4, <1>5, <1>6, <1>7 DEF Next

\* The invariant holds in every state the provider reaches.
LEMMA Invariance == Spec => []IInv
  BY InitHolds, StepHolds, PTL DEF Spec

\* The provider's state keeps its types: the cache holds only what was stored, a
\* request names only what was issued (provider.go).
THEOREM TypeCorrect == Spec => []TypeOK
<1>1. IInv => TypeOK
  BY DEF IInv
<1> QED BY Invariance, <1>1, PTL

\* Through any number of refreshes by any number of overlapping requests, a token is
\* for the client, the user and the scope of one authorization, whose redirect URI
\* was registered (provider.go, ExchangeCode, RefreshTokens, issueTokens).
THEOREM NothingWidens == Spec => []TracesToAuthorization
<1>1. IInv => TracesToAuthorization
  BY DEF IInv
<1> QED BY Invariance, <1>1, PTL

\* Every token was given to a request that proved to be its client, and one for a
\* code to the holder of the verifier (provider.go, authenticateClient, verifyPKCE).
THEOREM ProofIsAsked == Spec => []ProofPresented
<1>1. IInv => ProofPresented
  BY DEF IInv
<1> QED BY Invariance, <1>1, PTL

\* A code that was deleted does not come back, and a refresh token is used up only
\* by its own client (provider.go:112-123, 150).
THEOREM UsedUpRightly == Spec => []ConsumedRightly
<1>1. IInv => ConsumedRightly
  BY DEF IInv, ConsumedRightly
<1> QED BY Invariance, <1>1, PTL
=============================================================================
