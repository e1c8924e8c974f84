---------------------------- MODULE SecondFactor ----------------------------
(***************************************************************************)
(* The second factors of one account: TOTP (internal/mfa and its handlers) *)
(* and WebAuthn registration (internal/webauthn), which share the column   *)
(* users.mfa_enabled, and the part of handleLogin that asks for a code.    *)
(*                                                                         *)
(* Every query is a step. A TOTP secret is its place in the order of       *)
(* enrolments and a code, chosen when it is looked at, is the secret it    *)
(* was computed from; a challenge is its place in the order of ceremonies. *)
(* The login ceremony of WebAuthn reads the keys, writes nothing but its   *)
(* own cache entry and decides nothing in the program: it is left out.     *)
(***************************************************************************)
EXTENDS Naturals, FiniteSets

CONSTANTS
    Handler,       \* goroutines that serve the requests of the account
    Key,           \* security keys and platforms the user could register
    DbMayFail,     \* can a query or a call of the cache return an error
    MaxSecrets,    \* bound on the number of enrolments
    MaxCeremonies  \* bound on the number of registrations begun

ASSUME FactorAssumption ==
    /\ DbMayFail \in BOOLEAN
    /\ MaxSecrets \in Nat /\ MaxCeremonies \in Nat

NoSecret == 0   \* mfa_secret is NULL or ""
Secret == 1..MaxSecrets
NoCeremony == 0
NoKey == 0
Ceremony == 1..MaxCeremonies

VARIABLES
    enabled,     \* users.mfa_enabled
    secret,      \* users.mfa_secret
    keys,        \* users.webauthn_credentials
    pending,     \* the challenge in webauthn:session:reg:<user>
    enrolments,  \* secrets generated so far
    begun,       \* registrations begun so far
    stage,
    sent,        \* the key each registration was sent
    loaded,      \* the keys each request has read
    \* History, read by the properties only:
    off,         \* sign-ins during which the factors were off at some time
    accepted,    \* sign-ins whose code was that of the secret stored then
    unasked,     \* has a sign-in succeeded that is neither
    setBy,       \* what set mfa_enabled last: "totp" or "key", or "late", a confirmation
                 \* whose check of the code a disabling followed
    undone,      \* confirmations a disabling has fallen into
    missed       \* keys that appeared since each registration read the list

columns == <<enabled, secret, keys>>
counters == <<enrolments, begun>>
setters == <<setBy, undone, missed>>
history == <<off, accepted, unasked, setters>>
factorVars == <<columns, pending, counters, stage, sent, loaded, history>>

FactorInit ==
    /\ enabled = FALSE /\ secret = NoSecret /\ keys = {}
    /\ pending = NoCeremony /\ enrolments = 0 /\ begun = 0
    /\ stage = [q \in Handler |-> "idle"]
    /\ sent = [q \in Handler |-> NoKey] /\ loaded = [q \in Handler |-> {}]
    /\ off = {} /\ accepted = {} /\ unasked = FALSE
    /\ setBy = "nobody" /\ undone = {} /\ missed = [q \in Handler |-> {}]

AtStage(label) == {q \in Handler : stage[q] = label}
Confirming == AtStage("enable")
Finishing == AtStage("load") \cup AtStage("save")
SigningIn == AtStage("flag") \cup AtStage("code")

\* Seeded fault: a request finds what the one before it on the goroutine was sent.
MoveToKeeping(q, label) ==
    /\ stage' = [stage EXCEPT ![q] = label]
    /\ loaded' = IF label = "idle" THEN [loaded EXCEPT ![q] = {}] ELSE loaded
    /\ UNCHANGED sent

\* The request goes on at the label, or is answered and forgotten.
MoveTo(q, label) ==
    /\ stage' = [stage EXCEPT ![q] = label]
    /\ sent' = IF label = "idle" THEN [sent EXCEPT ![q] = NoKey] ELSE sent
    /\ loaded' = IF label = "idle" THEN [loaded EXCEPT ![q] = {}] ELSE loaded

\* The flag is set to a value: what the history makes of it.
SetEnabled(value, by) ==
    /\ enabled' = value /\ setBy' = by
    /\ off' = IF value THEN off ELSE off \cup SigningIn
    /\ UNCHANGED <<accepted, unasked>>

-----------------------------------------------------------------------------
(* TOTP. Each of these begins in a session of the user.                    *)

\* Enroll replaces the secret, whatever is enabled.
Enroll ==
    /\ enrolments < MaxSecrets
    /\ enrolments' = enrolments + 1
    /\ secret' = enrolments'
    /\ UNCHANGED <<enabled, keys, pending, begun, stage, sent, loaded, history>>

\* Confirm: secretFor and totp.Validate; a wrong code or no secret is refused.
CheckCode(q) ==
    /\ stage[q] = "idle"
    /\ secret # NoSecret
    /\ stage' = [stage EXCEPT ![q] = "enable"]
    /\ UNCHANGED <<columns, pending, counters, sent, loaded, history>>

\* Confirm: the UPDATE.
EnableTotp(q) ==
    /\ stage[q] = "enable"
    /\ SetEnabled(TRUE, IF q \in undone THEN "late" ELSE "totp")
    /\ undone' = undone \ {q}
    /\ MoveTo(q, "idle")
    /\ UNCHANGED <<secret, keys, pending, counters, missed>>

\* Seeded fault: the secret is cleared and the flag forgotten.
DisableSecretOnly ==
    /\ secret' = NoSecret
    /\ UNCHANGED <<enabled, keys, pending, counters, stage, sent, loaded, history>>

\* handleMFADisable, once the password is verified; the keys stay.
Disable ==
    /\ SetEnabled(FALSE, "nobody")
    /\ secret' = NoSecret
    /\ undone' = undone \cup Confirming
    /\ UNCHANGED <<keys, pending, counters, stage, sent, loaded, missed>>

-----------------------------------------------------------------------------
(* Registration of a security key. *)

\* BeginRegistration: the challenge goes to the cache, over an earlier one.
BeginRegistration ==
    /\ begun < MaxCeremonies
    /\ begun' = begun + 1
    /\ pending' = begun'
    /\ UNCHANGED <<columns, enrolments, stage, sent, loaded, history>>

\* Five minutes are over, or the cache restarts.
ExpireCeremony ==
    /\ pending # NoCeremony
    /\ pending' = NoCeremony
    /\ UNCHANGED <<columns, counters, stage, sent, loaded, history>>

\* FinishRegistration up to CreateCredential: the response answers the pending
\* challenge, which stays pending. Other responses are refused.
FinishRegistration(q, k, challenge) ==
    /\ stage[q] = "idle"
    /\ challenge = pending
    /\ stage' = [stage EXCEPT ![q] = "load"]
    /\ sent' = [sent EXCEPT ![q] = k]
    /\ UNCHANGED <<columns, pending, counters, loaded, history>>

\* Seeded fault: AddCredential starts from an empty list.
LoadNothing(q) ==
    /\ stage[q] = "load"
    /\ loaded' = [loaded EXCEPT ![q] = {}]
    /\ stage' = [stage EXCEPT ![q] = "save"]
    /\ UNCHANGED <<columns, pending, counters, sent, history>>

\* AddCredential: Load. A key registered again is appended again; the model
\* keeps which keys there are.
Load(q) ==
    /\ stage[q] = "load"
    /\ loaded' = [loaded EXCEPT ![q] = keys]
    /\ stage' = [stage EXCEPT ![q] = "save"]
    /\ UNCHANGED <<columns, pending, counters, sent, history>>

\* AddCredential: append and save, which sets the flag as well.
Save(q) ==
    /\ stage[q] = "save"
    /\ keys' = loaded[q] \cup {sent[q]}
    /\ SetEnabled(TRUE, "key")
    /\ missed' = [p \in Handler |->
                    IF p = q THEN {}
                    ELSE IF stage[p] = "save" THEN missed[p] \cup (keys' \ keys) ELSE missed[p]]
    /\ MoveTo(q, "idle")
    /\ UNCHANGED <<secret, pending, counters, undone>>

-----------------------------------------------------------------------------
(* handleLogin after the password is found right. *)

BeginSignIn(q) ==
    /\ stage[q] = "idle"
    /\ stage' = [stage EXCEPT ![q] = "flag"]
    /\ off' = IF enabled THEN off \ {q} ELSE off \cup {q}
    /\ accepted' = accepted \ {q}
    /\ UNCHANGED <<columns, pending, counters, sent, loaded, unasked, setters>>

\* The session is created; the codes accepted so far are those of these requests.
SignedIn(q, requests) ==
    /\ accepted' = requests
    /\ unasked' = (unasked \/ q \notin off \cup requests)
    /\ MoveTo(q, "idle")

Refused(q) == MoveTo(q, "idle") /\ UNCHANGED <<accepted, unasked>>

\* GetByUsername, and what the flag it brings decides.
ReadFlag(q) ==
    /\ stage[q] = "flag"
    /\ IF enabled THEN MoveTo(q, "code") /\ UNCHANGED <<accepted, unasked>>
                  ELSE SignedIn(q, accepted)
    /\ UNCHANGED <<columns, pending, counters, off, setters>>

\* Seeded fault: an error of Verify is not looked at, as when there is no secret.
VerifyUnlessError(q, c) ==
    /\ stage[q] = "code"
    /\ IF secret = NoSecret THEN SignedIn(q, accepted)
       ELSE IF c = secret THEN SignedIn(q, accepted \cup {q})
       ELSE Refused(q)
    /\ UNCHANGED <<columns, pending, counters, off, setters>>

\* Verify: secretFor and totp.Validate; an error is a refusal.
Verify(q, c) ==
    /\ stage[q] = "code"
    /\ IF secret # NoSecret /\ c = secret
       THEN SignedIn(q, accepted \cup {q})
       ELSE Refused(q)
    /\ UNCHANGED <<columns, pending, counters, off, setters>>

\* A query or call returns an error: the request is answered with it.
Fail(q) ==
    /\ DbMayFail
    /\ stage[q] # "idle"
    /\ MoveTo(q, "idle")
    /\ undone' = undone \ {q} /\ missed' = [missed EXCEPT ![q] = {}]
    /\ UNCHANGED <<columns, pending, counters, off, accepted, unasked, setBy>>

Handle(q) ==
    \/ CheckCode(q) \/ EnableTotp(q)
    \/ \E k \in Key, challenge \in Ceremony : FinishRegistration(q, k, challenge)
    \/ Load(q) \/ Save(q)
    \/ BeginSignIn(q) \/ ReadFlag(q)
    \/ \E c \in 0..enrolments : Verify(q, c)
    \/ Fail(q)

FactorNext ==
    \/ Enroll \/ Disable
    \/ BeginRegistration \/ ExpireCeremony
    \/ \E q \in Handler : Handle(q)

FactorSpec == FactorInit /\ [][FactorNext]_factorVars

-----------------------------------------------------------------------------
(* Properties. *)

\* Every variable has its type; the stored secret and the pending challenge are
\* ones that were generated.
FactorTypeOK ==
    /\ enabled \in BOOLEAN
    /\ enrolments \in 0..MaxSecrets /\ secret \in 0..enrolments
    /\ begun \in 0..MaxCeremonies /\ pending \in 0..begun
    /\ keys \subseteq Key
    /\ stage \in [Handler -> {"idle", "enable", "load", "save", "flag", "code"}]
    /\ sent \in [Handler -> Key \cup {NoKey}]
    /\ \A q \in Handler : sent[q] \in IF q \in Finishing THEN Key ELSE {NoKey}
    /\ loaded \in [Handler -> SUBSET Key]
    /\ off \subseteq Handler /\ accepted \subseteq Handler /\ unasked \in BOOLEAN
    /\ setBy \in {"nobody", "totp", "key", "late"} /\ undone \subseteq Confirming
    /\ missed \in [Handler -> SUBSET Key]

\* When mfa_enabled is set, the factor it was set for is stored: a secret if the last
\* to set it was a confirmation (totp.go:48), a key if it was a registration
\* (store.go:56), whatever enrolments, disablings and sign-ins went on meanwhile. Only
\* a confirmation whose check of the code a disabling followed enables nothing.
EnabledHasFactor ==
    enabled /\ setBy # "late" => IF setBy = "totp" THEN secret # NoSecret ELSE keys # {}

\* AddCredential writes the whole list back, as it was when it read it (store.go:56):
\* a step loses a key only where it ends a registration that had read the list before
\* that key appeared in it.
KeysKept ==
    [][\A k \in keys \ keys' :
          \E q \in AtStage("save") : stage'[q] = "idle" /\ k \in missed[q]]_factorVars

\* A sign-in during which the factors were on from beginning to end got through
\* only with a code of the secret that was stored when the code was verified.
\* The flag and the secret are read by two queries, between which either may
\* change.
FactorAsked == ~unasked
=============================================================================
