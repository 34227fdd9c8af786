----------------------------- MODULE TokenStore -----------------------------
(***************************************************************************)
(* The gateway's bearer token and its reload on SIGHUP                     *)
(* (src/services/cmd/gateway/gateway_token.go, auth.go).  The signal       *)
(* channel has room for one signal: signal.Notify drops a SIGHUP that      *)
(* finds it full.  reload reads the secrets file before it takes the       *)
(* store's lock, so the file may change, and another SIGHUP arrive, between*)
(* the read and the store.                                                 *)
(***************************************************************************)
CONSTANTS
    Token,     \* the values gateway_token takes
    NoToken    \* "": the key or the file is absent, authentication is off

VARIABLES
    secrets,     \* what loadGatewayToken finds in the secrets file
    tokenStore,  \* tokenStore.token
    sighup,      \* TRUE while the signal channel holds a SIGHUP
    reloading,   \* the value a reload in progress has read, or NoReload
    unsignalled, \* history: the file changed after the last SIGHUP was sent
    verdict      \* the answer of the last authenticated request

tokenVars == <<secrets, tokenStore, sighup, reloading, unsignalled, verdict>>

NoReload == "no reload"
TokenOrNone == Token \cup {NoToken}

TokenInit ==
    /\ secrets = NoToken
    /\ tokenStore = secrets
    /\ sighup = FALSE
    /\ reloading = NoReload
    /\ unsignalled = FALSE
    /\ verdict = "none"

\* The operator replaces the secrets file, or removes it.
EditSecrets(t) ==
    /\ t # secrets
    /\ secrets' = t
    /\ unsignalled' = TRUE
    /\ UNCHANGED <<tokenStore, sighup, reloading, verdict>>

SendSIGHUP ==
    /\ sighup' = TRUE
    /\ unsignalled' = FALSE
    /\ UNCHANGED <<secrets, tokenStore, reloading, verdict>>

ReloadRead ==
    /\ sighup /\ reloading = NoReload
    /\ sighup' = FALSE
    /\ reloading' = secrets
    /\ UNCHANGED <<secrets, tokenStore, unsignalled, verdict>>

\* A plausible slip: a reload that finds no token keeps the old one.
MutReloadKeeps ==
    /\ reloading # NoReload
    /\ tokenStore' = IF reloading = NoToken THEN tokenStore ELSE reloading
    /\ reloading' = NoReload
    /\ UNCHANGED <<secrets, sighup, unsignalled, verdict>>

ReloadStore ==
    /\ reloading # NoReload
    /\ tokenStore' = reloading
    /\ reloading' = NoReload
    /\ UNCHANGED <<secrets, sighup, unsignalled, verdict>>

\* bearerAuthMiddleware on a request that carries the header of token t.
Authenticate(t) ==
    /\ verdict' = IF tokenStore = NoToken \/ t = tokenStore THEN "pass" ELSE "401"
    /\ UNCHANGED <<secrets, tokenStore, sighup, reloading, unsignalled>>

TokenNext ==
    \/ \E t \in TokenOrNone : EditSecrets(t) \/ Authenticate(t)
    \/ SendSIGHUP
    \/ ReloadRead
    \/ ReloadStore

TokenFairness == WF_tokenVars(ReloadRead) /\ WF_tokenVars(ReloadStore)
TokenSpec == TokenInit /\ [][TokenNext]_tokenVars /\ TokenFairness

-----------------------------------------------------------------------------
TokenTypeOK ==
    /\ {secrets, tokenStore} \subseteq TokenOrNone
    /\ sighup \in BOOLEAN /\ unsignalled \in BOOLEAN
    /\ reloading \in TokenOrNone \cup {NoReload}
    /\ verdict \in {"none", "pass", "401"}

\* A token revoked by an edit and a SIGHUP is out of use sooner or later,
\* unless the file is edited again.
ReloadTakesEffect ==
    \A t \in TokenOrNone :
        secrets = t /\ ~unsignalled ~> tokenStore = t \/ secrets # t
=============================================================================
