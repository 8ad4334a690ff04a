---------------------------- MODULE RegistryAuth ----------------------------
(***************************************************************************)
(* How the registry reconciler authenticates (internal/reconciler/registry,*)
(* get and authenticator): a request is sent bare; a 401 with a Bearer     *)
(* challenge is answered with a token, configured, cached or fetched from  *)
(* the realm the challenge names; the request is sent once more.           *)
(*                                                                         *)
(* The requests of one reconciler follow one another.  The registry, the   *)
(* realm and the lifetime of tokens are the environment: a token may       *)
(* expire at any time, also between two requests of one sweep.             *)
(***************************************************************************)
EXTENDS Naturals, FiniteSets

CONSTANTS
    Scopes,         \* scopes the registry asks for (catalog, one per image)
    Hosts,          \* hosts a realm or a redirect may name
    AllowedHosts,   \* hosts of external_url, registry.url, registry.auth_realm
    MaxTokens,      \* bound: tokens the realm issues
    NoToken, Static \* no token; the configured one

Tokens == 1..MaxTokens

ASSUME RegistryAssumption ==
    /\ Scopes # {} /\ Hosts # {} /\ AllowedHosts \subseteq Hosts
    /\ MaxTokens \in Nat
    /\ NoToken \notin Tokens /\ Static \notin Tokens /\ NoToken # Static

VARIABLES
    static,     \* authenticator.static, or NoToken
    insecure,   \* authenticator.allowInsecure
    cached,     \* [Scopes -> token, or NoToken]
    pc,         \* where get is
    scope,      \* of the current request's challenge
    realm,      \* [host, https] of the challenge, or of a redirect
    token,      \* the token get is about to send
    valid,      \* tokens the registry would accept
    issued,     \* number of tokens issued
    healthy,    \* the registry challenges with an allowed realm, both answer,
                \* and tokens that are sent have not expired
    \* History, read by no action:
    rejected,   \* tokens the registry has answered with 401
    contacted,  \* hosts asked for a token
    outcome     \* of the last get

env == <<static, insecure, valid, issued, healthy>>
vars == <<env, cached, pc, scope, realm, token, rejected, contacted, outcome>>

Realms == [host : Hosts, scheme : {"https", "http", "other"}]

TypeOK ==
    /\ static \in {NoToken, Static}
    /\ insecure \in BOOLEAN
    /\ cached \in [Scopes -> Tokens \cup {NoToken}]
    /\ pc \in {"idle", "bare", "token", "exchange", "send"}
    /\ scope \in Scopes
    /\ realm \in Realms
    /\ token \in Tokens \cup {NoToken, Static}
    /\ valid \in SUBSET (Tokens \cup {Static})
    /\ issued \in 0..MaxTokens
    /\ healthy \in BOOLEAN
    /\ rejected \in SUBSET (Tokens \cup {Static})
    /\ contacted \in SUBSET Hosts
    /\ outcome \in {"none", "answered", "error"}

Init ==
    /\ static \in {NoToken, Static}
    /\ insecure \in BOOLEAN
    /\ cached = [s \in Scopes |-> NoToken]
    /\ pc = "idle"
    /\ scope = CHOOSE s \in Scopes : TRUE
    /\ realm = [host |-> CHOOSE h \in Hosts : TRUE, scheme |-> "https"]
    /\ token = NoToken
    /\ valid = {Static}
    /\ issued = 0
    /\ healthy \in BOOLEAN
    /\ rejected = {}
    /\ contacted = {}
    /\ outcome = "none"

-----------------------------------------------------------------------------
Return(o) ==
    /\ pc' = "idle" /\ outcome' = o
    /\ token' = NoToken

\* listRepositories or listTags begins a get.
Request ==
    /\ pc = "idle"
    /\ pc' = "bare"
    /\ \E s \in Scopes : scope' = s
    /\ UNCHANGED <<env, cached, realm, token, rejected, contacted, outcome>>

\* The bare request: an answer (any status but 401), a transport error, a
\* 401 that parseChallenge cannot use, or a challenge.
BareAnswered ==
    /\ pc = "bare" /\ ~healthy
    /\ Return("answered")
    /\ UNCHANGED <<env, cached, scope, realm, rejected, contacted>>

BareFails ==
    /\ pc = "bare" /\ ~healthy
    /\ Return("error")
    /\ UNCHANGED <<env, cached, scope, realm, rejected, contacted>>

Challenge ==
    /\ pc = "bare"
    /\ \E r \in Realms :
          /\ healthy => r.host \in AllowedHosts /\ r.scheme = "https"
          /\ realm' = r
    /\ pc' = "token"
    /\ UNCHANGED <<env, cached, scope, token, rejected, contacted, outcome>>

\* checkRealm
CheckRealm(r) ==
    /\ r.scheme = "https" \/ (r.scheme = "http" /\ insecure)
    /\ r.host \in AllowedHosts

\* Mutant: the configured token is cached as well.
TokenCachesStatic ==
    /\ pc = "token" /\ static # NoToken
    /\ token' = static /\ pc' = "send"
    /\ cached' = [cached EXCEPT ![scope] = static]
    /\ UNCHANGED <<env, scope, realm, rejected, contacted, outcome>>

\* token: the configured one, the cached one, or an exchange with the realm.
Token ==
    /\ pc = "token"
    /\ IF static # NoToken
       THEN token' = static /\ pc' = "send" /\ UNCHANGED <<contacted, outcome>>
       ELSE IF cached[scope] # NoToken
       THEN token' = cached[scope] /\ pc' = "send" /\ UNCHANGED <<contacted, outcome>>
       ELSE IF CheckRealm(realm)
       THEN /\ contacted' = contacted \cup {realm.host}
            /\ pc' = "exchange" /\ UNCHANGED <<token, outcome>>
       ELSE Return("error") /\ UNCHANGED contacted
    /\ UNCHANGED <<env, cached, scope, realm, rejected>>

\* Mutant: only the first URL is checked.
CheckRedirectNever(h) == TRUE

\* The realm redirects: every hop must name an allowed host.
CheckRedirect(h) == h \in AllowedHosts

Redirect ==
    /\ pc = "exchange" /\ ~healthy
    /\ \E h \in Hosts :
          IF CheckRedirect(h)
          THEN contacted' = contacted \cup {h} /\ UNCHANGED <<pc, token, outcome>>
          ELSE Return("error") /\ UNCHANGED contacted
    /\ UNCHANGED <<env, cached, scope, realm, rejected>>

\* The realm fails, answers with another status or without a token.
ExchangeFails ==
    /\ pc = "exchange" /\ (~healthy \/ issued = MaxTokens)
    /\ Return("error")
    /\ UNCHANGED <<env, cached, scope, realm, rejected, contacted>>

\* It issues a token; one that lives longer than two minutes is cached.
Issue ==
    /\ pc = "exchange" /\ issued < MaxTokens
    /\ issued' = issued + 1
    /\ valid' = valid \cup {issued + 1}
    /\ token' = issued + 1
    /\ \/ cached' = [cached EXCEPT ![scope] = issued + 1]
       \/ UNCHANGED cached
    /\ pc' = "send"
    /\ UNCHANGED <<static, insecure, healthy, scope, realm, rejected, contacted, outcome>>

\* The request is sent again, with the token.
SendAnswered ==
    /\ pc = "send" /\ token \in valid
    /\ Return("answered")
    /\ UNCHANGED <<env, cached, scope, realm, rejected, contacted>>

SendFails ==
    /\ pc = "send" /\ ~healthy
    /\ Return("error")
    /\ UNCHANGED <<env, cached, scope, realm, rejected, contacted>>

\* Mutant: the rejected token stays.
InvalidateNothing(s) == UNCHANGED cached

\* invalidate: the scope's cached token is dropped.
Invalidate(s) == cached' = [cached EXCEPT ![s] = NoToken]

SendRejected ==
    /\ pc = "send" /\ token \notin valid
    /\ Invalidate(scope)
    /\ rejected' = rejected \cup {token}
    /\ Return("error")
    /\ UNCHANGED <<env, scope, realm, contacted>>

-----------------------------------------------------------------------------
\* A token expires or is revoked.
Expire(t) ==
    /\ t \in valid
    /\ valid' = valid \ {t}
    /\ healthy => t # token
    /\ UNCHANGED <<static, insecure, issued, healthy, cached, pc, scope, realm,
                   token, rejected, contacted, outcome>>

Health ==
    /\ healthy' = ~healthy
    /\ UNCHANGED <<static, insecure, valid, issued, cached, pc, scope, realm,
                   token, rejected, contacted, outcome>>

Get ==
    \/ BareAnswered \/ BareFails \/ Challenge \/ Token \/ Redirect
    \/ ExchangeFails \/ Issue \/ SendAnswered \/ SendFails \/ SendRejected

Next ==
    \/ Request \/ Get \/ Health
    \/ \E t \in Tokens \cup {Static} : Expire(t)

Spec == Init /\ [][Next]_vars

\* A get goes on (its client has a 30 second timeout).
FairSpec == Spec /\ WF_vars(Get) /\ WF_vars(Request)

-----------------------------------------------------------------------------
(* Properties *)

\* A token that the registry has rejected is not sent again: it is in the
\* cache under no scope, so that one expiry costs one failed request and the
\* next one asks the realm anew. (invalidate)
RejectedTokenIsDropped ==
    /\ \A s \in Scopes : cached[s] \notin rejected
    /\ pc = "send" /\ static = NoToken => token \notin rejected

\* Only hosts the operator configured are ever asked for a token, whatever
\* realms and redirects name. (checkRealm, CheckRedirect)
OnlyAllowedHostsAsked == contacted \subseteq AllowedHosts

\* A registry that is well again is read again: stale tokens do not make the
\* check fail for ever, as long as the realm has tokens to issue and the
\* configured token, if any, is accepted.
RecoversFromExpiry ==
    <>[](healthy /\ issued < MaxTokens /\ (static # NoToken => Static \in valid))
        => []<>(outcome = "answered")

=============================================================================
