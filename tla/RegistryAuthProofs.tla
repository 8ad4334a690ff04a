------------------------- MODULE RegistryAuthProofs -------------------------
(***************************************************************************)
(* Proofs that the registry check sends no rejected token again and asks   *)
(* no host but the configured ones, for any scopes, hosts and number of    *)
(* tokens.                                                                 *)
(***************************************************************************)
EXTENDS RegistryAuth, TLAPS

-----------------------------------------------------------------------------
(* The inductive invariant. *)

\* A token is known only once it has been issued: a token that is issued now
\* is in no cache entry and has not been rejected before.
IssuedInv ==
    /\ \A s \in Scopes : cached[s] # NoToken => cached[s] <= issued
    /\ \A t \in rejected : t # Static => t <= issued

\* A token is cached under one scope at most, the one it was issued for, and
\* the token that get is about to send is in the cache, if at all, under the
\* scope of the request: the entry that invalidate drops is the only one.  A
\* realm is asked only when no token is configured.
CacheInv ==
    /\ \A s1, s2 \in Scopes : cached[s1] = cached[s2] /\ cached[s1] # NoToken => s1 = s2
    /\ pc = "send" =>
          IF static # NoToken THEN token = Static
          ELSE /\ token \in Tokens /\ token <= issued
               /\ \A s \in Scopes : cached[s] = token => s = scope
    /\ pc = "exchange" => static = NoToken

IInv ==
    /\ TypeOK
    /\ IssuedInv
    /\ CacheInv
    /\ RejectedTokenIsDropped
    /\ OnlyAllowedHostsAsked

-----------------------------------------------------------------------------
(* Steps *)

\* An authenticator that has done nothing satisfies the invariant.
LEMMA InitInv == Init => IInv
  <1> SUFFICES ASSUME Init PROVE IInv
    OBVIOUS
  <1>1. TypeOK
    BY RegistryAssumption DEF Init, TypeOK, Realms
  <1>2. IssuedInv /\ CacheInv /\ RejectedTokenIsDropped /\ OnlyAllowedHostsAsked
    BY DEF Init, IssuedInv, CacheInv, RejectedTokenIsDropped, OnlyAllowedHostsAsked
  <1> QED
    BY <1>1, <1>2 DEF IInv

\* A get that begins, is challenged or returns, and a change of the registry's
\* health, leave the cache and what has been rejected alone.
LEMMA QuietInv ==
    ASSUME IInv, \/ Request \/ BareAnswered \/ BareFails \/ Challenge
                 \/ ExchangeFails \/ SendAnswered \/ SendFails \/ Health
    PROVE  IInv'
  <1>1. TypeOK'
    BY DEF IInv, TypeOK, Request, BareAnswered, BareFails, Challenge, ExchangeFails,
           SendAnswered, SendFails, Health, Return, env
  <1>2. /\ UNCHANGED <<static, cached, issued, rejected, contacted>>
        /\ pc' = "send" => pc = "send" /\ UNCHANGED <<token, scope>>
        /\ pc' = "exchange" => pc = "exchange"
    BY DEF Request, BareAnswered, BareFails, Challenge, ExchangeFails,
           SendAnswered, SendFails, Health, Return, env
  <1> QED
    BY <1>1, <1>2 DEF IInv, IssuedInv, CacheInv, RejectedTokenIsDropped, OnlyAllowedHostsAsked

\* The configured token, the cached one or none: a cached token was issued for
\* the scope of the request and is none of the rejected ones.
LEMMA TokenInv ==
    ASSUME IInv, Token
    PROVE  IInv'
  <1>1. UNCHANGED <<static, insecure, valid, issued, healthy, cached, scope, realm, rejected>>
    BY DEF Token, env
  <1>2. CASE static # NoToken
    <2>1. token' = static /\ pc' = "send" /\ UNCHANGED <<contacted, outcome>>
      BY <1>2 DEF Token
    <2> QED
      BY <1>1, <1>2, <2>1
      DEF IInv, TypeOK, IssuedInv, CacheInv, RejectedTokenIsDropped, OnlyAllowedHostsAsked
  <1>3. CASE static = NoToken /\ cached[scope] # NoToken
    <2>1. token' = cached[scope] /\ pc' = "send" /\ UNCHANGED <<contacted, outcome>>
      BY <1>3 DEF Token
    <2>2. token' \in Tokens /\ token' <= issued /\ token' \notin rejected
      BY <1>3, <2>1 DEF IInv, TypeOK, IssuedInv, RejectedTokenIsDropped
    <2>3. TypeOK'
      BY <1>1, <2>1, <2>2 DEF IInv, TypeOK
    <2>4. CacheInv'
      BY <1>1, <1>3, <2>1, <2>2 DEF IInv, TypeOK, CacheInv
    <2> QED
      BY <1>1, <2>1, <2>2, <2>3, <2>4
      DEF IInv, IssuedInv, RejectedTokenIsDropped, OnlyAllowedHostsAsked
  <1>4. CASE static = NoToken /\ cached[scope] = NoToken
    <2>1. /\ pc' \in {"exchange", "idle"} /\ token' \in {token, NoToken}
          /\ outcome' \in {outcome, "error"}
          /\ contacted' = contacted \/
                (contacted' = contacted \cup {realm.host} /\ realm.host \in AllowedHosts)
      BY <1>4 DEF Token, CheckRealm, Return
    <2>2. TypeOK'
      BY <1>1, <2>1, RegistryAssumption DEF IInv, TypeOK
    <2> QED
      BY <1>1, <1>4, <2>1, <2>2
      DEF IInv, IssuedInv, CacheInv, RejectedTokenIsDropped, OnlyAllowedHostsAsked
  <1> QED
    BY <1>2, <1>3, <1>4

\* A hop of a redirect is followed to allowed hosts only.
LEMMA RedirectInv ==
    ASSUME IInv, Redirect
    PROVE  IInv'
  <1>1. /\ pc = "exchange"
        /\ UNCHANGED <<static, insecure, valid, issued, healthy, cached, scope, realm, rejected>>
        /\ pc' \in {"exchange", "idle"} /\ token' \in {token, NoToken}
        /\ outcome' \in {outcome, "error"}
        /\ contacted' = contacted \/ \E h \in AllowedHosts : contacted' = contacted \cup {h}
    BY DEF Redirect, CheckRedirect, Return, env
  <1>2. TypeOK'
    BY <1>1, RegistryAssumption DEF IInv, TypeOK
  <1> QED
    BY <1>1, <1>2
    DEF IInv, IssuedInv, CacheInv, RejectedTokenIsDropped, OnlyAllowedHostsAsked

\* A token that is issued is new.
LEMMA IssueInv ==
    ASSUME IInv, Issue
    PROVE  IInv'
  <1> DEFINE t == issued + 1
  <1>1. /\ pc = "exchange" /\ issued < MaxTokens
        /\ issued' = t /\ token' = t /\ pc' = "send" /\ valid' = valid \cup {t}
        /\ cached' \in {cached, [cached EXCEPT ![scope] = t]}
        /\ UNCHANGED <<static, insecure, healthy, scope, realm, rejected, contacted, outcome>>
    BY DEF Issue
  <1>2. issued \in Nat /\ t \in Tokens /\ t # NoToken
    BY <1>1, RegistryAssumption DEF IInv, TypeOK, Tokens
  <1>3. /\ \A s \in Scopes : cached[s] # t
        /\ t \notin rejected
    BY <1>2, RegistryAssumption DEF IInv, TypeOK, IssuedInv
  <1>4. TypeOK'
    BY <1>1, <1>2 DEF IInv, TypeOK, Tokens
  <1>5. IssuedInv'
    BY <1>1, <1>2 DEF IInv, TypeOK, IssuedInv, Tokens
  <1>6. \A s \in Scopes : cached'[s] = cached[s] \/ (s = scope /\ cached'[s] = t)
    BY <1>1 DEF IInv, TypeOK
  <1>7. static = NoToken
    BY <1>1 DEF IInv, CacheInv
  <1>8. CacheInv'
    BY <1>1, <1>2, <1>3, <1>6, <1>7 DEF IInv, CacheInv
  <1>9. RejectedTokenIsDropped'
    BY <1>1, <1>3, <1>6 DEF IInv, RejectedTokenIsDropped
  <1> QED
    BY <1>1, <1>4, <1>5, <1>8, <1>9 DEF IInv, OnlyAllowedHostsAsked

\* The entry that invalidate drops is the only one that could hold the token
\* the registry has just rejected.
LEMMA SendRejectedInv ==
    ASSUME IInv, SendRejected
    PROVE  IInv'
  <1>1. /\ pc = "send" /\ pc' = "idle" /\ outcome' = "error" /\ token' = NoToken
        /\ cached' = [cached EXCEPT ![scope] = NoToken]
        /\ rejected' = rejected \cup {token}
        /\ UNCHANGED <<static, insecure, valid, issued, healthy, scope, realm, contacted>>
    BY DEF SendRejected, Invalidate, Return, env
  <1>2. /\ token \in Tokens \cup {Static} /\ token # NoToken
        /\ token # Static => token <= issued
        /\ \A s \in Scopes : cached[s] = token => s = scope
    BY <1>1, RegistryAssumption DEF IInv, TypeOK, CacheInv
  <1>3. \A s \in Scopes : cached'[s] = IF s = scope THEN NoToken ELSE cached[s]
    BY <1>1 DEF IInv, TypeOK
  <1>4. TypeOK'
    BY <1>1, <1>2 DEF IInv, TypeOK
  <1>5. IssuedInv'
    BY <1>1, <1>2, <1>3 DEF IInv, IssuedInv
  <1>6. CacheInv'
    BY <1>1, <1>3 DEF IInv, CacheInv
  <1>7. NoToken \notin rejected'
    BY <1>1, <1>2, RegistryAssumption DEF IInv, TypeOK
  <1>8. RejectedTokenIsDropped'
    BY <1>1, <1>2, <1>3, <1>7 DEF IInv, RejectedTokenIsDropped
  <1> QED
    BY <1>1, <1>4, <1>5, <1>6, <1>8 DEF IInv, OnlyAllowedHostsAsked

\* A token that expires changes what the registry accepts, nothing else.
LEMMA ExpireInv ==
    ASSUME IInv, NEW t \in Tokens \cup {Static}, Expire(t)
    PROVE  IInv'
  <1>1. /\ valid' \subseteq valid
        /\ UNCHANGED <<static, insecure, issued, healthy, cached, pc, scope, realm,
                       token, rejected, contacted, outcome>>
    BY DEF Expire
  <1>2. TypeOK'
    BY <1>1 DEF IInv, TypeOK
  <1> QED
    BY <1>1, <1>2
    DEF IInv, IssuedInv, CacheInv, RejectedTokenIsDropped, OnlyAllowedHostsAsked

-----------------------------------------------------------------------------
\* Every step preserves the invariant.
LEMMA NextInv == IInv /\ [Next]_vars => IInv'
  <1> SUFFICES ASSUME IInv, [Next]_vars PROVE IInv'
    OBVIOUS
  <1>1. CASE \/ Request \/ BareAnswered \/ BareFails \/ Challenge
             \/ ExchangeFails \/ SendAnswered \/ SendFails \/ Health
    BY <1>1, QuietInv
  <1>2. CASE Token
    BY <1>2, TokenInv
  <1>3. CASE Redirect
    BY <1>3, RedirectInv
  <1>4. CASE Issue
    BY <1>4, IssueInv
  <1>5. CASE SendRejected
    BY <1>5, SendRejectedInv
  <1>6. CASE \E t \in Tokens \cup {Static} : Expire(t)
    BY <1>6, ExpireInv
  <1>7. CASE UNCHANGED vars
    BY <1>7 DEF vars, env, IInv, TypeOK, IssuedInv, CacheInv,
                RejectedTokenIsDropped, OnlyAllowedHostsAsked
  <1> QED
    BY <1>1, <1>2, <1>3, <1>4, <1>5, <1>6, <1>7 DEF Next, Get

\* The invariant holds in every state of every behaviour.
LEMMA Invariance == Spec => []IInv
  BY InitInv, NextInv, PTL DEF Spec

\* Every variable of the authenticator keeps its type. (authenticator)
THEOREM TypeCorrect == Spec => []TypeOK
  <1>1. IInv => TypeOK
    BY DEF IInv
  <1> QED
    BY <1>1, Invariance, PTL

\* A token that the registry has answered with 401 is in the cache under no
\* scope and is not sent again: invalidate drops one entry, and it is the only
\* one that can hold the token. (get, invalidate)
THEOREM RejectedTheorem == Spec => []RejectedTokenIsDropped
  <1>1. IInv => RejectedTokenIsDropped
    BY DEF IInv
  <1> QED
    BY <1>1, Invariance, PTL

\* No host is asked for a token but the configured ones, whatever challenges
\* and redirects name. (checkRealm, CheckRedirect)
THEOREM AllowedHostsTheorem == Spec => []OnlyAllowedHostsAsked
  <1>1. IInv => OnlyAllowedHostsAsked
    BY DEF IInv
  <1> QED
    BY <1>1, Invariance, PTL

=============================================================================
