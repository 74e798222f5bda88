----------------------------- MODULE JwtTokens -----------------------------
(***************************************************************************)
(* What the OAuth2 gate and its specification both talk about: the         *)
(* identity provider's signing keys, bearer tokens, and the requests that  *)
(* carry them.                                                             *)
(***************************************************************************)
EXTENDS Naturals, Sequences

CONSTANTS
    Request,        \* requests in flight at one time
    Key,            \* signing keys of the identity provider
    KeyAlg,         \* the algorithm each key signs with
    Undeclared,     \* keys published without their "alg" attribute
    KeySets,        \* what the JWKS endpoint may answer with
    Unavailable,    \* ... or no answer: timeout, refusal, a body that is no JWKS
    Tokens,         \* bearer tokens that requests may carry
    NoHeader,       \* a request without an Authorization header
    NoExp,          \* the expiry of a token without an exp claim
    Policies,       \* audience and issuer checks that may be configured
    ProviderLists,  \* authentication providers, in the order they are tried
    MaxTime         \* bound on the clock

\* A token names the key that signed it; "ours" is the configured value.
Audience == {"ours", "other", "none"}
\* Its nbf is the later of its claims nbf and iat, 0 without either.
Token == [key : Key, exp : Nat \cup {NoExp}, nbf : Nat,
          aud : Audience, client : Audience, iss : Audience]
Policy == [aud : BOOLEAN, iss : BOOLEAN]

ASSUME TokenAssumption ==
    /\ KeySets \subseteq SUBSET Key /\ Unavailable \notin KeySets
    /\ Undeclared \subseteq Key
    /\ Tokens \subseteq Token /\ NoHeader \notin Tokens
    /\ NoExp \notin Nat
    /\ Policies \subseteq Policy

\* JWKSAuthentication is "jwks"; a provider that first sends the caller to an
\* identity broker, which the AuthInterface allows, is a "flow".
ASSUME ProviderAssumption ==
    /\ ProviderLists \subseteq Seq({"jwks", "flow"})
    /\ \A list \in ProviderLists : Len(list) > 0

\* An OPTIONS request, a path of skip_endpoints, or anything else.
Kind == {"options", "public", "api"}
Credential == Tokens \cup {NoHeader}
Answer == KeySets \cup {Unavailable}

Expired(token, now) == token.exp # NoExp /\ token.exp < now
NotYet(token, now) == token.nbf > now

\* Amazon Cognito puts the audience of an access token in client_id.
AudienceOf(token) == IF token.aud = "none" THEN token.client ELSE token.aud

\* The algorithms of a key set that say so.
DeclaredAlgs(keys) == {KeyAlg[k] : k \in keys \ Undeclared}
=============================================================================
