--------------------------------- MODULE Jwt ---------------------------------
(***************************************************************************)
(* The tokens of relay_rpc: what auth.rs and http.rs issue, jwt.rs encodes,*)
(* decodes and verifies.  Issuer and relay have wall clocks of their own   *)
(* that differ by up to MaxSkew.  Clocks and TTLs are in ticks, of which   *)
(* a second has TicksPerSecond; a token holds whole seconds.  The relay's  *)
(* verdict on a token is a function of the string and its clock, so it is  *)
(* an operator and not a step.                                             *)
(***************************************************************************)
EXTENDS Integers, Sequences

CONSTANTS
    Issuers,            \* calls that ask for a token, one each
    Keys,               \* key pairs; a key stands for its public half too
    Audiences,
    RelayAudiences,     \* those the relay accepts
    Ttls,               \* the TTLs asked for, in ticks
    Iats,               \* the explicit issue times asked for, in ticks
    Leeway,             \* JWT_VALIDATION_TIME_LEEWAY_SECS
    TicksPerSecond,
    MaxTimestamp,       \* i64::MAX
    MaxDuration,        \* the longest chrono::Duration, in ticks
    MaxDateTime,        \* the latest chrono::DateTime, in ticks
    MaxSkew,            \* bound: how far the clocks are apart
    MaxClock,           \* bound: the last tick
    None

ASSUME JwtAssumption ==
    /\ Ttls \subseteq Nat /\ Iats \subseteq Nat
    /\ Leeway \in Nat
    /\ TicksPerSecond \in Nat \ {0}
    /\ MaxTimestamp \in Nat /\ MaxDuration \in Nat /\ MaxDateTime \in Nat
    /\ MaxSkew \in Nat /\ MaxClock \in Nat
    /\ None \notin Int

VARIABLES
    issuerClock,
    relayClock,
    issued              \* what each call returned

jwtVars == <<issuerClock, relayClock, issued>>

(* DateTime::timestamp(), Duration::as_secs().                             *)
Seconds(ticks) == ticks \div TicksPerSecond

(* An i64 that overflowed, in a build without overflow checks.             *)
Wrapped(n) == IF n > MaxTimestamp THEN n - 2 * (MaxTimestamp + 1) ELSE n

Claims(key, aud, iat, exp) == [iss |-> key, aud |-> aud, iat |-> iat, exp |-> exp]
-----------------------------------------------------------------------------
(* A token is the sequence of its segments between the dots.  A segment    *)
(* decodes to a header, claims or a signature, or is broken: its length or *)
(* a symbol of it is none of base64.                                       *)
Header      == [alg |-> "EdDSA"]
OtherHeader == [alg |-> "none of ours"]
BadLength   == [broken |-> "length"]
BadSymbol   == [broken |-> "symbol"]

Sign(key, message) == [signer |-> key, message |-> message]

IsHeader(segment) == "alg" \in DOMAIN segment
IsClaims(segment) == "iss" \in DOMAIN segment

Encode(claims, key) == <<Header, claims, Sign(key, <<Header, claims>>)>>

FirstThree(token) == Len(token) > 2 /\ token[3] = Sign(token[2].iss, SubSeq(token, 1, 2))

(* The last segment is the signature of all the others.                    *)
Verifies(token) ==
    token[Len(token)] = Sign(token[2].iss, SubSeq(token, 1, Len(token) - 1))

Fails(error) == [error |-> error]

TryFromStr(token) ==
    IF Len(token) < 2 THEN Fails("format")
    ELSE IF \E n \in 1..2 : token[n] = BadLength THEN Fails("encoding")
    ELSE IF token[1] = BadSymbol THEN Fails("encoding")
    ELSE IF ~IsHeader(token[1])  THEN Fails("serialization")
    ELSE IF token[1] # Header    THEN Fails("header")
    ELSE IF token[2] = BadSymbol THEN Fails("encoding")
    ELSE IF ~IsClaims(token[2])  THEN Fails("serialization")
    ELSE IF ~Verifies(token)     THEN Fails("signature")
    ELSE [claims |-> token[2]]

Decodes(token) == "claims" \in DOMAIN TryFromStr(token)

NoLeeway(claims, now)    == claims.exp # None /\ now > claims.exp
TwiceLeeway(claims, now) == claims.exp # None /\ now - 2 * Leeway > claims.exp
Inverted(claims, now)    == claims.exp # None /\ now - Leeway < claims.exp

Expired(claims, now)     == claims.exp # None /\ now - Leeway > claims.exp
NotYetValid(claims, now) == now + Leeway < claims.iat

VerifyBasic(claims, now) ==
    IF Expired(claims, now) THEN "expired"
    ELSE IF NotYetValid(claims, now) THEN "notYetValid"
    ELSE IF claims.aud \in RelayAudiences THEN "ok" ELSE "audience"

(* What the relay makes of a string now: parse, then verify.               *)
Verdict(token) ==
    IF Decodes(token) THEN VerifyBasic(TryFromStr(token).claims, Seconds(relayClock))
                      ELSE TryFromStr(token).error
-----------------------------------------------------------------------------
Idle == [reply |-> "idle"]

(* A token as issued.  from and ttl are what was asked for, in ticks; fits *)
(* is false when the end of its life is none an i64 can hold.              *)
Issued(kind, claims, key, from, ttl, fits) ==
    [reply |-> "token", kind |-> kind, claims |-> claims, signer |-> key,
     from |-> from, ttl |-> ttl, fits |-> fits]

Reply(i, r) ==
    /\ issued[i] = Idle
    /\ issued' = [issued EXCEPT ![i] = r]
    /\ UNCHANGED <<issuerClock, relayClock>>

IssueTime(iat) == IF iat = None THEN issuerClock ELSE iat

Endless(from, ttl) == None

ExpOf(from, ttl) == IF ttl = None THEN None ELSE Seconds(from + ttl)

(* AuthToken::as_jwt(), encode_auth_token().                               *)
IssueAuth(i, key, aud, iat, ttl) ==
    LET from == IssueTime(iat)
    IN /\ ttl # None => ttl <= MaxDuration /\ from + ttl <= MaxDateTime
       /\ Reply(i, Issued("auth", Claims(key, aud, Seconds(from), ExpOf(from, ttl)),
                          key, from, ttl, TRUE))

(* The TTL is no chrono::Duration.                                         *)
IssueAuthInvalid(i, ttl) ==
    /\ ttl > MaxDuration
    /\ Reply(i, [reply |-> "invalidDuration"])

(* `iat + ttl` is no chrono::DateTime, and adding panics.                  *)
IssueAuthPanics(i, iat, ttl) ==
    /\ ttl <= MaxDuration /\ IssueTime(iat) + ttl > MaxDateTime
    /\ Reply(i, [reply |-> "panic"])

RegisterEnd(ttl) == Seconds(issuerClock) + Seconds(ttl)

(* The claims of watch_register(), whose sum of i64s panics in a debug     *)
(* build and wraps in a release build.                                     *)
IssueRegister(i, key, aud, ttl) ==
    /\ Seconds(ttl) <= MaxTimestamp
    /\ \/ Reply(i, Issued("register",
                          Claims(key, aud, Seconds(issuerClock), Wrapped(RegisterEnd(ttl))),
                          key, issuerClock, ttl, RegisterEnd(ttl) <= MaxTimestamp))
       \/ RegisterEnd(ttl) > MaxTimestamp /\ Reply(i, [reply |-> "panic"])

IssueRegisterInvalid(i, ttl) ==
    /\ Seconds(ttl) > MaxTimestamp
    /\ Reply(i, [reply |-> "invalidTtl"])

(* The claims of watch_unregister() do not expire.                         *)
IssueUnregister(i, key, aud) ==
    Reply(i, Issued("unregister", Claims(key, aud, Seconds(issuerClock), None),
                    key, issuerClock, None, TRUE))

AnyKey(iss, key) == TRUE

KeyMatches(iss, key) == iss = key

(* VerifyableClaims::encode() of claims that name their issuer.            *)
EncodeClaims(i, key, iss, aud) ==
    IF KeyMatches(iss, key)
    THEN Reply(i, Issued("claims", Claims(iss, aud, Seconds(issuerClock), None),
                         key, issuerClock, None, TRUE))
    ELSE Reply(i, [reply |-> "invalidKeypair"])

Near(a, b) == a - b <= MaxSkew /\ b - a <= MaxSkew

IssuerTick ==
    /\ issuerClock < MaxClock /\ Near(issuerClock + 1, relayClock)
    /\ issuerClock' = issuerClock + 1
    /\ UNCHANGED <<relayClock, issued>>

RelayTick ==
    /\ relayClock < MaxClock /\ Near(issuerClock, relayClock + 1)
    /\ relayClock' = relayClock + 1
    /\ UNCHANGED <<issuerClock, issued>>

JwtInit ==
    /\ issuerClock \in 0..MaxClock /\ relayClock \in 0..MaxClock
    /\ Near(issuerClock, relayClock)
    /\ issued = [i \in Issuers |-> Idle]

Issue(i) ==
    \/ \E key \in Keys, aud \in Audiences, iat \in Iats \cup {None}, ttl \in Ttls \cup {None} :
            IssueAuth(i, key, aud, iat, ttl)
    \/ \E iat \in Iats \cup {None}, ttl \in Ttls : IssueAuthPanics(i, iat, ttl)
    \/ \E ttl \in Ttls : IssueAuthInvalid(i, ttl) \/ IssueRegisterInvalid(i, ttl)
    \/ \E key \in Keys, aud \in Audiences, ttl \in Ttls : IssueRegister(i, key, aud, ttl)
    \/ \E key \in Keys, aud \in Audiences : IssueUnregister(i, key, aud)
    \/ \E key, iss \in Keys, aud \in Audiences : EncodeClaims(i, key, iss, aud)

JwtNext == IssuerTick \/ RelayTick \/ \E i \in Issuers : Issue(i)

JwtSpec == JwtInit /\ [][JwtNext]_jwtVars
-----------------------------------------------------------------------------
Tokens == {i \in Issuers : issued[i].reply = "token"}

Token(i) == Encode(issued[i].claims, issued[i].signer)

IsToken(r) ==
    /\ r.kind \in {"auth", "register", "unregister", "claims"}
    /\ r.claims \in [iss : Keys, aud : Audiences, iat : Nat, exp : Int \cup {None}]
    /\ r.signer \in Keys /\ r.from \in Nat /\ r.ttl \in Nat \cup {None} /\ r.fits \in BOOLEAN
    /\ r.claims.exp = None <=> r.ttl = None

(* The variables have their types; only a token with a TTL has an end.     *)
JwtTypeOK ==
    /\ issuerClock \in 0..MaxClock /\ relayClock \in 0..MaxClock
    /\ DOMAIN issued = Issuers
    /\ \A i \in Issuers : \/ issued[i].reply = "token" /\ IsToken(issued[i])
                          \/ issued[i].reply \in {"idle", "invalidDuration", "invalidTtl",
                                                  "invalidKeypair", "panic"}

Skew == IF issuerClock < relayClock THEN relayClock - issuerClock ELSE issuerClock - relayClock

(* How much of the leeway the rounding of a token's times uses up: a       *)
(* registration rounds the time and the TTL down, each on its own.         *)
Rounding(r) == IF r.kind = "register" THEN TicksPerSecond - 1 ELSE 0

Living(r) ==
    /\ r.from <= issuerClock
    /\ r.ttl # None => issuerClock <= r.from + r.ttl

(* A token is good for all the time its issuer asked for, by the issuer's  *)
(* clock, as long as the relay's clock is no further off than the leeway   *)
(* (auth.rs:105-118, http.rs:161-167, jwt.rs:213-224).                     *)
FreshAccepted ==
    \A i \in Tokens :
        LET r == issued[i]
        IN Living(r) /\ r.fits /\ Skew <= Leeway * TicksPerSecond - Rounding(r) =>
                Verdict(Token(i)) = IF r.claims.aud \in RelayAudiences THEN "ok" ELSE "audience"

(* No token is accepted more than the leeway and a second before or after  *)
(* the life its issuer asked for (jwt.rs:213-224).                         *)
StaleRefused ==
    \A i \in Tokens :
        LET r == issued[i]
            slack == (Leeway + 1) * TicksPerSecond
        IN Verdict(Token(i)) = "ok" =>
                /\ relayClock > r.from - slack
                /\ r.ttl # None => relayClock < r.from + r.ttl + slack

Phase(i) ==
    LET v == Verdict(Token(i))
    IN IF v = "notYetValid" THEN 1 ELSE IF v = "expired" THEN 3 ELSE 2

(* A token passes from not yet valid to valid to expired and never goes    *)
(* back, while the relay's clock does not (jwt.rs:213-224).                *)
PhasesInOrder == [][\A i \in Tokens : Phase(i) <= Phase(i)']_jwtVars

(* Whatever encode() or encode_auth_token() hands out decodes to its       *)
(* claims, whoever they name (jwt.rs:100-123, auth.rs:98-128).             *)
IssuedDecodes ==
    \A i \in Tokens : TryFromStr(Token(i)) = [claims |-> issued[i].claims]

(* The next token of the same issuer, and those of other keys that make   *)
(* the same claims.                                                        *)
Others(i) ==
    LET claims == issued[i].claims
    IN {Encode([claims EXCEPT !.iat = @ + 1], issued[i].signer)}
           \cup {Encode([claims EXCEPT !.iss = key], key) : key \in Keys}

(* Strings that arrive: a token, cut short, with one segment replaced by   *)
(* another or broken, or with one more.                                    *)
Pieces(i) ==
    (UNION {{t[n] : n \in 1..3} : t \in {Token(i)} \cup Others(i)})
        \cup {OtherHeader, BadLength, BadSymbol}

Arrivals ==
    UNION {{SubSeq(Token(i), 1, n) : n \in 1..3}
               \cup {[Token(i) EXCEPT ![n] = p] : n \in 1..3, p \in Pieces(i)}
               \cup {Append(Token(i), p) : p \in Pieces(i)} : i \in Tokens}

(* A string decodes only if it is, as a whole, a token that the issuer it  *)
(* names has signed: a segment too many or too few, or one of another      *)
(* token, is noticed (jwt.rs:132-193).                                     *)
DecodedWasIssued ==
    \A t \in Arrivals : Decodes(t) =>
        \E i \in Tokens : t = Token(i) /\ TryFromStr(t).claims.iss = issued[i].signer

(* The claims of watch tokens carry more than the basic ones, and other    *)
(* fields are ignored when they are decoded.                               *)
Fields(kind) ==
    CASE kind = "register"   -> {"act", "typ", "whu", "tag", "sts"}
      [] kind = "unregister" -> {"act", "typ", "whu"}
      [] OTHER               -> {}

Act(kind) == IF kind = "register" THEN "irn_watchRegister" ELSE "irn_watchUnregister"

(* Claims of one kind are decoded from a token of another.                 *)
DecodesAs(i, kind) == Decodes(Token(i)) /\ Fields(kind) \subseteq Fields(issued[i].kind)

(* watch.rs:63-64, of the claims with which a watcher unregisters:         *)
(* "Action. Must be `irn_watchUnregister`."                                *)
ActionMustBeUnregister ==
    \A i \in Tokens :
        DecodesAs(i, "unregister") => Act(issued[i].kind) = "irn_watchUnregister"
=============================================================================
