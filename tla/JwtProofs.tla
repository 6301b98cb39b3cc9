------------------------------ MODULE JwtProofs ------------------------------
(***************************************************************************)
(* Proofs about the tokens of Jwt: for every leeway, resolution and skew of*)
(* the clocks, every set of TTLs and every width of the time stamps.       *)
(***************************************************************************)
EXTENDS Jwt, SequenceTheorems, TLAPS

LEMMA SecondsFloor ==
    ASSUME NEW t \in Nat
    PROVE  /\ Seconds(t) \in Nat
           /\ Seconds(t) * TicksPerSecond <= t
           /\ t < Seconds(t) * TicksPerSecond + TicksPerSecond
  BY JwtAssumption, SMT DEF Seconds

LEMMA FewerTicks ==
    ASSUME NEW a \in Int, NEW b \in Int,
           a * TicksPerSecond < b * TicksPerSecond + TicksPerSecond
    PROVE  a <= b
  BY JwtAssumption, SMT

LEMMA MoreTicks ==
    ASSUME NEW a \in Int, NEW b \in Int, a <= b
    PROVE  a * TicksPerSecond <= b * TicksPerSecond
  BY JwtAssumption, SMT

(* What a token's claims say of the life its issuer asked for.             *)
SaysItsLife(r) ==
    /\ r.claims.iss = r.signer
    /\ r.claims.iat = Seconds(r.from)
    /\ r.ttl # None /\ r.kind = "register" =>
            /\ r.claims.exp <= Seconds(r.from) + Seconds(r.ttl)
            /\ r.fits => r.claims.exp = Seconds(r.from) + Seconds(r.ttl)
    /\ r.ttl # None /\ r.kind # "register" => r.claims.exp = Seconds(r.from + r.ttl)

JwtInv ==
    /\ JwtTypeOK
    /\ \A i \in Tokens : SaysItsLife(issued[i])

(* One call returns; r is what it returned.                                *)
LEMMA ReplyKeeps ==
    ASSUME JwtInv, NEW i \in Issuers, NEW r, Reply(i, r),
           \/ r.reply \in {"invalidDuration", "invalidTtl", "invalidKeypair", "panic"}
           \/ r.reply = "token" /\ IsToken(r) /\ SaysItsLife(r)
    PROVE  JwtInv'
  <1>1. /\ issued' = [issued EXCEPT ![i] = r] /\ DOMAIN issued = Issuers
        /\ UNCHANGED <<issuerClock, relayClock>>
    BY DEF Reply, JwtInv, JwtTypeOK
  <1>2. /\ DOMAIN issued' = Issuers
        /\ issued'[i] = r /\ \A j \in Issuers : j # i => issued'[j] = issued[j]
    BY <1>1
  <1>3. JwtTypeOK'
    BY <1>1, <1>2 DEF JwtInv, JwtTypeOK
  <1>4. ASSUME NEW j \in Tokens' PROVE SaysItsLife(issued'[j])
    BY <1>2, <1>4 DEF JwtInv, Tokens
  <1> QED
    BY <1>3, <1>4 DEF JwtInv, Tokens, SaysItsLife

LEMMA WrappedBelow ==
    ASSUME NEW n \in Nat
    PROVE  /\ Wrapped(n) \in Int /\ Wrapped(n) <= n
           /\ n <= MaxTimestamp => Wrapped(n) = n
  BY JwtAssumption DEF Wrapped

LEMMA IssueKeeps ==
    ASSUME JwtInv, NEW i \in Issuers, Issue(i)
    PROVE  JwtInv'
  <1>c. issuerClock \in Nat
    BY JwtAssumption DEF JwtInv, JwtTypeOK
  <1>t. Ttls \subseteq Nat /\ Iats \subseteq Nat /\ None \notin Nat
    BY JwtAssumption
  <1>1. ASSUME NEW key \in Keys, NEW aud \in Audiences, NEW iat \in Iats \cup {None},
               NEW ttl \in Ttls \cup {None}, IssueAuth(i, key, aud, iat, ttl)
        PROVE  JwtInv'
    <2> DEFINE from == IssueTime(iat)
               exp == ExpOf(from, ttl)
               r == Issued("auth", Claims(key, aud, Seconds(from), exp), key, from, ttl, TRUE)
    <2>1. from \in Nat
      BY <1>c, <1>t DEF IssueTime
    <2>2. exp \in Int \cup {None} /\ (exp = None <=> ttl = None)
          /\ (ttl # None => exp = Seconds(from + ttl))
      <3>1. CASE ttl = None
        BY <3>1 DEF ExpOf
      <3>2. CASE ttl # None
        <4>1. from + ttl \in Nat
          BY <2>1, <3>2, <1>t
        <4>2. Seconds(from + ttl) \in Nat
          BY <4>1, SecondsFloor
        <4> QED
          BY <3>2, <4>2, <1>t DEF ExpOf
      <3> QED
        BY <3>1, <3>2
    <2>3. Reply(i, r)
      BY <1>1 DEF IssueAuth
    <2>4. ttl \in Nat \cup {None}
      BY <1>t
    <2> HIDE DEF from, exp
    <2>5. r.reply = "token" /\ IsToken(r) /\ SaysItsLife(r)
      BY <2>1, <2>2, <2>4, SecondsFloor DEF SaysItsLife, IsToken, Issued, Claims
    <2> HIDE DEF r
    <2> QED
      BY <2>3, <2>5, ReplyKeeps
  <1>2. ASSUME NEW key \in Keys, NEW aud \in Audiences, NEW ttl \in Ttls,
               IssueRegister(i, key, aud, ttl)
        PROVE  JwtInv'
    <2> DEFINE exp == Wrapped(RegisterEnd(ttl))
               fits == RegisterEnd(ttl) <= MaxTimestamp
               r == Issued("register", Claims(key, aud, Seconds(issuerClock), exp), key,
                           issuerClock, ttl, fits)
    <2>1. RegisterEnd(ttl) = Seconds(issuerClock) + Seconds(ttl) /\ RegisterEnd(ttl) \in Nat
      BY <1>c, <1>t, SecondsFloor DEF RegisterEnd
    <2>2. /\ exp \in Int /\ exp <= RegisterEnd(ttl)
          /\ fits \in BOOLEAN /\ (fits => exp = RegisterEnd(ttl))
      BY <2>1, WrappedBelow
    <2>3. ttl \in Nat /\ ttl # None /\ exp # None
      BY <1>t, <2>2, JwtAssumption
    <2>4. Reply(i, r) \/ Reply(i, [reply |-> "panic"])
      BY <1>2 DEF IssueRegister
    <2> HIDE DEF exp, fits
    <2>5. r.reply = "token" /\ IsToken(r) /\ SaysItsLife(r)
      BY <1>c, <2>1, <2>2, <2>3, SecondsFloor DEF SaysItsLife, IsToken, Issued, Claims
    <2> HIDE DEF r
    <2> QED
      BY <2>4, <2>5, ReplyKeeps
  <1>3. ASSUME NEW key \in Keys, NEW aud \in Audiences, NEW kind \in {"unregister", "claims"},
               Reply(i, Issued(kind, Claims(key, aud, Seconds(issuerClock), None), key,
                               issuerClock, None, TRUE))
        PROVE  JwtInv'
    <2> DEFINE r == Issued(kind, Claims(key, aud, Seconds(issuerClock), None), key,
                           issuerClock, None, TRUE)
    <2>1. r.reply = "token" /\ IsToken(r) /\ SaysItsLife(r)
      BY <1>c, SecondsFloor DEF SaysItsLife, IsToken, Issued, Claims
    <2> HIDE DEF r
    <2> QED
      BY <1>3, <2>1, ReplyKeeps DEF r
  <1>4. ASSUME NEW error \in {"invalidDuration", "invalidTtl", "invalidKeypair", "panic"},
               Reply(i, [reply |-> error])
        PROVE  JwtInv'
    BY <1>4, ReplyKeeps
  <1>5. CASE \E iat \in Iats \cup {None}, ttl \in Ttls : IssueAuthPanics(i, iat, ttl)
    BY <1>4, <1>5 DEF IssueAuthPanics
  <1>6. CASE \E ttl \in Ttls : IssueAuthInvalid(i, ttl) \/ IssueRegisterInvalid(i, ttl)
    BY <1>4, <1>6 DEF IssueAuthInvalid, IssueRegisterInvalid
  <1>7. CASE \E key \in Keys, aud \in Audiences : IssueUnregister(i, key, aud)
    BY <1>3, <1>7 DEF IssueUnregister
  <1>8. CASE \E key, iss \in Keys, aud \in Audiences : EncodeClaims(i, key, iss, aud)
    BY <1>3, <1>4, <1>8 DEF EncodeClaims, KeyMatches
  <1> QED
    BY <1>1, <1>2, <1>5, <1>6, <1>7, <1>8 DEF Issue

LEMMA JwtInvariant == JwtSpec => []JwtInv
  <1>1. JwtInit => JwtInv
    BY DEF JwtInit, JwtInv, JwtTypeOK, Tokens, Idle
  <1>2. JwtInv /\ [JwtNext]_jwtVars => JwtInv'
    <2> SUFFICES ASSUME JwtInv, [JwtNext]_jwtVars PROVE JwtInv'
      OBVIOUS
    <2>1. CASE \E i \in Issuers : Issue(i)
      BY <2>1, IssueKeeps
    <2>2. CASE IssuerTick \/ RelayTick \/ UNCHANGED jwtVars
      <3>1. UNCHANGED issued /\ issuerClock' \in 0..MaxClock /\ relayClock' \in 0..MaxClock
        BY <2>2, JwtAssumption DEF IssuerTick, RelayTick, jwtVars, JwtInv, JwtTypeOK
      <3> QED
        BY <3>1 DEF JwtInv, JwtTypeOK, Tokens, SaysItsLife
    <2> QED
      BY <2>1, <2>2 DEF JwtNext
  <1> QED
    BY <1>1, <1>2, PTL DEF JwtSpec

(* The clocks and every issued token have their types.                     *)
THEOREM JwtTypeCorrect == JwtSpec => []JwtTypeOK
  <1>1. JwtInv => JwtTypeOK
    BY DEF JwtInv
  <1> QED
    BY <1>1, JwtInvariant, PTL
-----------------------------------------------------------------------------
LEMMA SegmentsTold ==
    /\ Header # BadLength /\ Header # BadSymbol /\ IsHeader(Header)
    /\ \A c \in [iss : Keys, aud : Audiences, iat : Nat, exp : Int \cup {None}] :
            IsClaims(c) /\ c # BadLength /\ c # BadSymbol
  <1>1. "alg" \in DOMAIN Header /\ "alg" \notin DOMAIN BadLength /\ "alg" \notin DOMAIN BadSymbol
    BY DEF Header, BadLength, BadSymbol
  <1>2. "iss" \notin DOMAIN BadLength /\ "iss" \notin DOMAIN BadSymbol
    BY DEF BadLength, BadSymbol
  <1>3. \A c \in [iss : Keys, aud : Audiences, iat : Nat, exp : Int \cup {None}] :
            "iss" \in DOMAIN c
    OBVIOUS
  <1> QED
    BY <1>1, <1>2, <1>3 DEF IsHeader, IsClaims

LEMMA EncodedDecodes ==
    ASSUME NEW c \in [iss : Keys, aud : Audiences, iat : Nat, exp : Int \cup {None}]
    PROVE  TryFromStr(Encode(c, c.iss)) = [claims |-> c]
  <1> DEFINE message == <<Header, c>>
             signature == Sign(c.iss, message)
             token == <<Header, c, signature>>
  <1>1. token = Encode(c, c.iss)
    BY DEF Encode
  <1>2. Len(token) = 3 /\ token[1] = Header /\ token[2] = c /\ token[3] = signature
    BY DEF Encode
  <1>3. SubSeq(token, 1, Len(token) - 1) = message
    <2>1. SubSeq(token, 1, 2) = [n \in 1..2 |-> token[n]]
      BY DEF token
    <2>2. message = [n \in 1..2 |-> token[n]]
      BY DEF token, message
    <2>3. Len(token) - 1 = 2
      BY <1>2
    <2> HIDE DEF token, message
    <2> QED
      BY <2>1, <2>2, <2>3
  <1> HIDE DEF token
  <1>4. Verifies(token)
    BY <1>2, <1>3 DEF Verifies
  <1> QED
    BY <1>1, <1>2, <1>4, SegmentsTold, SMT DEF TryFromStr

LEMMA TokenDecodes ==
    ASSUME JwtInv, NEW i \in Tokens
    PROVE  TryFromStr(Token(i)) = [claims |-> issued[i].claims]
  <1>1. issued[i].claims \in [iss : Keys, aud : Audiences, iat : Nat, exp : Int \cup {None}]
        /\ issued[i].signer = issued[i].claims.iss
    BY DEF JwtInv, JwtTypeOK, IsToken, SaysItsLife, Tokens
  <1> QED
    BY <1>1, EncodedDecodes DEF Token

(* What encode() and encode_auth_token() hand out decodes to its claims.   *)
THEOREM IssuedDecodesCorrect == JwtSpec => []IssuedDecodes
  <1>1. JwtInv => IssuedDecodes
    BY TokenDecodes DEF IssuedDecodes
  <1> QED
    BY <1>1, JwtInvariant, PTL

LEMMA TokenVerdict ==
    ASSUME JwtInv, NEW i \in Tokens
    PROVE  Verdict(Token(i)) = VerifyBasic(issued[i].claims, Seconds(relayClock))
  <1>1. "claims" \in DOMAIN [claims |-> issued[i].claims]
        /\ [claims |-> issued[i].claims].claims = issued[i].claims
    OBVIOUS
  <1> QED
    BY <1>1, TokenDecodes DEF Verdict, Decodes

(* No token is accepted more than the leeway and a second outside the life *)
(* its issuer asked for.                                                   *)
THEOREM StaleRefusedCorrect == JwtSpec => []StaleRefused
  <1>1. ASSUME JwtInv, NEW i \in Tokens, Verdict(Token(i)) = "ok"
        PROVE  LET r == issued[i]
                   slack == (Leeway + 1) * TicksPerSecond
               IN /\ relayClock > r.from - slack
                  /\ r.ttl # None => relayClock < r.from + r.ttl + slack
    <2> DEFINE r == issued[i]
               now == Seconds(relayClock)
               T == TicksPerSecond
    <2>1. /\ r.from \in Nat /\ r.ttl \in Nat \cup {None} /\ relayClock \in Nat
          /\ r.claims.exp \in Int \cup {None} /\ (r.claims.exp = None <=> r.ttl = None)
          /\ SaysItsLife(r)
      BY JwtAssumption, <1>1 DEF JwtInv, JwtTypeOK, IsToken, Tokens
    <2>2. now + Leeway >= Seconds(r.from)
          /\ (r.ttl # None => now - Leeway <= r.claims.exp)
      <3>1. ~Expired(r.claims, now) /\ ~NotYetValid(r.claims, now)
        BY <1>1, TokenVerdict DEF VerifyBasic
      <3> QED
        BY <2>1, <3>1, SecondsFloor, JwtAssumption DEF Expired, NotYetValid, SaysItsLife
    <2>3. T \in Nat \ {0} /\ Leeway \in Nat /\ now \in Nat /\ Seconds(r.from) \in Nat
      BY <2>1, SecondsFloor, JwtAssumption
    <2>4. now * T <= relayClock /\ relayClock < now * T + T
      BY <2>1, SecondsFloor
    <2>5. Seconds(r.from) * T <= r.from /\ r.from < Seconds(r.from) * T + T
      BY <2>1, SecondsFloor
    <2>6. relayClock > r.from - (Leeway + 1) * T
      <3>1. (Seconds(r.from)) * T <= (now + Leeway) * T
        BY <2>2, <2>3, MoreTicks
      <3>2. (now + Leeway) * T = now * T + Leeway * T /\ (Leeway + 1) * T = Leeway * T + T
        BY <2>3, SMT
      <3> QED
        BY <2>1, <2>3, <2>4, <2>5, <3>1, <3>2, SMT
    <2>7. ASSUME r.ttl # None PROVE relayClock < r.from + r.ttl + (Leeway + 1) * T
      <3>1. r.claims.exp \in Int /\ r.ttl \in Nat
        BY <2>1, <2>7, JwtAssumption
      <3>2. r.claims.exp * T <= r.from + r.ttl
        <4>1. CASE r.kind = "register"
          <5>1. /\ Seconds(r.ttl) \in Nat /\ Seconds(r.ttl) * T <= r.ttl
                /\ r.claims.exp <= Seconds(r.from) + Seconds(r.ttl)
            BY <2>1, <2>7, <3>1, <4>1, SecondsFloor DEF SaysItsLife
          <5>2. r.claims.exp * T <= (Seconds(r.from) + Seconds(r.ttl)) * T
            BY <2>3, <3>1, <5>1, MoreTicks
          <5>3. (Seconds(r.from) + Seconds(r.ttl)) * T = Seconds(r.from) * T + Seconds(r.ttl) * T
            BY <2>3, <5>1, SMT
          <5> QED
            BY <2>1, <2>3, <2>5, <3>1, <5>1, <5>2, <5>3, SMT
        <4>2. CASE r.kind # "register"
          <5>1. r.from + r.ttl \in Nat /\ r.claims.exp = Seconds(r.from + r.ttl)
            BY <2>1, <2>7, <3>1, <4>2 DEF SaysItsLife
          <5> QED
            BY <5>1, SecondsFloor
        <4> QED
          BY <4>1, <4>2
      <3>3. now * T <= (r.claims.exp + Leeway) * T
        <4>1. now <= r.claims.exp + Leeway
          BY <2>2, <2>3, <2>7, <3>1
        <4> QED
          BY <2>3, <3>1, <4>1, MoreTicks
      <3>4. (r.claims.exp + Leeway) * T = r.claims.exp * T + Leeway * T
            /\ (Leeway + 1) * T = Leeway * T + T
        BY <2>3, <3>1, SMT
      <3> QED
        BY <2>1, <2>3, <2>4, <3>1, <3>2, <3>3, <3>4, SMT
    <2> QED
      BY <2>6, <2>7
  <1>2. JwtInv => StaleRefused
    BY <1>1 DEF StaleRefused
  <1> QED
    BY <1>2, JwtInvariant, PTL
-----------------------------------------------------------------------------
LEMMA SkewBounds ==
    ASSUME JwtInv
    PROVE  /\ issuerClock \in Nat /\ relayClock \in Nat /\ Skew \in Nat
           /\ relayClock <= issuerClock + Skew /\ issuerClock <= relayClock + Skew
  BY JwtAssumption DEF JwtInv, JwtTypeOK, Skew

(* A token is good for all the life its issuer asked for.                  *)
THEOREM FreshAcceptedCorrect == JwtSpec => []FreshAccepted
  <1>1. ASSUME JwtInv, NEW i \in Tokens, Living(issued[i]), issued[i].fits,
               Skew <= Leeway * TicksPerSecond - Rounding(issued[i])
        PROVE  ~Expired(issued[i].claims, Seconds(relayClock))
               /\ ~NotYetValid(issued[i].claims, Seconds(relayClock))
    <2> DEFINE r == issued[i]
               now == Seconds(relayClock)
               T == TicksPerSecond
    <2>1. /\ r.from \in Nat /\ r.ttl \in Nat \cup {None}
          /\ r.claims.exp \in Int \cup {None} /\ (r.claims.exp = None <=> r.ttl = None)
          /\ SaysItsLife(r)
      BY <1>1, JwtAssumption DEF JwtInv, JwtTypeOK, IsToken, Tokens
    <2>2. /\ issuerClock \in Nat /\ relayClock \in Nat /\ Skew \in Nat
          /\ relayClock <= issuerClock + Skew /\ issuerClock <= relayClock + Skew
      BY <1>1, SkewBounds
    <2>3. T \in Nat \ {0} /\ Leeway \in Nat /\ now \in Nat /\ Seconds(r.from) \in Nat
      BY <2>1, <2>2, SecondsFloor, JwtAssumption
    <2>4. now * T <= relayClock /\ relayClock < now * T + T
      BY <2>2, SecondsFloor
    <2>5. Seconds(r.from) * T <= r.from /\ r.from < Seconds(r.from) * T + T
      BY <2>1, SecondsFloor
    <2>6. /\ Rounding(r) \in Nat /\ Skew + Rounding(r) <= Leeway * T /\ Leeway * T \in Nat
          /\ r.from <= issuerClock /\ (r.ttl # None => issuerClock <= r.from + r.ttl)
      <3>1. Rounding(r) \in Nat /\ Leeway * T \in Nat
        BY <2>3 DEF Rounding
      <3> QED
        BY <1>1, <2>2, <3>1 DEF Living
    <2> HIDE DEF r, now, T
    <2>7. Seconds(r.from) <= now + Leeway
      <3>1. (now + Leeway) * T = now * T + Leeway * T
        BY <2>3, SMT
      <3>2. Seconds(r.from) * T < (now + Leeway) * T + T
        BY <2>1, <2>2, <2>3, <2>4, <2>5, <2>6, <3>1, SMT
      <3> QED
        BY <2>3, <3>2, FewerTicks DEF T
    <2>8. ASSUME r.ttl # None PROVE now <= r.claims.exp + Leeway
      <3>1. r.claims.exp \in Int /\ r.ttl \in Nat
        BY <2>1, <2>8
      <3>2. (r.claims.exp + Leeway) * T = r.claims.exp * T + Leeway * T
        BY <2>3, <3>1, SMT
      <3>3. r.from + r.ttl < r.claims.exp * T + T + Rounding(r)
        <4>1. CASE r.kind = "register"
          <5>1. /\ Seconds(r.ttl) \in Nat /\ r.ttl < Seconds(r.ttl) * T + T
                /\ r.claims.exp = Seconds(r.from) + Seconds(r.ttl)
            BY <1>1, <2>1, <2>8, <3>1, <4>1, SecondsFloor DEF SaysItsLife, r, T
          <5>2. r.claims.exp * T = Seconds(r.from) * T + Seconds(r.ttl) * T
            BY <2>3, <5>1, SMT
          <5>3. Rounding(r) = T - 1
            BY <4>1 DEF Rounding, T
          <5> QED
            BY <2>1, <2>3, <2>5, <3>1, <5>1, <5>2, <5>3, SMT
        <4>2. CASE r.kind # "register"
          <5>1. r.from + r.ttl \in Nat /\ r.claims.exp = Seconds(r.from + r.ttl)
            BY <2>1, <2>8, <3>1, <4>2 DEF SaysItsLife
          <5>2. Rounding(r) = 0
            BY <4>2 DEF Rounding
          <5>3. r.from + r.ttl < Seconds(r.from + r.ttl) * T + T
            BY <5>1, SecondsFloor DEF T
          <5> QED
            BY <2>3, <3>1, <5>1, <5>2, <5>3
        <4> QED
          BY <4>1, <4>2
      <3>4. now * T < (r.claims.exp + Leeway) * T + T
        BY <2>1, <2>2, <2>3, <2>4, <2>6, <2>8, <3>1, <3>2, <3>3, SMT
      <3> QED
        BY <2>3, <3>1, <3>4, FewerTicks DEF T
    <2>9. ~Expired(r.claims, now)
      BY <2>1, <2>3, <2>8 DEF Expired
    <2>10. ~NotYetValid(r.claims, now)
      BY <2>1, <2>3, <2>7 DEF NotYetValid, SaysItsLife
    <2> QED
      BY <2>9, <2>10 DEF r, now
  <1>2. JwtInv => FreshAccepted
    BY <1>1, TokenVerdict DEF FreshAccepted, VerifyBasic
  <1> QED
    BY <1>2, JwtInvariant, PTL
-----------------------------------------------------------------------------
LEMMA SecondsMonotone ==
    ASSUME NEW a \in Nat, NEW b \in Nat, a <= b
    PROVE  Seconds(a) <= Seconds(b)
  <1>1. Seconds(a) * TicksPerSecond < Seconds(b) * TicksPerSecond + TicksPerSecond
    BY SecondsFloor, JwtAssumption, SMT
  <1> QED
    BY <1>1, SecondsFloor, FewerTicks

LEMMA RepliesOnce ==
    ASSUME JwtInv, NEW j \in Issuers, Issue(j)
    PROVE  /\ UNCHANGED <<issuerClock, relayClock>>
           /\ \A i \in Tokens : issued'[i] = issued[i]
  <1>1. ASSUME NEW r, Reply(j, r)
        PROVE  /\ UNCHANGED <<issuerClock, relayClock>>
               /\ \A i \in Tokens : issued'[i] = issued[i]
    BY <1>1 DEF Reply, Idle, Tokens, JwtInv, JwtTypeOK
  <1> QED
    BY <1>1 DEF Issue, IssueAuth, IssueAuthPanics, IssueAuthInvalid, IssueRegister,
                IssueRegisterInvalid, IssueUnregister, EncodeClaims

(* A token passes from not yet valid to valid to expired, never back.      *)
THEOREM PhasesInOrderCorrect == JwtSpec => PhasesInOrder
  <1>1. ASSUME JwtInv, [JwtNext]_jwtVars, NEW i \in Tokens
        PROVE  Phase(i) <= Phase(i)'
    <2> DEFINE claims == issued[i].claims
               now == Seconds(relayClock)
               later == Seconds(relayClock')
    <2>1. issued'[i] = issued[i] /\ relayClock \in Nat /\ relayClock' \in Nat
          /\ relayClock <= relayClock'
      BY <1>1, RepliesOnce, JwtAssumption DEF JwtNext, IssuerTick, RelayTick, jwtVars,
                                              JwtInv, JwtTypeOK
    <2>2. now \in Nat /\ later \in Nat /\ now <= later
      BY <2>1, SecondsFloor, SecondsMonotone
    <2>3. /\ claims.iat \in Nat /\ claims.exp \in Int \cup {None}
          /\ TryFromStr(Token(i)) = [claims |-> claims]
      BY <1>1, TokenDecodes DEF JwtInv, JwtTypeOK, IsToken, Tokens
    <2>4. Verdict(Token(i)) = VerifyBasic(claims, now)
      BY <1>1, TokenVerdict
    <2>5. Verdict(Token(i))' = VerifyBasic(claims, later)
      <3>1. Token(i)' = Token(i)
        BY <2>1 DEF Token
      <3> QED
        BY <2>3, <3>1 DEF Verdict, Decodes
    <2>6. Expired(claims, now) => Expired(claims, later)
      BY <2>2, <2>3, JwtAssumption DEF Expired
    <2>7. NotYetValid(claims, later) => NotYetValid(claims, now)
      BY <2>2, <2>3, JwtAssumption DEF NotYetValid
    <2> HIDE DEF claims, now, later
    <2> QED
      BY <2>4, <2>5, <2>6, <2>7 DEF Phase, VerifyBasic
  <1>2. JwtInv /\ [JwtNext]_jwtVars => \A i \in Tokens : Phase(i) <= Phase(i)'
    BY <1>1
  <1> QED
    BY <1>2, JwtInvariant, PTL DEF JwtSpec, PhasesInOrder
-----------------------------------------------------------------------------
AnyClaims == [iss : Keys, aud : Audiences, iat : Nat, exp : Int \cup {None}]

LEMMA WhatDecodes ==
    ASSUME NEW t, Decodes(t)
    PROVE  /\ Len(t) >= 2 /\ t[1] = Header
           /\ IsClaims(t[2]) /\ t[2] # BadLength /\ t[2] # BadSymbol
           /\ Verifies(t) /\ TryFromStr(t) = [claims |-> t[2]]
  <1>1. \A error : "claims" \notin DOMAIN Fails(error)
    BY DEF Fails
  <1>2. \A error : TryFromStr(t) # Fails(error)
    BY <1>1 DEF Decodes
  <1> QED
    BY <1>2, SMT DEF TryFromStr

LEMMA TokenForm ==
    ASSUME NEW claims, NEW key
    PROVE  LET t == Encode(claims, key)
           IN /\ Len(t) = 3
              /\ t[1] = Header /\ t[2] = claims /\ t[3] = Sign(key, <<Header, claims>>)
  BY DEF Encode

(* A piece of a token is a header, claims or the signature of two segments.*)
IsPiece(p) ==
    \/ p \in {Header, OtherHeader, BadLength, BadSymbol}
    \/ p \in AnyClaims
    \/ \E key, claims : p = Sign(key, <<Header, claims>>)

LEMMA PiecesKnown ==
    ASSUME JwtInv, NEW i \in Tokens, NEW p \in Pieces(i)
    PROVE  IsPiece(p)
  <1>1. issued[i].claims \in AnyClaims
    BY DEF JwtInv, JwtTypeOK, IsToken, Tokens, AnyClaims
  <1>2. ASSUME NEW claims \in AnyClaims, NEW key, NEW n \in 1..3
        PROVE  IsPiece(Encode(claims, key)[n])
    <2>1. n = 1 \/ n = 2 \/ n = 3
      OBVIOUS
    <2>2. Encode(claims, key)[n] \in {Header, claims, Sign(key, <<Header, claims>>)}
      BY <2>1, TokenForm
    <2> QED
      BY <2>2 DEF IsPiece
  <1>3. ASSUME NEW t \in {Token(i)} \cup Others(i) PROVE \A n \in 1..3 : IsPiece(t[n])
    <2>1. CASE t = Token(i)
      BY <1>1, <1>2, <2>1 DEF Token
    <2>2. CASE t = Encode([issued[i].claims EXCEPT !.iat = @ + 1], issued[i].signer)
      <3>1. [issued[i].claims EXCEPT !.iat = @ + 1] \in AnyClaims
        BY <1>1 DEF AnyClaims
      <3> QED
        BY <1>2, <2>2, <3>1
    <2>3. ASSUME NEW key \in Keys, t = Encode([issued[i].claims EXCEPT !.iss = key], key)
          PROVE  \A n \in 1..3 : IsPiece(t[n])
      <3>1. [issued[i].claims EXCEPT !.iss = key] \in AnyClaims
        BY <1>1 DEF AnyClaims
      <3> QED
        BY <1>2, <2>3, <3>1
    <2> QED
      BY <2>1, <2>2, <2>3 DEF Others
  <1>4. \/ p \in UNION {{t[n] : n \in 1..3} : t \in {Token(i)} \cup Others(i)}
        \/ p \in {OtherHeader, BadLength, BadSymbol}
    BY DEF Pieces
  <1>5. CASE p \in {OtherHeader, BadLength, BadSymbol}
    BY <1>5 DEF IsPiece
  <1>6. CASE p \in UNION {{t[n] : n \in 1..3} : t \in {Token(i)} \cup Others(i)}
    <2>1. PICK t \in {Token(i)} \cup Others(i) : \E n \in 1..3 : p = t[n]
      BY <1>6
    <2> QED
      BY <1>3, <2>1
  <1> QED
    BY <1>4, <1>5, <1>6

(* Pieces of different kinds differ.                                       *)
LEMMA PiecesDiffer ==
    /\ Header # OtherHeader
    /\ \A c \in AnyClaims : c # Header /\ "message" \notin DOMAIN c
    /\ \A key, message : /\ ~IsClaims(Sign(key, message)) /\ Sign(key, message) # Header
                         /\ Sign(key, message).message = message
                         /\ "message" \in DOMAIN Sign(key, message)
    /\ "message" \notin DOMAIN Header /\ "message" \notin DOMAIN OtherHeader
    /\ "message" \notin DOMAIN BadLength /\ "message" \notin DOMAIN BadSymbol
    /\ ~IsClaims(Header) /\ ~IsClaims(OtherHeader)
  <1>1. Header # OtherHeader
    BY DEF Header, OtherHeader
  <1>2. \A c \in AnyClaims : DOMAIN c = {"iss", "aud", "iat", "exp"}
    BY DEF AnyClaims
  <1>3. DOMAIN Header = {"alg"} /\ DOMAIN OtherHeader = {"alg"}
        /\ DOMAIN BadLength = {"broken"} /\ DOMAIN BadSymbol = {"broken"}
    BY DEF Header, OtherHeader, BadLength, BadSymbol
  <1>4. \A key, message : /\ DOMAIN Sign(key, message) = {"signer", "message"}
                          /\ Sign(key, message).message = message
    BY DEF Sign
  <1> QED
    BY <1>1, <1>2, <1>3, <1>4 DEF IsClaims

(* Something of two segments is no message of one or of three.             *)
LEMMA SignedTwo ==
    ASSUME NEW p, IsPiece(p), NEW key, NEW message, p = Sign(key, message)
    PROVE  Len(message) = 2
  <1>1. "message" \in DOMAIN p /\ p.message = message
    BY PiecesDiffer
  <1>2. \E k, c : p = Sign(k, <<Header, c>>)
    BY <1>1, PiecesDiffer DEF IsPiece
  <1>3. PICK k, c : p = Sign(k, <<Header, c>>)
    BY <1>2
  <1>4. p.message = <<Header, c>>
    BY <1>3, PiecesDiffer
  <1> QED
    BY <1>1, <1>4

(* Cutting, changing and lengthening three segments.                       *)
LEMMA SegmentsCut ==
    ASSUME NEW a, NEW b, NEW d
    PROVE  LET t == <<a, b, d>>
           IN /\ Len(t) = 3 /\ t[1] = a /\ t[2] = b /\ t[3] = d
              /\ SubSeq(t, 1, 2) = <<a, b>> /\ SubSeq(t, 1, 3) = t
              /\ Len(SubSeq(t, 1, 1)) = 1
  <1> DEFINE t == <<a, b, d>>
  <1>1. Len(t) = 3 /\ t \in Seq({a, b, d}) /\ t[1] = a /\ t[2] = b /\ t[3] = d
    OBVIOUS
  <1>2. SubSeq(t, 1, 2) = <<a, b>>
    <2>1. SubSeq(t, 1, 2) = [n \in 1..2 |-> t[n]] /\ <<a, b>> = [n \in 1..2 |-> t[n]]
      OBVIOUS
    <2> QED
      BY <2>1
  <1> HIDE DEF t
  <1>3. SubSeq(t, 1, 3) = t
    BY <1>1, SubSeqFull
  <1>4. Len(SubSeq(t, 1, 1)) = 1
    BY <1>1
  <1> QED
    BY <1>1, <1>2, <1>3, <1>4 DEF t

LEMMA SegmentChanged ==
    ASSUME NEW a, NEW b, NEW d, NEW p
    PROVE  /\ [<<a, b, d>> EXCEPT ![1] = p] = <<p, b, d>>
           /\ [<<a, b, d>> EXCEPT ![2] = p] = <<a, p, d>>
           /\ [<<a, b, d>> EXCEPT ![3] = p] = <<a, b, p>>
  OBVIOUS

LEMMA SegmentAdded ==
    ASSUME NEW a, NEW b, NEW d, NEW p
    PROVE  LET u == Append(<<a, b, d>>, p)
           IN Len(u) = 4 /\ u[4] = p /\ Len(SubSeq(u, 1, 3)) = 3
  <1> DEFINE S == {a, b, d, p}
             t == <<a, b, d>>
             u == Append(t, p)
  <1>1. Len(t) = 3 /\ t \in Seq(S) /\ p \in S
    OBVIOUS
  <1> HIDE DEF S, t
  <1>2. u \in Seq(S) /\ Len(u) = Len(t) + 1 /\ u[Len(t) + 1] = p
    BY <1>1, AppendProperties
  <1> HIDE DEF u
  <1>3. u \in Seq(S) /\ Len(u) = 4 /\ u[4] = p
    BY <1>1, <1>2
  <1>4. Len(SubSeq(u, 1, 3)) = 3
    BY <1>3
  <1> QED
    BY <1>3, <1>4 DEF u, t

LEMMA ArrivedIsToken ==
    ASSUME JwtInv, NEW t \in Arrivals, Decodes(t)
    PROVE  \E i \in Tokens : t = Token(i) /\ TryFromStr(t).claims.iss = issued[i].signer
  <1>1. PICK i \in Tokens :
            \/ \E n \in 1..3 : t = SubSeq(Token(i), 1, n)
            \/ \E n \in 1..3, p \in Pieces(i) : t = [Token(i) EXCEPT ![n] = p]
            \/ \E p \in Pieces(i) : t = Append(Token(i), p)
    BY DEF Arrivals
  <1> DEFINE c == issued[i].claims
             k == issued[i].signer
             s == Sign(k, <<Header, c>>)
  <1>2. c \in AnyClaims /\ c.iss = k
    BY DEF JwtInv, JwtTypeOK, IsToken, Tokens, AnyClaims, SaysItsLife
  <1>3. Token(i) = <<Header, c, s>>
    BY DEF Token, Encode
  <1>4. /\ Len(t) >= 2 /\ t[1] = Header /\ IsClaims(t[2])
        /\ t[Len(t)] = Sign(t[2].iss, SubSeq(t, 1, Len(t) - 1))
    BY WhatDecodes DEF Verifies
  <1>5. TryFromStr(Token(i)).claims.iss = k
    BY <1>2, TokenDecodes
  <1> HIDE DEF c, k, s
  <1>6. ASSUME t = Token(i) PROVE TryFromStr(t).claims.iss = issued[i].signer
    BY <1>5, <1>6 DEF k
  <1>7. ASSUME NEW n \in 1..3, t = SubSeq(Token(i), 1, n) PROVE t = Token(i)
    <2>1. n = 1 \/ n = 2 \/ n = 3
      OBVIOUS
    <2>2. CASE n = 1
      <3>1. Len(t) = 1
        BY <1>3, <1>7, <2>2
      <3> QED
        BY <1>4, <3>1
    <2>3. CASE n = 2
      <3>1. Len(t) = 2 /\ t[2] = c
        BY <1>3, <1>7, <2>3
      <3>2. c = Sign(c.iss, SubSeq(t, 1, 1))
        BY <1>4, <3>1
      <3> QED
        BY <1>2, <3>2, PiecesDiffer
    <2>4. CASE n = 3
      BY <1>3, <1>7, <2>4, SegmentsCut
    <2> QED
      BY <2>1, <2>2, <2>3, <2>4
  <1>8. ASSUME NEW n \in 1..3, NEW p \in Pieces(i), t = [Token(i) EXCEPT ![n] = p]
        PROVE  t = Token(i)
    <2>1. t = IF n = 1 THEN <<p, c, s>> ELSE IF n = 2 THEN <<Header, p, s>> ELSE <<Header, c, p>>
      <3>1. n = 1 \/ n = 2 \/ n = 3
        OBVIOUS
      <3>2. [<<Header, c, s>> EXCEPT ![n] = p] = t
        BY <1>3, <1>8
      <3> QED
        BY <3>1, <3>2, SegmentChanged
    <2>2. \E x, y, z : t = <<x, y, z>>
      BY <2>1
    <2>3. t[3] = Sign(t[2].iss, <<Header, t[2]>>)
      <3>1. PICK x, y, z : t = <<x, y, z>>
        BY <2>2
      <3>2. Len(t) = 3 /\ SubSeq(t, 1, 2) = <<x, y>> /\ t[1] = x /\ t[2] = y
        BY <3>1, SegmentsCut
      <3>3. Len(t) - 1 = 2
        BY <3>2
      <3> QED
        BY <1>4, <3>2, <3>3
    <2>4. CASE n = 1
      BY <1>3, <1>4, <2>1, <2>4
    <2>5. CASE n = 2
      <3>1. s = Sign(p.iss, <<Header, p>>)
        BY <2>1, <2>3, <2>5
      <3>2. <<Header, c>> = <<Header, p>>
        BY <3>1, PiecesDiffer DEF s
      <3> QED
        BY <1>3, <2>1, <2>5, <3>2
    <2>6. CASE n = 3
      <3>1. p = Sign(c.iss, <<Header, c>>)
        BY <2>1, <2>3, <2>6
      <3> QED
        BY <1>2, <1>3, <2>1, <2>6, <3>1 DEF s
    <2> QED
      BY <2>4, <2>5, <2>6
  <1>9. ASSUME NEW p \in Pieces(i), t = Append(Token(i), p) PROVE FALSE
    <2>1. Len(t) = 4 /\ t[4] = p /\ Len(SubSeq(t, 1, 3)) = 3 /\ Len(t) - 1 = 3
      BY <1>3, <1>9, SegmentAdded
    <2>2. p = Sign(t[2].iss, SubSeq(t, 1, 3))
      BY <1>4, <2>1
    <2>3. IsPiece(p)
      BY PiecesKnown
    <2>4. Len(SubSeq(t, 1, 3)) = 2
      BY <2>2, <2>3, SignedTwo
    <2> QED
      BY <2>1, <2>4
  <1> QED
    BY <1>1, <1>6, <1>7, <1>8, <1>9

(* A string that arrives decodes only if it is a whole token, signed by    *)
(* the issuer that it names.                                               *)
THEOREM DecodedWasIssuedCorrect == JwtSpec => []DecodedWasIssued
  <1>1. JwtInv => DecodedWasIssued
    BY ArrivedIsToken DEF DecodedWasIssued
  <1> QED
    BY <1>1, JwtInvariant, PTL
=============================================================================
