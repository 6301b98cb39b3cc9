------------------------------ MODULE UserAgent ------------------------------
(***************************************************************************)
(* relay_rpc/src/user_agent.rs: user agents and their parts, from text     *)
(* (from_str) and to text (fmt).  Parsing yields Ok(value) or Fails(error).*)
(***************************************************************************)
EXTENDS Texts

CONSTANTS
    MaxVersionDigits    \* digits of the largest u32

ASSUME UserAgentAssumption == MaxVersionDigits \in Nat \ {0}

Digits == {"0", "7", "9"}

(* A name is one of the table of its enum, or Unknown.                     *)
Name(table, t) == [known |-> t \in table, text |-> t]

ProtocolKinds == {<<"wc">>}
SdkLanguages  == {<<"js">>, <<"swift">>, <<"kotlin">>, <<"csharp">>, <<"rust">>}
Environments  == {<<"browser">>, <<"react-native">>, <<"nodejs">>, <<"android">>, <<"ios">>}

(* The fields of ValidUserAgent and of what it is made of are public.      *)
Names == [known : BOOLEAN, text : Text]

ValidUserAgents ==
    [protocol : [kind : Names, version : Text],
     sdk : [language : Names, version : Text],
     os : [family : Text, uaFamily : OptionOf(Text), version : OptionOf(Text)],
     id : OptionOf([environment : Names, host : OptionOf(Text)])]
-----------------------------------------------------------------------------
(* u32::from_str(): digits, after an optional sign; zeros in front of the  *)
(* number do not count.                                                    *)
Unsigned(t) == IF HasPrefix(t, "+") /\ Len(t) > 1 THEN Tail(t) ELSE t

Number(t) ==
    LET digits == Unsigned(t)
        counting == {n \in DOMAIN digits : digits[n] # "0"}
    IN IF counting = {} THEN <<"0">> ELSE SubSeq(digits, Min(counting), Len(digits))

IsNumber(t) ==
    /\ t # <<>>
    /\ \A n \in DOMAIN Unsigned(t) : Unsigned(t)[n] \in Digits
    /\ Len(Number(t)) <= MaxVersionDigits

ParseProtocol(t) ==
    LET parts == SplitOnce(t, "-")
    IN IF Len(parts) = 2 /\ parts[1] # <<>> /\ IsNumber(parts[2])
       THEN Ok([kind |-> Name(ProtocolKinds, parts[1]), version |-> Number(parts[2])])
       ELSE Fails("protocol")

ShowProtocol(p) == p.kind.text \o <<"-">> \o p.version

ParseSdk(t) ==
    LET parts == SplitOnce(t, "-")
    IN IF Len(parts) = 2 /\ parts[1] # <<>>
       THEN Ok([language |-> Name(SdkLanguages, parts[1]), version |-> parts[2]])
       ELSE Fails("sdk")

ShowSdk(s) == s.language.text \o <<"-">> \o s.version

ParseId(t) ==
    LET parts == SplitOnce(t, ":")
    IN IF parts[1] # <<>>
       THEN Ok([environment |-> Name(Environments, parts[1]), host |-> Tail(parts)])
       ELSE Fails("id")

ShowId(i) ==
    i.environment.text \o IF i.host = None THEN <<>> ELSE <<":">> \o i.host[1]
-----------------------------------------------------------------------------
(* `([\d]+)(.([\d]+))?(.([\d]+))?`: the dots are any one character, so a   *)
(* version has up to two separators of any kind; a word is one character.  *)
IsOsVersion(t) ==
    LET separators == {n \in DOMAIN t : t[n] \notin Digits}
    IN /\ t # <<>>
       /\ Cardinality(separators) <= 2
       /\ \A n \in separators : n \notin {1, Len(t)} /\ n + 1 \notin separators

ShowOs(o) ==
    o.family \o (IF o.uaFamily = None THEN <<>> ELSE <<"-">> \o o.uaFamily[1])
             \o (IF o.version = None THEN <<>> ELSE <<"-">> \o o.version[1])

Os(family, uaFamily, version) == [family |-> family, uaFamily |-> uaFamily, version |-> version]

(* A variant that takes all there is for the version.                      *)
MatchVersionFirst(t) ==
    LET first == Min(Positions(t, "-"))
    IN IF Positions(t, "-") # {} /\ first > 1 /\ IsOsVersion(After(t, first))
       THEN Os(Before(t, first), None, Some(After(t, first))) ELSE Os(t, None, None)

(* The regular expression takes the family up to the first "-", then, if   *)
(* it can, the shortest user agent family that leaves a version behind.    *)
MatchOs(t) ==
    LET first == Min(Positions(t, "-"))
        cuts == {n \in Positions(t, "-") : n > first /\ IsOsVersion(After(t, n))}
    IN IF Positions(t, "-") = {} \/ first = 1 THEN Os(t, None, None)
       ELSE IF cuts # {}
       THEN Os(Before(t, first), Some(SubSeq(t, first + 1, Min(cuts) - 1)),
               Some(After(t, Min(cuts))))
       ELSE IF IsOsVersion(After(t, first))
       THEN Os(Before(t, first), None, Some(After(t, first)))
       ELSE Os(t, None, None)

ParseOs(t) == IF t = <<>> THEN Fails("os") ELSE Ok(MatchOs(Lowercase(t)))
-----------------------------------------------------------------------------
(* ValidUserAgent: the pieces of splitn(4, "/"), parsed in this order.     *)
Pieces(t) ==
    LET p == SplitOnce(t, "/")
        q == SplitOnce(p[2], "/")
        r == SplitOnce(q[2], "/")
    IN IF Len(p) = 1 THEN p ELSE IF Len(q) = 1 THEN <<p[1], q[1]>> ELSE <<p[1], q[1]>> \o r

ParseValid(t) ==
    LET pieces == Pieces(t)
        protocol == ParseProtocol(pieces[1])
        sdk == ParseSdk(pieces[2])
        os == ParseOs(pieces[3])
        id == IF Len(pieces) = 4 THEN ParseId(pieces[4]) ELSE Ok(None)
    IN IF t = <<>> \/ Len(pieces) < 3 THEN Fails("userAgent")
       ELSE IF ~protocol.ok THEN protocol
       ELSE IF ~sdk.ok THEN sdk
       ELSE IF ~os.ok THEN os
       ELSE IF ~id.ok THEN id
       ELSE Ok([protocol |-> protocol.value, sdk |-> sdk.value, os |-> os.value,
                id |-> IF Len(pieces) = 4 THEN Some(id.value) ELSE None])

ShowValid(u) ==
    ShowProtocol(u.protocol) \o <<"/">> \o ShowSdk(u.sdk) \o <<"/">> \o ShowOs(u.os)
        \o IF u.id = None THEN <<>> ELSE <<"/">> \o ShowId(u.id[1])

(* UserAgent: a text that is no valid user agent is kept as it is.         *)
Unknown(t) == [unknown |-> t]
Valid(u)   == [valid |-> u]

ParseUserAgent(t) ==
    IF t = <<>> THEN Fails("userAgent")
    ELSE IF ParseValid(t).ok THEN Ok(Valid(ParseValid(t).value))
    ELSE Ok(Unknown(t))

Show(ua) == IF "valid" \in DOMAIN ua THEN ShowValid(ua.valid) ELSE ua.unknown
=============================================================================
