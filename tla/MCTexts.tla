------------------------------- MODULE MCTexts -------------------------------
(***************************************************************************)
(* ConnectionOptions and Cacao for TLC.  The two have nothing to do with   *)
(* each other: a behaviour is one of either.                               *)
(***************************************************************************)
EXTENDS ConnectionOptions, Cacao

MCAddresses == [parses : {TRUE}, host : BOOLEAN, query : {"own"}]
                  \cup {[parses |-> FALSE, host |-> FALSE, query |-> ""]}

MCOrigins == [value : {"origin"}, legal : BOOLEAN]

Join4(pieces) == pieces[1] \o <<"/">> \o pieces[2] \o <<"/">> \o pieces[3]
                     \o IF Len(pieces) = 3 THEN <<>> ELSE <<"/">> \o pieces[4]

Protocols == {<<"wc", "-", "7">>, <<"x", "-", "0", "7">>, <<"wc", "-", "+", "7">>, <<"wc">>,
              <<"-", "7">>, <<"wc", "-", "x">>, <<>>, <<"wc", "-", "7", "7", "7">>}
Sdks == {<<"js", "-", "7">>, <<"js", "-">>, <<"js">>, <<"-", "7">>, <<"x", "-", "7", "-", ":">>}
Oss  == {<<"ios">>, <<>>, <<"IOS", "-", "x", "-", "7", ".", "7">>}
Ids  == {<<"browser">>, <<"browser", ":">>, <<":", "x">>, <<>>, <<"x", ":", "x", "/", "x", ":", "x">>}

MCParsedTexts ==
    {<<>>, <<"x">>, <<"x", "/", "x">>}
        \cup {Join4(<<p, s, o>>) : p \in Protocols, s \in Sdks, o \in Oss}
        \cup {Join4(<<p, s, <<"ios">>, i>>) : p \in {<<"wc", "-", "7">>}, s \in Sdks, i \in Ids}
        \cup {Join4(<<<<"wc", "-", "7">>, <<"js", "-">>, <<"IOS", "-">> \o t>>)
                 : t \in BoundedSeq({"x", "7", "-", "."}, 5)}

MCBuilt ==
    [protocol : {[kind |-> [known |-> FALSE, text |-> <<"wc">>], version |-> <<"7">>],
                 [kind |-> Name(ProtocolKinds, <<"x">>), version |-> <<"0">>]},
     sdk : {[language |-> Name(SdkLanguages, <<"js">>), version |-> <<>>],
            [language |-> Name(SdkLanguages, <<"x">>), version |-> <<"7", "-", "x">>],
            [language |-> Name(SdkLanguages, <<>>), version |-> <<"7">>]},
     os : [family : {<<"ios">>, <<"IOS">>, <<"7">>},
           uaFamily : {None, Some(<<>>), Some(<<"x">>), Some(<<"7">>), Some(<<"x", "-", "7">>)},
           version : {None, Some(<<"7">>), Some(<<"7", ".", "7">>), Some(<<"7", "-", "7">>), Some(<<"x">>)}],
     id : {None, Some([environment |-> Name(Environments, <<"browser">>), host |-> None]),
           Some([environment |-> Name(Environments, <<"x">>), host |-> Some(<<"x", "/", ":">>)])}]
-----------------------------------------------------------------------------
(* Two keys, bytes that are no key, and what decodes to none of them.      *)
MCBytes  == {"k1", "k2", "off"}
MCPoints == {"k1", "k2"}

Decoded(length, header, bytes) == [length |-> length, header |-> header, bytes |-> bytes]

MCBase58 ==
    [b1 |-> Decoded(34, TRUE, "k1"), b2 |-> Decoded(34, TRUE, "k2"),
     boff |-> Decoded(34, TRUE, "off"), bshort |-> Decoded(8, TRUE, "k1"),
     blong |-> Decoded(35, TRUE, "k1"), bheader |-> Decoded(34, FALSE, "k1")]

Dids == {CombineDidData("key", <<"z", atom>>) : atom \in DOMAIN MCBase58}
            \cup {<<"did", ":", "key", ":", "b1">>, <<"did", ":", "key", ":", "z", "notBase58">>,
                  <<"did", ":", "pkh", ":", "z", "b1">>, <<"did", "key">>, <<"did", ":", "key">>}

Did1 == CombineDidData("key", <<"z", "b1">>)
Did2 == CombineDidData("key", <<"z", "b2">>)
Url  == <<"url">>

Wants == " wants you to sign in with your Ethereum account:"

(* The issuer of an address on a chain, and issuers that are too long or   *)
(* too short.                                                              *)
IssuerOf(chain, address) == <<<<"did">>, <<"pkh">>, <<"eip155">>, chain, address>>

Iss == IssuerOf(<<"1">>, <<"A">>)

Isss == {IssuerOf(<<"1">>, <<a>>) : a \in {"A", "a", "B", "x"}}
           \cup {IssuerOf(<<"2">>, <<"A">>), [Iss EXCEPT ![3] = <<"other">>], Iss \o <<<<"more">>>>,
                 SubSeq(Iss, 1, 4), SubSeq(Iss, 1, 3)}

Payload(iss, aud, resources, statement, exp, nbf, requestId) ==
    [iss |-> iss, aud |-> aud, resources |-> resources, statement |-> statement, exp |-> exp,
     nbf |-> nbf, requestId |-> requestId, domain |-> <<"d">>, version |-> <<"1">>,
     nonce |-> <<"n">>, iat |-> <<"t">>]

Times == {None, Some(<<"t">>)}

Plain == Payload(Iss, Url, Some(<<Did2>>), None, None, None, None)

(* Payloads with a line break in a field, or with labels in them, that     *)
(* have a message in common with others.                                   *)
BrokenPayloads ==
    LET Urls == Payload(Iss, Url, None, None, None, None, None)
    IN {[Plain EXCEPT !.iat = <<"t">> \o Labeled("Expiration Time: ", <<"t">>)],
        [Plain EXCEPT !.exp = Some(<<"t">> \o Labeled("Not Before: ", <<"t">>))],
        [Plain EXCEPT !.resources = None, !.requestId = Some(<<"t">> \o ResourceLines(Plain))],
        [Plain EXCEPT !.resources = Some(<<Did2 \o Labeled("- ", Url)>>)],
        [Plain EXCEPT !.resources = Some(<<Did2, Url>>)],
        [Plain EXCEPT !.aud = Did1 \o Labeled("Version: ", <<"1">>)],
        [Plain EXCEPT !.aud = Did1, !.version = <<"1">> \o Labeled("Version: ", <<"1">>)],
        [Plain EXCEPT !.statement = Some(<<>>)],
        [Plain EXCEPT !.statement = Some(<<LineBreak, "URI: ">> \o Url)],
        [Plain EXCEPT !.statement = Some(<<"URI: ">> \o Did1)],
        [Plain EXCEPT !.statement = Some(<<"t", Wants>>)],
        [Plain EXCEPT !.iss = IssuerOf(<<"1">>, <<"x", Wants>>), !.statement = Some(<<>>)],
        [Plain EXCEPT !.iss = IssuerOf(<<"1">>, <<>>), !.domain = <<"d", Wants, LineBreak, "x">>],
        [Plain EXCEPT !.iss = IssuerOf(<<"1">>, <<LineBreak>>)],
        [Plain EXCEPT !.iss = IssuerOf(<<"1">>, <<>>), !.statement = Some(<<"URI: ">> \o Did1)],
        [Plain EXCEPT !.nonce = <<"n">> \o Labeled("Issued At: ", <<"t">>)],
        [Plain EXCEPT !.iss = IssuerOf(<<"1">> \o Labeled("Nonce: ", <<"n">>), <<"A">>)],
        [Urls EXCEPT !.domain = <<"d", Wants, LineBreak, "A", LineBreak, LineBreak, LineBreak,
                                  "URI: ", "url">>]}

MCPayloads ==
    {Payload(iss, aud, resources, None, None, None, None)
        : iss \in Isss, aud \in {Did1, Url},
          resources \in {None, Some(<<>>), Some(<<Did2>>), Some(<<Url, Did2>>)}}
    \cup {Payload(Iss, aud, Some(<<Did2>>), None, None, None, None) : aud \in Dids}
    \cup {Payload(Iss, Url, Some(<<resource>>), None, None, None, None) : resource \in Dids}
    \cup {Payload(Iss, Url, Some(<<Did2>>), statement, exp, nbf, id)
             : statement, exp, nbf, id \in Times}
    \cup BrokenPayloads

(* What is no address of a wallet is nobody's.                             *)
MCAddressOf ==
    [a \in {Address(p).value : p \in {q \in MCPayloads : Address(q).ok}} |->
        CASE a \in {<<"A">>, <<"a">>} -> "w1" [] a = <<"B">> -> "w2" [] OTHER -> "nobody"]

SignatureText(hex, length, scalars, recovery) ==
    [hex |-> hex, length |-> length, scalars |-> scalars, recovery |-> recovery]

MCSignatures ==
    {SignatureText(TRUE, 65, TRUE, r) : r \in {0, 28}}
        \cup {SignatureText(TRUE, 66, TRUE, r) : r \in {0, 1, 2, 4, 27, 54}}
        \cup {SignatureText(TRUE, l, s, 27) : l \in {0, 63, 64}, s \in BOOLEAN}
        \cup {SignatureText(FALSE, 65, TRUE, 27), SignatureText(TRUE, 65, FALSE, 27)}
-----------------------------------------------------------------------------
CONSTANT NoOptions

textsVars == <<optionsVars, cacaoVars>>

TextsInit ==
    \/ OptionsInit /\ CacaoInit
    \/ /\ options = NoOptions /\ websocket = NoRequest /\ http = NoRequest
       /\ CacaoInit

TextsNext ==
    \/ options # NoOptions /\ OptionsNext /\ UNCHANGED cacaoVars
    \/ options = NoOptions /\ CacaoNext /\ UNCHANGED optionsVars

TextsSpec == TextsInit /\ [][TextsNext]_textsVars
=============================================================================
