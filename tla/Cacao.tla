-------------------------------- MODULE Cacao --------------------------------
(***************************************************************************)
(* CACAO (relay_rpc/src/auth/cacao.rs and its modules): a wallet signs a   *)
(* message that is built from the payload, and a server rebuilds it from   *)
(* the payload that arrives, finds out who signed it, and takes the        *)
(* identity key from it.  The server (external) calls verify(),            *)
(* identity_key() and the decoding of domain.rs.                           *)
(*                                                                         *)
(* The message is one text, and a field may hold any text, line breaks and *)
(* labels too: Payload::validate() is not written yet.  A signature        *)
(* recovers its signer from the message it was made for, and another       *)
(* address from any other.                                                 *)
(***************************************************************************)
EXTENDS ClientIds, SequencesExt

CONSTANTS
    Payloads,       \* the payloads met
    Wallets,
    AddressOf,      \* [texts -> Wallets \cup {Nobody}]: 0x and case do not matter
    Signatures,     \* texts of a signature: [hex, length, scalars, recovery]
    Nobody,
    NoCacao

ASSUME CacaoAssumption ==
    /\ \A w \in Wallets : \E t \in DOMAIN AddressOf : AddressOf[t] = w
    /\ Nobody \notin Wallets
    /\ Signatures \subseteq [hex : BOOLEAN, length : Nat, scalars : BOOLEAN, recovery : 0..255]

(* Fields are texts, and so is every segment of the issuer.                *)
ASSUME PayloadAssumption ==
    \A p \in Payloads :
        /\ {p.domain, p.aud, p.version, p.nonce, p.iat} \subseteq Text
        /\ {p.statement, p.exp, p.nbf, p.requestId} \subseteq OptionOf(Text)
        /\ p.iss \in Seq(Text) /\ p.resources \in OptionOf(Seq(Text))

(* What the message is put together with, and that no base58 text has a    *)
(* line break.                                                             *)
ASSUME LabelAssumption ==
    /\ {" wants you to sign in with your Ethereum account:", "URI: ", "Version: ", "Chain ID: ",
        "Nonce: ", "Issued At: ", "Expiration Time: ", "Not Before: ", "Request ID: ",
        "Resources:", "- "} \subseteq STRING
    /\ LineBreak \notin DOMAIN Base58

VARIABLES
    signed,         \* the Cacaos that wallets have made
    received,       \* the Cacao a server has in hand
    verdict,        \* what verify() returns for it
    identity        \* the public key that the server takes from it, or an error

cacaoVars == <<signed, received, verdict, identity>>
-----------------------------------------------------------------------------
(* Payload: iss is the sequence of its segments between the delimiters.    *)
Segment(p, n) == IF Len(p.iss) > n THEN Ok(p.iss[n + 1]) ELSE Fails("payloadResources")

ChainId(p)   == Segment(p, 3)
Address(p)   == Segment(p, 4)

IdentityKeyFromResources(p) ==
    IF p.resources = None THEN Fails("payloadResources")
    ELSE IF p.resources[1] = <<>> THEN Fails("payloadIdentityKey")
    ELSE LET data == ExtractDidData(p.resources[1][1], "key")
         IN IF data.ok THEN data ELSE Fails("payloadIdentityKey")

IdentityKeyFromAudience(p) == ExtractDidData(p.aud, "key")

(* A variant that looks at the resources first.                            *)
ResourcesFirst(p) ==
    IF IdentityKeyFromResources(p).ok THEN IdentityKeyFromResources(p)
                                      ELSE IdentityKeyFromAudience(p)

IdentityKey(p) ==
    IF IdentityKeyFromAudience(p).ok THEN IdentityKeyFromAudience(p)
                                     ELSE IdentityKeyFromResources(p)
-----------------------------------------------------------------------------
Labeled(label, value) == <<LineBreak, label>> \o value

Optional(label, field) == IF field = None THEN <<>> ELSE Labeled(label, field[1])

Listed(p) == IF p.resources = None THEN <<>> ELSE p.resources[1]

ResourceLines(p) ==
    IF Listed(p) = <<>> THEN <<>>
    ELSE <<LineBreak, "Resources:">>
         \o FlattenSeq([n \in DOMAIN Listed(p) |-> Labeled("- ", Listed(p)[n])])

(* A variant that leaves out the line break that ends the statement.       *)
UnendedStatement(p) == IF p.statement = None THEN <<>> ELSE p.statement[1]

Statement(p) == IF p.statement = None THEN <<>> ELSE p.statement[1] \o <<LineBreak>>

(* Cacao::siwe_message().                                                  *)
SiweMessage(p) ==
    IF ~Address(p).ok \/ ~ChainId(p).ok THEN Fails("payloadResources")
    ELSE Ok(p.domain \o <<" wants you to sign in with your Ethereum account:", LineBreak>>
            \o Address(p).value \o <<LineBreak, LineBreak>> \o Statement(p)
            \o Labeled("URI: ", p.aud) \o Labeled("Version: ", p.version)
            \o Labeled("Chain ID: ", ChainId(p).value)
            \o Labeled("Nonce: ", p.nonce) \o Labeled("Issued At: ", p.iat)
            \o Optional("Expiration Time: ", p.exp) \o Optional("Not Before: ", p.nbf)
            \o Optional("Request ID: ", p.requestId) \o ResourceLines(p))

(* A variant that takes the recovery id as it is written.                  *)
RecoveredAsWritten(s, message) ==
    IF message = s.message /\ s.form.recovery = s.parity THEN s.signer ELSE Nobody

(* recover_from_digest() and the address of the key.                       *)
Recovered(s, message) ==
    IF message = s.message /\ s.form.recovery % 27 = s.parity THEN s.signer ELSE Nobody

SameAddress(s, address, message) ==
    Recovered(s, message) # Nobody /\ Recovered(s, message) = AddressOf[address]

(* Eip191::verify().  It indexes the bytes before it looks at their number,*)
(* and ignores those after the 65th.                                       *)
VerifyEip191(s, address, message) ==
    IF ~s.form.hex THEN Fails("verification")
    ELSE IF s.form.length < 64 THEN Fails("panic")
    ELSE IF ~s.form.scalars THEN Fails("verification")
    ELSE IF s.form.length < 65 THEN Fails("panic")
    ELSE IF s.form.recovery % 27 \notin 0..3 THEN Fails("verification")
    ELSE IF ~SameAddress(s, address, message) THEN Fails("verification")
    ELSE Ok(TRUE)

VerifySignature(c) ==
    IF c.signature.t # "eip191" THEN Fails("unsupportedSignature")
    ELSE IF ~SiweMessage(c.payload).ok THEN SiweMessage(c.payload)
    ELSE VerifyEip191(c.signature, Address(c.payload).value, SiweMessage(c.payload).value)

(* Cacao::verify(); the validation of the payload is not written yet.      *)
VerifyCacao(c) ==
    IF c.header # "eip4361" THEN Fails("header") ELSE VerifySignature(c)
-----------------------------------------------------------------------------
Nothing == [ok |-> FALSE, error |-> "nothing"]

CacaoInit ==
    /\ signed = {} /\ received = NoCacao
    /\ verdict = Nothing /\ identity = Nothing

(* A wallet signs what the application asks it to, also for an address     *)
(* that is not its own.  It writes the recovery id with or without 27.     *)
SignCacao(w) ==
    /\ signed = {}
    /\ \E p \in Payloads, parity \in {0, 1}, form \in Signatures :
          /\ SiweMessage(p).ok
          /\ form.hex /\ form.scalars /\ form.length = 65
          /\ form.recovery \in {parity, parity + 27}
          /\ signed' = {[header |-> "eip4361", payload |-> p,
                         signature |-> [t |-> "eip191", signer |-> w, parity |-> parity,
                                        message |-> SiweMessage(p).value, form |-> form]]}
    /\ UNCHANGED <<received, verdict, identity>>

(* What arrives for a signed Cacao: itself, or one with another payload,   *)
(* another signature text, or a header or type that is not known.          *)
Arrivals(c) ==
    {[header |-> c.header, payload |-> p, signature |-> c.signature] : p \in Payloads}
        \cup {[header |-> h, payload |-> c.payload,
               signature |-> [t |-> t, signer |-> c.signature.signer, parity |-> c.signature.parity,
                              message |-> c.signature.message, form |-> form]]
                 : h \in {c.header, "other"}, t \in {c.signature.t, "eip1271"}, form \in Signatures}

Receive(c) ==
    /\ received = NoCacao
    /\ received' \in Arrivals(c)
    /\ UNCHANGED <<signed, verdict, identity>>

Verify ==
    /\ received # NoCacao /\ verdict = Nothing
    /\ verdict' = VerifyCacao(received)
    /\ UNCHANGED <<signed, received, identity>>

ResolveIdentity(p) ==
    IF ~IdentityKey(p).ok THEN IdentityKey(p)
    ELSE IF ~ParseClientId(IdentityKey(p).value).ok THEN ParseClientId(IdentityKey(p).value)
    ELSE AsPublicKey(ParseClientId(IdentityKey(p).value).value)

(* identity_key(), ClientId::decode() and as_public_key().                 *)
TakeIdentity ==
    /\ verdict.ok /\ identity = Nothing
    /\ identity' = ResolveIdentity(received.payload)
    /\ UNCHANGED <<signed, received, verdict>>

CacaoNext ==
    \/ \E w \in Wallets : SignCacao(w)
    \/ \E c \in signed : Receive(c)
    \/ Verify \/ TakeIdentity

CacaoSpec == CacaoInit /\ [][CacaoNext]_cacaoVars
-----------------------------------------------------------------------------
(* What two payloads say to a person.  The method and the namespace of the *)
(* issuer are not part of it, nor is a list of resources that is empty.    *)
SaysTheSame(p, q) ==
    /\ p.domain = q.domain /\ p.aud = q.aud /\ p.version = q.version
    /\ p.nonce = q.nonce /\ p.iat = q.iat
    /\ p.statement = q.statement /\ p.exp = q.exp /\ p.nbf = q.nbf
    /\ p.requestId = q.requestId
    /\ Address(p) = Address(q) /\ ChainId(p) = ChainId(q)
    /\ Listed(p) = Listed(q)

(* What ties a signature to one relay and one use.                         *)
BindsTheSame(p, q) ==
    /\ p.aud = q.aud /\ p.version = q.version /\ p.nonce = q.nonce
    /\ ChainId(p) = ChainId(q)

(* The texts that the code puts into the message.                          *)
Written(p) ==
    {p.domain, Address(p).value, p.aud, p.version, ChainId(p).value, p.nonce, p.iat}
        \cup Range(Listed(p))
        \cup (UNION {Range(field) : field \in {p.statement, p.exp, p.nbf, p.requestId}})

OneLine(t) == LineBreak \notin Range(t)

(* Nothing in the code asks for it (payload.rs:28-31).                     *)
Unbroken(p) == \A t \in Written(p) : OneLine(t)

(* A server only accepts a Cacao when the wallet of the address in it      *)
(* signed a message for it: for the same audience, chain and nonce if no   *)
(* field of the payload that was signed, or of the one that arrives with   *)
(* the signature, has a line break; and one that says the same, in every   *)
(* field that is there and every one that is not, if neither has           *)
(* (cacao.rs:72-133, signature.rs:34-66).  Without these conditions two    *)
(* payloads may have the same message.                                     *)
VerifiedWasSigned ==
    verdict = Ok(TRUE) =>
        \E c \in signed :
            LET p == c.payload
                q == received.payload
            IN /\ c.signature.signer = AddressOf[Address(q).value]
               /\ Unbroken(p) \/ Unbroken(q) => BindsTheSame(p, q)
               /\ Unbroken(p) /\ Unbroken(q) => SaysTheSame(p, q)

(* A Cacao that a wallet signed for its own address is accepted, however   *)
(* it writes the recovery id and whatever optional fields there are        *)
(* (cacao.rs:72-133, signature.rs:34-66).                                  *)
SignedVerifies ==
    \A c \in signed :
        received = c /\ verdict # Nothing =>
            (verdict = Ok(TRUE) <=> c.signature.signer = AddressOf[Address(c.payload).value])

(* The key that a server takes from a Cacao is one that was named in what  *)
(* the wallet signed, if that has no line break in a field, whatever       *)
(* payload arrives with the signature: it is the audience, or the first    *)
(* resource when the audience is no did:key.  The DID is written in only   *)
(* one way, and read back to the key (payload.rs:76-97, domain.rs:99-195). *)
KeyWasNamed ==
    identity.ok =>
        \E c \in signed :
            LET p == c.payload
                did == ToDidKey(identity.value)
            IN Unbroken(p) =>
                  /\ TryFromDidKey(did) = Ok(identity.value)
                  /\ IF ExtractDidData(p.aud, "key").ok THEN p.aud = did
                     ELSE Listed(p) # <<>> /\ Listed(p)[1] = did
=============================================================================
