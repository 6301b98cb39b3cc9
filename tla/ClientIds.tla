------------------------------ MODULE ClientIds ------------------------------
(***************************************************************************)
(* Client ids and DIDs: ClientId, DecodedClientId and DidKey of            *)
(* relay_rpc/src/domain.rs, and auth/did.rs.  Base58 text is one atom of a *)
(* text, and Base58 says what it decodes to.                               *)
(***************************************************************************)
EXTENDS Texts

CONSTANTS
    Base58,         \* [atoms -> [length : Nat, header : BOOLEAN, bytes : Bytes]]
    Bytes,          \* what 32 bytes may be
    Points,         \* those of them that are a point of the curve
    Ed25519Length   \* bytes of a key with its header

ASSUME ClientIdAssumption ==
    /\ Points \subseteq Bytes
    /\ Ed25519Length \in Nat
    /\ \A atom \in DOMAIN Base58 : Base58[atom] \in [length : Nat, header : BOOLEAN, bytes : Bytes]
    /\ \A bytes \in Bytes :
          \E atom \in DOMAIN Base58 :
             Base58[atom] = [length |-> Ed25519Length, header |-> TRUE, bytes |-> bytes]
    /\ \A a, b \in DOMAIN Base58 : Base58[a] = Base58[b] => a = b
-----------------------------------------------------------------------------
(* extract_did_data(): strips the prefix, the method and their delimiters. *)
ExtractDidData(t, method) ==
    IF ~HasPrefix(t, "did") THEN Fails("prefix")
    ELSE IF ~HasPrefix(Tail(t), ":") THEN Fails("format")
    ELSE IF ~HasPrefix(Tail(Tail(t)), method) THEN Fails("method")
    ELSE IF ~HasPrefix(Tail(Tail(Tail(t))), ":") THEN Fails("format")
    ELSE Ok(SubSeq(t, 5, Len(t)))

CombineDidData(method, data) == <<"did", ":", method, ":">> \o data

(* DecodedClientId::from_str(): the base, base58 into a buffer that is     *)
(* just long enough, the length, the header.                               *)
ParseClientId(t) ==
    LET decoded == Base58[t[2]]
    IN IF ~HasPrefix(t, "z") THEN Fails("base")
       ELSE IF Len(t) # 2 \/ t[2] \notin DOMAIN Base58 THEN Fails("encoding")
       ELSE IF decoded.length > Ed25519Length THEN Fails("encoding")
       ELSE IF decoded.length < Ed25519Length THEN Fails("length")
       ELSE IF ~decoded.header THEN Fails("header")
       ELSE Ok(decoded.bytes)

Encoded(bytes) ==
    CHOOSE atom \in DOMAIN Base58 :
        Base58[atom] = [length |-> Ed25519Length, header |-> TRUE, bytes |-> bytes]

ShowClientId(bytes) == <<"z", Encoded(bytes)>>

TryFromDidKey(t) ==
    LET data == ExtractDidData(t, "key")
    IN IF data.ok THEN ParseClientId(data.value) ELSE data

ToDidKey(bytes) == CombineDidData("key", ShowClientId(bytes))

(* as_public_key(): unwraps what is an error for bytes that are no point.  *)
AsPublicKey(bytes) == IF bytes \in Points THEN Ok(bytes) ELSE Fails("panic")
=============================================================================
