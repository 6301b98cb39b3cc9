-------------------------- MODULE ConnectionOptions --------------------------
(***************************************************************************)
(* ConnectionOptions of relay_client/src/lib.rs, and the user agent in it: *)
(* what the two clients make of the options of an application, each in its *)
(* own order, and what the relay (external) reads in it.                   *)
(***************************************************************************)
EXTENDS UserAgent, Functions

CONSTANTS
    Addresses,      \* [parses, host, query]: is it a URL, has it a host, its own query
    ProjectIds,
    Tokens,
    Origins,        \* [value, legal]: may it stand in a header
    ParsedTexts,    \* texts an application parses as its user agent
    BuiltAgents,    \* user agents an application puts together
    NoRequest

ASSUME OptionsAssumption ==
    /\ Addresses \subseteq [parses : BOOLEAN, host : BOOLEAN, query : STRING]
    /\ \A o \in Origins : o.legal \in BOOLEAN
    /\ ParsedTexts \subseteq Text
    /\ BuiltAgents \subseteq ValidUserAgents

VARIABLES
    options,        \* ConnectionOptions
    websocket,      \* the request of Client::connect(), or its error
    http            \* URL and headers of the HTTP client, or the error of its new()

optionsVars == <<options, websocket, http>>
-----------------------------------------------------------------------------
(* A user agent is parsed from a text, or built of its public fields.      *)
Parsed == {ParseUserAgent(t).value : t \in {t \in ParsedTexts : ParseUserAgent(t).ok}}

UserAgents == Parsed \cup {Valid(u) : u \in BuiltAgents}

(* new() and the with_...() methods; auth is a public field.               *)
Options ==
    [address : Addresses, projectId : ProjectIds, token : Tokens, by : {"query", "header"},
     origin : {None} \cup {Some(o) : o \in Origins},
     userAgent : {None} \cup {Some(u) : u \in UserAgents}]

(* as_url(): set_query() replaces a query that the address has.            *)
Query(o) ==
    [projectId |-> Some(o.projectId),
     auth |-> IF o.by = "query" THEN Some(o.token) ELSE None,
     ua |-> IF o.userAgent = None THEN None ELSE Some(Show(o.userAgent[1]))]

AsUrl(o) ==
    IF ~o.address.parses THEN Fails("url")
    ELSE Ok([address |-> o.address, query |-> Query(o)])

(* A variant that sends the token in the header whatever auth says.        *)
AlwaysBearer(o) ==
    IF o.origin # None /\ ~o.origin[1].legal THEN Fails("headers")
    ELSE Ok([authorization |-> Some(o.token),
             origin |-> IF o.origin = None THEN None ELSE Some(o.origin[1].value)])

(* update_request_headers().                                               *)
Headers(o) ==
    IF o.origin # None /\ ~o.origin[1].legal THEN Fails("headers")
    ELSE Ok([authorization |-> IF o.by = "header" THEN Some(o.token) ELSE None,
             origin |-> IF o.origin = None THEN None ELSE Some(o.origin[1].value)])

Request(url, headers) == Ok([url |-> url, headers |-> headers])

(* as_ws_request(): the URL, the request, which needs a host, the headers. *)
AsWsRequest(o) ==
    IF ~AsUrl(o).ok THEN AsUrl(o)
    ELSE IF ~o.address.host THEN Fails("transport")
    ELSE IF ~Headers(o).ok THEN Headers(o)
    ELSE Request(AsUrl(o).value, Headers(o).value)

Connect ==
    /\ websocket = NoRequest
    /\ websocket' = AsWsRequest(options)
    /\ UNCHANGED <<options, http>>

(* Client::new() of the HTTP client: the headers, then the URL.            *)
NewHttpClient ==
    /\ http = NoRequest
    /\ http' = IF ~Headers(options).ok THEN Headers(options)
               ELSE IF ~AsUrl(options).ok THEN AsUrl(options)
               ELSE Request(AsUrl(options).value, Headers(options).value)
    /\ UNCHANGED <<options, websocket>>

OptionsInit ==
    /\ options \in Options
    /\ websocket = NoRequest
    /\ http = NoRequest

OptionsNext == Connect \/ NewHttpClient

OptionsSpec == OptionsInit /\ [][OptionsNext]_optionsVars
-----------------------------------------------------------------------------
Made == {r \in {websocket, http} : r # NoRequest /\ r.ok}

(* The relay reads the credentials of a request, and its user agent.       *)
ReadTokens(r)    == r.value.url.query.auth \o r.value.headers.authorization
ReadUserAgent(r) == ParseUserAgent(r.value.url.query.ua[1])

(* The relay reads in every request what the application put in the        *)
(* options: the project, the token in one place and not in both, the       *)
(* origin, and a user agent that was parsed as the value it was parsed to, *)
(* however its text may be split (lib.rs:80-138, user_agent.rs).           *)
RelayReadsOptions ==
    \A r \in Made :
        /\ r.value.url.query.projectId = Some(options.projectId)
        /\ ReadTokens(r) = Some(options.token)
        /\ r.value.headers.origin # None <=> options.origin # None
        /\ r.value.url.query.ua = None <=> options.userAgent = None
        /\ \A ua \in Parsed :
                options.userAgent = Some(ua) => ReadUserAgent(r) = Ok(ua)

Free(t, atoms) == \A n \in DOMAIN t : t[n] \notin atoms

(* The fields of a user agent hold nothing that delimits it, and names     *)
(* that are in a table are not Unknown.                                    *)
WellFormed(u) ==
    /\ u.protocol.kind = Name(ProtocolKinds, u.protocol.kind.text)
    /\ u.protocol.kind.text # <<>> /\ Free(u.protocol.kind.text, {"-", "/"})
    /\ IsNumber(u.protocol.version) /\ Number(u.protocol.version) = u.protocol.version
    /\ u.sdk.language = Name(SdkLanguages, u.sdk.language.text)
    /\ u.sdk.language.text # <<>> /\ Free(u.sdk.language.text, {"-", "/"})
    /\ Free(u.sdk.version, {"/"})
    /\ u.os.family # <<>>
    /\ \A t \in {u.os.family} \cup Range(u.os.uaFamily) \cup Range(u.os.version) :
            Free(t, {"-", "/"}) /\ Lowercase(t) = t
    /\ \A t \in Range(u.os.version) : IsOsVersion(t)
    /\ \A i \in Range(u.id) :
            /\ i.environment = Name(Environments, i.environment.text)
            /\ i.environment.text # <<>> /\ Free(i.environment.text, {":"})

(* A user agent that an application builds of fields without delimiters is *)
(* read back as it is, with one exception: a user agent family without a   *)
(* version becomes a part of the operating system or its version           *)
(* (user_agent.rs:135-183).                                                *)
BuiltReadsBack ==
    \A r \in Made, u \in BuiltAgents :
        options.userAgent = Some(Valid(u)) /\ WellFormed(u) =>
            (ReadUserAgent(r) = Ok(Valid(u)) <=> (u.os.uaFamily # None => u.os.version # None))
=============================================================================
