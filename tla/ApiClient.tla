------------------------------ MODULE ApiClient ------------------------------
(* The generated HTTP client and the calls the application makes with it:    *)
(* frontend/src/client/client/client.gen.ts and sdk.gen.ts, set up by        *)
(* main.tsx, called by features/api/fdeApi.ts and hooks/useAuth.ts.          *)
(* Requests overlap: what one is made of must not reach another.             *)
EXTENDS Serialization

CONSTANTS
    Ids,         \* texts that identify a record: of links, or typed in (jobs/index.tsx)
    Words,       \* texts the user searches for
    Cursors,     \* next_cursor values; Absent on the first page
    Tokens,      \* access tokens
    MaxCalls,    \* bound: calls made
    None

ASSUMPTION CallBound == MaxCalls \in Nat

ASSUMPTION TextsAreNotEncoded ==
    /\ Ids \subseteq PlainTexts
    /\ Words \cup Cursors \subseteq PlainTexts \cup {Absent}
    /\ Absent \notin PlainTexts /\ None \notin PlainTexts

VARIABLES
    config,      \* the client's _config
    token,       \* localStorage "access_token"
    calls        \* the calls made so far

apiVars == <<config, token, calls>>
---------------------------------------------------------------------------
(* sdk.gen.ts: what the operations are.                                      *)

Operation(method, path, secured, body) ==
    [method |-> method, url |-> <<"/", "api", "/", "v1">> \o path,
     secured |-> secured, body |-> body]

Get(path) == Operation("GET", path, TRUE, "none")
Post(path, body) == Operation("POST", path, TRUE, body)

LoginService ==
    [loginAccessToken |-> Operation("POST", <<"/", "login", "/", "access-token">>, FALSE, "form")]

UsersPath == <<"/", "users">>
UserPath == UsersPath \o <<"/", "{user_id}">>

UsersService ==
    [listUsers |-> Get(UsersPath),
     createUser |-> Post(UsersPath, "json"),
     readUserMe |-> Get(UsersPath \o <<"/", "me">>),
     changePassword |-> Post(UsersPath \o <<"/", "me", "/", "password">>, "json"),
     readUser |-> Get(UserPath),
     updateUser |-> Operation("PATCH", UserPath, TRUE, "json"),
     issueTemporaryPassword |-> Post(UserPath \o <<"/", "temporary-password">>, "none")]

ImportsPath == <<"/", "imports">>
ImportPath(end) == ImportsPath \o <<"/", "{import_id}">> \o end

ImportsService ==
    [listImports |-> Get(ImportsPath),
     uploadImport |-> Post(ImportsPath, "multipart"),
     getImport |-> Get(ImportPath(<<>>)),
     previewImport |-> Get(ImportPath(<<"/", "preview">>)),
     setMapping |-> Operation("PUT", ImportPath(<<"/", "mapping">>), TRUE, "json"),
     validateImport |-> Post(ImportPath(<<"/", "validate">>), "none"),
     confirmImport |-> Post(ImportPath(<<"/", "confirm">>), "none"),
     cancelImport |-> Post(ImportPath(<<"/", "cancel">>), "none"),
     retryImport |-> Post(ImportPath(<<"/", "retry">>), "none"),
     listValidationRows |-> Get(ImportPath(<<"/", "rows">>)),
     downloadReport |-> Get(ImportPath(<<"/", "reports", "/", "{report_name}">>))]

JobPath == <<"/", "jobs", "/", "{job_id}">>

JobsService == [getJob |-> Get(JobPath), listAttempts |-> Get(JobPath \o <<"/", "attempts">>)]

DashboardService == [dashboard |-> Get(<<"/", "dashboard">>)]
ContactsService == [listContacts |-> Get(<<"/", "contacts">>)]
AuditService == [listAuditEvents |-> Get(<<"/", "audit-events">>)]

OperationsService ==
    [liveness |-> Operation("GET", <<"/", "health", "/", "live">>, FALSE, "none"),
     readiness |-> Operation("GET", <<"/", "health", "/", "ready">>, FALSE, "none"),
     version |-> Operation("GET", <<"/", "version">>, FALSE, "none")]

\* What a has, and what b has besides.
Over(a, b) == [h \in DOMAIN a \cup DOMAIN b |-> IF h \in DOMAIN a THEN a[h] ELSE b[h]]

Operations ==
    Over(LoginService, Over(UsersService, Over(ImportsService, Over(JobsService,
        Over(DashboardService, Over(ContactsService, Over(AuditService, OperationsService)))))))
---------------------------------------------------------------------------
(* The calls of the application.                                             *)

Text(name, value) == [name |-> <<name>>, type |-> "text", value |-> value]
Limit == Text("limit", <<"50">>)
NoPath == [p \in {} |-> <<>>]
Path(parameter, id) == [p \in {parameter} |-> id]

Request(name, path, query, body, headers) ==
    [name |-> name, path |-> path, query |-> query, body |-> body, headers |-> headers]

NoHeaders == [h \in {} |-> None]
Header(name, value) == [h \in {name} |-> value]

Plain(name) == Request(name, NoPath, <<>>, None, NoHeaders)
Of(name, parameter, id) == Request(name, Path(parameter, id), <<>>, None, NoHeaders)

\* A body is a sequence of [name, value].
Field(name, value) == [name |-> <<name>>, value |-> value]

ListCalls ==
    {Request(name, NoPath, <<Text("cursor", c), Limit>>, None, NoHeaders) :
        name \in {"listImports", "listUsers"}, c \in Cursors}
    \cup {Request("listContacts", NoPath, <<Text("cursor", c), Limit, Text("q", q)>>,
                  None, NoHeaders) : c \in Cursors, q \in Words}
    \cup {Request("listAuditEvents", NoPath, <<Text("action", q), Text("cursor", c), Limit>>,
                  None, NoHeaders) : c \in Cursors, q \in Words}

ImportCalls ==
    {Of(name, "{import_id}", id) :
        name \in {"getImport", "previewImport", "validateImport", "retryImport", "cancelImport"},
        id \in Ids}
    \cup {Request("confirmImport", Path("{import_id}", id), <<>>, None, Header("Idempotency-Key", "key")) :
             id \in Ids}
    \cup {Request("setMapping", Path("{import_id}", id), <<>>, <<Field("mapping", q)>>, NoHeaders) :
             id \in Ids, q \in Words \ {Absent}}
    \cup {Request("listValidationRows", Path("{import_id}", id),
                  <<Text("cursor", Absent), Limit, Text("outcome", o)>>, None, NoHeaders) :
             id \in Ids, o \in {Absent, <<"invalid">>}}
    \cup {Request("downloadReport", Over(Path("{import_id}", id), Path("{report_name}", <<"errors">>)),
                  <<>>, None, NoHeaders) : id \in Ids}
    \cup {Request("uploadImport", NoPath, <<>>, <<Field("file", <<"csv">>)>>, NoHeaders)}

JobCalls ==
    {Of("getJob", "{job_id}", id) : id \in Ids}
    \cup {Request("listAttempts", Path("{job_id}", id), <<Limit>>, None, NoHeaders) : id \in Ids}

UserCalls ==
    {Request("createUser", NoPath, <<>>, <<Field("email", q), Field("full_name", None)>>,
             NoHeaders) : q \in Words \ {Absent}}
    \cup {Request("updateUser", Path("{user_id}", id), <<>>,
                  <<Field("email", Absent), Field("role", <<"viewer">>)>>, NoHeaders) : id \in Ids}
    \cup {Of("issueTemporaryPassword", "{user_id}", id) : id \in Ids}

SessionCalls ==
    {Request("loginAccessToken", NoPath, <<>>, <<Field("username", q), Field("password", q)>>,
             NoHeaders) : q \in Words \ {Absent}}
    \cup {Request("changePassword", NoPath, <<>>,
                  <<Field("current_password", q), Field("new_password", q)>>, NoHeaders) :
             q \in Words \ {Absent}}

Requests == ListCalls \cup ImportCalls \cup JobCalls \cup UserCalls \cup SessionCalls
            \cup {Plain("dashboard"), Plain("readUserMe")}

ASSUMPTION NoBodyIsNone == None \notin {request.body : request \in SessionCalls}
---------------------------------------------------------------------------
(* client.gen.ts                                                             *)

Null == "null"

\* Later headers win, null deletes.
mergeHeaders(a, b) ==
    LET merged == Over(b, a)
    IN  Restrict(merged, {h \in DOMAIN merged : merged[h] # Null})

mergeConfigs(a, b) == [a EXCEPT !.auth = b.auth, !.headers = mergeHeaders(a.headers, b.headers)]

\* client.gen.ts creates the client, main.tsx configures it.
ApiInit ==
    /\ config = mergeConfigs([throwOnError |-> TRUE, auth |-> FALSE, headers |-> NoHeaders],
                             [auth |-> TRUE, headers |-> NoHeaders])
    /\ token \in Tokens \cup {None}
    /\ calls = <<>>

\* The headers an operation adds to the caller's.
ContentType(body) ==
    CASE body = "json" -> Header("Content-Type", "application/json")
      [] body = "form" -> Header("Content-Type", "application/x-www-form-urlencoded")
      [] body = "multipart" -> Header("Content-Type", Null)
      [] OTHER -> NoHeaders

\* getAuthToken: the auth callback reads localStorage at once, the rest waits.
Call(request) ==
    /\ Len(calls) < MaxCalls
    /\ calls' = Append(calls,
          [request |-> request, state |-> "prepared", held |-> token,
           headers |-> mergeHeaders(config.headers,
                           Over(request.headers, ContentType(Operations[request.name].body))),
           url |-> <<>>, body |-> None, ok |-> FALSE])
    /\ UNCHANGED <<config, token>>

\* setAuthParams: the bearer token, for operations that declare it.
Authorization(call) ==
    IF Operations[call.request.name].secured /\ config.auth /\ call.held # None
    THEN Header("Authorization", call.held) ELSE NoHeaders

\* The fields whose value is not one of those left out.
Without(fields, values) ==
    FlattenSeq([i \in DOMAIN fields |->
                    IF fields[i].value \in values THEN <<>> ELSE <<fields[i]>>])

\* The body as the operation's serializer writes it; JSON keeps null values.
SerializedBody(request) ==
    IF request.body = None THEN None
    ELSE LET sent == Without(request.body, {Absent, None})
         IN  CASE Operations[request.name].body = "form" ->
                    Joined([i \in DOMAIN sent |->
                               serializePrimitiveParam(sent[i].name, sent[i].value)], "&")
               [] Operations[request.name].body = "multipart" -> sent
               [] OTHER -> Without(request.body, {Absent})

Prepared(call) ==
    [call EXCEPT !.state = "sent",
                 !.headers = Over(Authorization(call), @),
                 !.url = getUrl(Operations[call.request.name].url,
                                call.request.path, call.request.query),
                 !.body = SerializedBody(call.request)]

\* Mutant: the headers are those of the configuration itself, not a copy.
SendWithSharedHeaders(i) ==
    /\ calls[i].state = "prepared"
    /\ LET headers == Over(calls[i].headers, config.headers)
           sent == [Prepared(calls[i]) EXCEPT !.headers = Over(Authorization(calls[i]), headers)]
       IN  /\ calls' = [calls EXCEPT ![i] = sent]
           /\ config' = [config EXCEPT !.headers = sent.headers]
    /\ UNCHANGED token

Send(i) ==
    /\ calls[i].state = "prepared"
    /\ calls' = [calls EXCEPT ![i] = Prepared(@)]
    /\ UNCHANGED <<config, token>>

\* A success resolves; anything else rejects, or resolves to an error object
\* when throwOnError is not set.
Settle(i) ==
    /\ calls[i].state = "sent"
    /\ \E ok \in BOOLEAN :
          calls' = [calls EXCEPT ![i].ok = ok,
                                 ![i].state = IF ok \/ ~config.throwOnError
                                              THEN "resolved" ELSE "rejected"]
    /\ UNCHANGED <<config, token>>

\* Somebody signs in or out, in this tab or another.
TokenChanges ==
    /\ token' \in (Tokens \cup {None}) \ {token}
    /\ UNCHANGED <<config, calls>>

ApiNext ==
    \/ \E request \in Requests : Call(request)
    \/ \E i \in DOMAIN calls : Send(i) \/ Settle(i)
    \/ TokenChanges
=============================================================================
