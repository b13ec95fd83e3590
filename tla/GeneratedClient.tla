--------------------------- MODULE GeneratedClient ---------------------------
(* The generated client as a whole: a behaviour makes requests (ApiClient)   *)
(* or reads a stream (EventStream); a sample of a parameter in each of       *)
(* OpenAPI's styles (Serialization) goes with every behaviour.               *)
EXTENDS ApiClient, EventStream

CONSTANT Texts  \* texts of the samples

ASSUMPTION SamplesAreNotEncoded == Texts \subseteq PlainTexts

VARIABLE sample

vars == <<apiVars, streamVars, sample>>

Styles == {"label", "matrix", "simple", "form", "spaceDelimited", "pipeDelimited"}

Sample(type, Kinds, Values) == [type : {type}, style : Kinds, explode : BOOLEAN, value : Values]

\* Texts no style can tell apart from its own separators: encodeURIComponent
\* leaves "." as it is, and writes " " as spaceDelimited does.
Fits(s, text) == /\ s.style = "label" => "." \notin ToSet(text)
                 /\ s.style = "spaceDelimited" => " " \notin ToSet(text)

Samples ==
    {s \in Sample("array", Styles, {<<a, b>> : a, b \in Texts} \cup {<<a>> : a \in Texts}) :
        \A i \in DOMAIN s.value : Fits(s, s.value[i])}
    \cup {s \in Sample("object", {"label", "matrix", "simple", "form", "deepObject"},
                  {<<[key |-> <<"k">>, value |-> a], [key |-> <<"l">>, value |-> b]>> :
                        a, b \in Texts}) :
             \A i \in DOMAIN s.value : Fits(s, s.value[i].value)}

TypeOK ==
    /\ StreamTypeOK
    /\ token \in Tokens \cup {None}
    /\ DOMAIN config = {"throwOnError", "auth", "headers"}
    /\ Len(calls) <= MaxCalls
    /\ \A i \in DOMAIN calls :
          /\ calls[i].request \in Requests
          /\ calls[i].state \in {"prepared", "sent", "resolved", "rejected"}

\* A sample goes with a behaviour that does nothing else; the shortest of all
\* stands for none.
NoSample == CHOOSE s \in Samples : s.type = "array" /\ s.style = "simple" /\ Len(s.value) = 1

Init ==
    /\ ApiInit
    /\ StreamInit
    /\ sample \in Samples

Next ==
    /\ sample = NoSample
    /\ \/ phase = "none" /\ ApiNext /\ UNCHANGED streamVars
       \/ calls = <<>> /\ StreamNext /\ UNCHANGED apiVars
    /\ UNCHANGED sample

Spec == Init /\ [][Next]_vars
FairSpec == Spec /\ StreamFairness
---------------------------------------------------------------------------
(* Properties                                                               *)

\* A request carries the token there was when it was made if its operation
\* declares the bearer scheme, and none otherwise, whatever requests were made
\* before or overlap (client.gen.ts:45-54, utils.gen.ts:86-125).
TokenWhereDeclared ==
    \A i \in DOMAIN calls : calls[i].state # "prepared" =>
        IF Operations[calls[i].request.name].secured /\ calls[i].held # None
        THEN "Authorization" \in DOMAIN calls[i].headers
             /\ calls[i].headers["Authorization"] = calls[i].held
        ELSE "Authorization" \notin DOMAIN calls[i].headers

\* The path of an operation with its parameters read out of a URL.
PathRead(template, segments) ==
    /\ Len(segments) = Len(template)
    /\ \A i \in DOMAIN template :
          template[i] \in {<<"{user_id}">>, <<"{import_id}">>, <<"{job_id}">>, <<"{report_name}">>}
          \/ template[i] = segments[i]

\* A request whose path the browser takes apart: encodeURIComponent leaves "."
\* as it is, and an id may be typed in (jobs/index.tsx:31).
Dotted(request) == \E p \in DOMAIN request.path : request.path[p] \in DotSegments

\* What is asked of the server, once the browser has parsed the URL, is what the
\* request meant.
ReadAsMeant(call) ==
    LET request == call.request
        template == Split(Operations[request.name].url, "/")
        parts == Split(call.url, "?")
        segments == Resolved(Split(parts[1], "/"))
        meant == Without(request.query, {Absent})
        read == IF Len(parts) = 1 THEN <<>> ELSE PairsRead(parts[2])
    IN  /\ Len(parts) <= 2
        /\ PathRead(template, segments)
        /\ \A k \in DOMAIN template :
              \A parameter \in DOMAIN request.path :
                 template[k] = <<parameter>> => Decoded(segments[k]) = request.path[parameter]
        /\ read = [k \in DOMAIN meant |-> [name |-> meant[k].name, value |-> meant[k].value]]
        /\ Operations[request.name].body = "form" => PairsRead(call.body) = request.body

\* Whatever is searched for or typed in, other than "." or ".." for an id, the URL
\* and the form say, by RFC 3986 and the browser's URL parser, the operation,
\* the parameters and the fields that were meant: no character of a value is
\* taken for the syntax around it (core/utils.gen.ts:18-111).
UrlsSayWhatWasMeant ==
    \A i \in DOMAIN calls :
        calls[i].state = "sent" /\ ~Dotted(calls[i].request) => ReadAsMeant(calls[i])

\* Arrays and objects are read back from every style as they were written.
SamplesAreReadBack ==
    LET name == <<"p">> IN
    IF sample.type = "array"
    THEN ArrayRead(sample.style, sample.explode,
                   serializeArrayParam(sample.style, sample.explode, name, sample.value))
         = sample.value
    ELSE ObjectRead(sample.style, sample.explode, name,
                    serializeObjectParam(sample.style, sample.explode, name, sample.value))
         = sample.value
=============================================================================
