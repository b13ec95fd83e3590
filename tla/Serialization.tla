---------------------------- MODULE Serialization ----------------------------
(* How the generated client writes values into URLs and form bodies:         *)
(* frontend/src/client/core/pathSerializer.gen.ts, core/utils.gen.ts,        *)
(* client/utils.gen.ts.  Texts are sequences of tokens; a token is a         *)
(* character, or a run of characters that no encoding touches and no reader  *)
(* looks at.                                                                 *)
EXTENDS Naturals, Sequences, SequencesExt

CONSTANT Absent  \* undefined and null, left out wherever they occur

\* encodeURIComponent: what it escapes, of the characters that occur here.
Escape ==
    [c \in {"/", "?", "&", "=", "%", ",", ";", "|", " ", "[", "{import_id}"} |->
        CASE c = "/" -> "%2F" [] c = "?" -> "%3F" [] c = "&" -> "%26" [] c = "=" -> "%3D"
          [] c = "%" -> "%25" [] c = "," -> "%2C" [] c = ";" -> "%3B" [] c = "|" -> "%7C"
          [] c = " " -> "%20" [] c = "[" -> "%5B" [] c = "{import_id}" -> "%7Bimport_id%7D"]

\* Texts before they are encoded: an escape is a token of encoded ones only.
Escapes == {Escape[c] : c \in DOMAIN Escape}
PlainTexts == Seq(STRING \ Escapes)

\* Mutant: the text is taken as it is.
EncodedNot(text) == text

Encoded(text) ==
    [i \in DOMAIN text |-> IF text[i] \in DOMAIN Escape THEN Escape[text[i]] ELSE text[i]]

Joined(parts, separator) ==
    FlattenSeq([i \in DOMAIN parts |->
                    IF i = 1 THEN parts[i] ELSE <<separator>> \o parts[i]])

---------------------------------------------------------------------------
(* Parameters.  Arrays are sequences of texts; objects, sequences of         *)
(* [key, value], the order of Object.entries.                                *)

separatorExplode(style) ==
    CASE style = "label" -> "." [] style = "matrix" -> ";"
      [] style = "simple" -> "," [] OTHER -> "&"

\* Mutant: a pipe-delimited array is joined like any other.
separatorArrayNoExplodeComma(style) ==
    IF style = "spaceDelimited" THEN "%20" ELSE ","

separatorArrayNoExplode(style) ==
    CASE style = "pipeDelimited" -> "|" [] style = "spaceDelimited" -> "%20"
      [] OTHER -> ","

serializePrimitiveParam(name, value) == name \o <<"=">> \o Encoded(value)

Prefixed(style, separator, text) ==
    IF style \in {"label", "matrix"} THEN <<separator>> \o text ELSE text

serializeArrayParam(style, explode, name, value) ==
    IF explode
    THEN LET separator == separatorExplode(style)
             Element(v) == IF style \in {"label", "simple"} THEN Encoded(v)
                           ELSE serializePrimitiveParam(name, v)
         IN  Prefixed(style, separator,
                      Joined([i \in DOMAIN value |-> Element(value[i])], separator))
    ELSE LET values == Joined([i \in DOMAIN value |-> Encoded(value[i])],
                              separatorArrayNoExplode(style))
         IN  CASE style = "label" -> <<".">> \o values
               [] style = "matrix" -> <<";">> \o name \o <<"=">> \o values
               [] style = "simple" -> values
               [] OTHER -> name \o <<"=">> \o values

serializeObjectParam(style, explode, name, value) ==
    IF style # "deepObject" /\ ~explode
    THEN LET values == Joined([i \in DOMAIN value |->
                                  value[i].key \o <<",">> \o Encoded(value[i].value)], ",")
         IN  CASE style = "form" -> name \o <<"=">> \o values
               [] style = "label" -> <<".">> \o values
               [] style = "matrix" -> <<";">> \o name \o <<"=">> \o values
               [] OTHER -> values
    ELSE LET separator == separatorExplode(style)
             Name(key) == IF style = "deepObject" THEN name \o <<"[">> \o key \o <<"]">> ELSE key
         IN  Prefixed(style, separator,
                      Joined([i \in DOMAIN value |->
                                 serializePrimitiveParam(Name(value[i].key), value[i].value)],
                             separator))
---------------------------------------------------------------------------
(* URLs                                                                     *)

\* The path: every {parameter} is replaced by its value, a text.
defaultPathSerializer(path, url) ==
    FlattenSeq([i \in DOMAIN url |-> IF url[i] \in DOMAIN path THEN Encoded(path[url[i]])
                                     ELSE <<url[i]>>])

\* The query: texts, arrays, objects, and what is absent; empty parts are left out.
QueryPart(p) ==
    IF p.value = Absent THEN <<>>
    ELSE CASE p.type = "text" -> serializePrimitiveParam(p.name, p.value)
           [] p.type = "array" -> serializeArrayParam("form", TRUE, p.name, p.value)
           [] p.type = "object" -> serializeObjectParam("deepObject", TRUE, p.name, p.value)

\* A part that is written.
Pushed(part) == IF part = <<>> THEN <<>> ELSE <<part>>

querySerializer(query) ==
    Joined(FlattenSeq([i \in DOMAIN query |-> Pushed(QueryPart(query[i]))]), "&")

getUrl(url, path, query) ==
    LET search == querySerializer(query)
    IN  defaultPathSerializer(path, url) \o (IF search = <<>> THEN <<>> ELSE <<"?">> \o search)
---------------------------------------------------------------------------
(* What a reader makes of such a text: RFC 3986, OpenAPI's styles.           *)

SplitAt(parts, next, separator) ==
    IF next = separator THEN Append(parts, <<>>)
    ELSE [parts EXCEPT ![Len(parts)] = Append(@, next)]

Split(text, separator) ==
    FoldLeft(LAMBDA parts, next : SplitAt(parts, next, separator), << <<>> >>, text)

Decoded(text) ==
    [i \in DOMAIN text |->
        IF \E c \in DOMAIN Escape : Escape[c] = text[i]
        THEN CHOOSE c \in DOMAIN Escape : Escape[c] = text[i]
        ELSE text[i]]

\* What the browser's URL parser makes of a path cut at its slashes: a segment
\* "." goes, ".." goes with the segment before it, either of them at the end
\* leaves an empty one (WHATWG URL).
DotSegments == {<<".">>, <<".", ".">>}

ResolveSegment(kept, segment) ==
    IF segment = <<".">> THEN kept
    ELSE IF segment = <<".", ".">> THEN IF Len(kept) > 1 THEN Front(kept) ELSE kept
    ELSE Append(kept, segment)

Resolved(segments) ==
    LET kept == FoldLeft(ResolveSegment, <<>>, segments)
    IN  IF Last(segments) \in DotSegments THEN Append(kept, <<>>) ELSE kept

\* name=value, by the first "=".
PairRead(text) ==
    LET parts == Split(text, "=")
    IN  [name |-> Decoded(Head(parts)), value |-> Decoded(Joined(Tail(parts), "="))]

PairsRead(text) == IF text = <<>> THEN <<>>
                   ELSE [i \in DOMAIN Split(text, "&") |-> PairRead(Split(text, "&")[i])]

\* What a parameter of the given style holds between its prefix and its end.
Body(style, explode, text) ==
    CASE style = "label" -> Tail(text)
      [] style = "matrix" -> IF explode THEN Tail(text) ELSE Tail(Split(text, "="))[1]
      [] style = "simple" -> text
      [] OTHER -> IF explode THEN text ELSE Tail(Split(text, "="))[1]

\* The values of an array, the style's separators being those of OpenAPI.
ArrayRead(style, explode, text) ==
    LET separator == CASE explode /\ style = "label" -> "."
                       [] explode /\ style = "matrix" -> ";"
                       [] explode /\ style \notin {"label", "matrix", "simple"} -> "&"
                       [] ~explode /\ style = "pipeDelimited" -> "|"
                       [] ~explode /\ style = "spaceDelimited" -> "%20"
                       [] OTHER -> ","
        parts == Split(Body(style, explode, text), separator)
    IN  [i \in DOMAIN parts |-> IF explode /\ style \notin {"label", "simple"}
                                THEN PairRead(parts[i]).value ELSE Decoded(parts[i])]

\* The pairs of an object: key=value, or keys and values in turn.
ObjectRead(style, explode, name, text) ==
    IF style = "deepObject" \/ explode
    THEN LET parts == Split(Body(style, TRUE, text),
                            CASE style = "label" -> "." [] style = "matrix" -> ";"
                              [] style = "simple" -> "," [] OTHER -> "&")
             Key(n) == IF style = "deepObject" THEN SubSeq(n, Len(name) + 2, Len(n) - 1) ELSE n
         IN  [i \in DOMAIN parts |-> [key |-> Key(PairRead(parts[i]).name),
                                      value |-> PairRead(parts[i]).value]]
    ELSE LET parts == Split(Body(style, FALSE, text), ",")
         IN  [i \in 1..(Len(parts) \div 2) |->
                 [key |-> Decoded(parts[2 * i - 1]), value |-> Decoded(parts[2 * i])]]
=============================================================================
