---------------------------- MODULE HttpContent ----------------------------
(***************************************************************************)
(* packages/core/src/http: how a body becomes the content of a request and  *)
(* the content of a response a body, in DefaultHttpClient, in               *)
(* AxiosHttpClient, which uses the same functions, and in                   *)
(* SuperagentHttpClient, which leaves most of it to superagent.             *)
(*                                                                         *)
(* A Javascript value has a type; what it says is its data.  Characters have *)
(* a format and data.  A content type is <<type, subtype>>: its parameters   *)
(* (charset) are cut off wherever it is read.                               *)
(***************************************************************************)

Value(type, format, data) == [type |-> type, format |-> format, data |-> data]

Undefined      == Value("undefined", "none", "none")
Null           == Value("null", "none", "none")
Number         == Value("number", "none", "number")
Object(data)   == Value("object", "none", data)
Params(data)   == Value("params", "none", data)    \* URLSearchParams
String(f, d)   == Value("string", f, d)
Buffer(f, d)   == Value("buffer", f, d)

Array(items)   == Value("array", "none", items)    \* of strings
Joined(items)  == String("joined", items)          \* items.join('; ')
WithPath(items) == Value("array", "path", items)   \* "; Path=/" after each

Chars(f, d)  == [format |-> f, data |-> d]
CharsOf(v)   == Chars(v.format, v.data)            \* of a string or a buffer
Empty        == Chars("empty", "none")
Throws       == Chars("throws", "none")            \* an error instead of characters

Json == <<"application", "json">>
Form == <<"application", "x-www-form-urlencoded">>
Octets == <<"application", "octet-stream">>
Plain == <<"text", "plain">>
Html  == <<"text", "html">>
Jpeg  == <<"image", "jpeg">>
Yaml  == <<"application", "x-yaml">>
NoType == <<>>                                     \* undefined

-----------------------------------------------------------------------------
guessContentTypeFrom(v) ==
    CASE v.type \in {"undefined", "null"} -> NoType
      [] v.type = "string"                -> Plain
      [] v.type = "buffer"                -> Octets
      [] v.type = "params"                -> Form
      [] OTHER                            -> Json

\* findSerializer in the map of createDefaultDeserializers: by the full type,
\* then by its first part.
findSerializer(type) ==
    CASE type = Json                    -> "json"
      [] type = Octets                  -> "binary"
      [] type = Form                    -> "form"
      [] type[1] \in {"audio", "image"} -> "binary"
      [] type[1] = "text"               -> "text"
      [] OTHER                          -> "none"

Missing(v) == v.type \in {"undefined", "null"}

\* JSON.stringify: a URLSearchParams has no property of its own.
stringify(v) == Chars("json", IF v.type = "params" THEN "nothing" ELSE v.data)

JsonSerializer(v) ==
    IF Missing(v) THEN Empty
    ELSE IF v.type \in {"string", "buffer"} THEN CharsOf(v) ELSE stringify(v)

\* A property that is null becomes the empty string, and so does 0 or false.
Blanked(data) == IF data \in {"withNull", "withZero"} THEN "blank" ELSE data

FormSerializer(v) ==
    CASE Missing(v) \/ v.type = "number"    -> Empty
      [] v.type \in {"string", "buffer"}    -> CharsOf(v)
      [] v.type = "params"                  -> Chars("form", v.data)
      [] OTHER                              -> Chars("form", Blanked(v.data))

TextSerializer(v) ==
    IF Missing(v) THEN Empty ELSE IF v.type = "string" THEN CharsOf(v) ELSE Throws

BinarySerializer(v) ==
    IF Missing(v) THEN Empty ELSE IF v.type = "buffer" THEN CharsOf(v) ELSE Throws

serializeWith(serializer, v) ==
    CASE serializer = "json"   -> JsonSerializer(v)
      [] serializer = "form"   -> FormSerializer(v)
      [] serializer = "text"   -> TextSerializer(v)
      [] serializer = "binary" -> BinarySerializer(v)

isAlreadySerialized(v) == Missing(v) \/ v.type \in {"string", "buffer"}

\* serialize; without a serializer, undefined and null come out as they are.
serialize(v, type) ==
    IF findSerializer(type) # "none" THEN serializeWith(findSerializer(type), v)
    ELSE IF isAlreadySerialized(v) THEN CharsOf(v) ELSE Throws

-----------------------------------------------------------------------------
(* The body of a response.                                                   *)
Parsed(chars) == IF chars.data = "number" THEN Number ELSE Object(chars.data)

JsonDeserializer(chars) == IF chars.format = "json" THEN Parsed(chars) ELSE Throws

deserializeWith(serializer, chars) ==
    CASE serializer = "json"   -> JsonDeserializer(chars)
      [] serializer = "form"   -> Object(chars.data)
      [] serializer = "text"   -> String(chars.format, chars.data)
      [] serializer = "binary" -> Buffer(chars.format, chars.data)

deserialize(chars, type) ==
    IF chars = Empty THEN Null
    ELSE IF type = NoType \/ findSerializer(type) = "none"
    THEN Buffer(chars.format, chars.data)
    ELSE deserializeWith(findSerializer(type), chars)

-----------------------------------------------------------------------------
(* Superagent.                                                               *)

\* superagent.serialize has an entry for the type.
Serializes(type) == type \in {Json, Form}

\* What superagent sends for a body that is neither a string nor a buffer: in a
\* form only null becomes the empty string.
SuperagentSends(v, type) ==
    CASE type = Json /\ v.type = "null"      -> Chars("json", "null")
      [] type = Json /\ v.type # "null"      -> stringify(v)
      [] type # Json /\ v.type \in {"null", "number"} -> Empty
      [] OTHER -> Chars("form", IF v.data = "withNull" THEN "blank" ELSE v.data)

isAlreadySerializedContent(type, v) ==
    Serializes(type) \/ v.type \in {"string", "buffer"}

\* validateRequestContentType, and what superagent makes of its result.
validateRequestContentType(type, v) ==
    IF isAlreadySerializedContent(type, v)
    THEN IF v.type \in {"string", "buffer"} THEN CharsOf(v) ELSE SuperagentSends(v, type)
    ELSE IF findSerializer(type) = "none" THEN Throws
         ELSE serializeWith(findSerializer(type), v)

\* The parser superagent chooses by the type of the response: text is left in
\* resp.text, resp.body is {} then.
SuperagentBody(chars, type) ==
    IF type = NoType THEN Buffer(chars.format, chars.data)
    ELSE CASE type = Json      -> IF chars = Empty THEN String("empty", "none")
                                  ELSE JsonDeserializer(chars)
           [] type = Form      -> Object(chars.data)
           [] type[1] = "text" -> Object("nothing")
           [] OTHER            -> Buffer(chars.format, chars.data)

SuperagentText(chars, type) ==
    IF type # NoType /\ (type \in {Json, Form} \/ type[1] = "text") THEN chars ELSE Empty

\* Faulty: the text is looked at for an absent body only.
evalAbsentBody(body, text) == body

\* Object.keys(body).length = 0, also of a number.
HasNoKeys(body) ==
    body = Object("nothing") \/ body = Number \/ CharsOf(body) = Empty

evalBody(body, text) ==
    IF body.type = "string" \/ ~HasNoKeys(body) THEN body
    ELSE IF text # Empty THEN String(text.format, text.data) ELSE Null
=============================================================================
