--------------------------------- MODULE Wire ---------------------------------
(***************************************************************************)
(* What travels between a client and the API server: the requests the      *)
(* generated client writes and the replies it reads                        *)
(* (gen/http/zebrahook/client), the requests the server reads and the      *)
(* replies it writes (gen/http/zebrahook/server).  A body is the record    *)
(* its JSON carries; a field that is absent or null is Nil.  Tokens and    *)
(* Authorization headers are sequences of words.                           *)
(***************************************************************************)
EXTENDS Integers, Sequences

CONSTANTS
    Nil,        \* an absent field; also what is refused gives
    Malformed,  \* a text that does not parse
    Uri,        \* texts that goa accepts as a URI
    Bracketed,  \* the texts that begin with "metadata[" -> what the brackets hold;
                \* Malformed if there is no second one
    Numeral     \* texts -> the unsigned numbers they write

\* no text has anything behind its brackets
ASSUME WireAssumption ==
    /\ Nil \notin Uri \cup {Malformed, ""}
    /\ {"createdAt.gte", "updatedAt.lt"} \cap DOMAIN Bracketed = {}
    /\ \A s, t \in DOMAIN Bracketed : Bracketed[s] = Bracketed[t] => s = t \/ Bracketed[s] = Malformed

\* the client puts the scheme before a token of one word, the server takes the
\* first word of several away
ClientHeader(token) == IF Len(token) > 1 THEN token ELSE <<"Bearer">> \o token
Credential(header) == IF Len(header) > 1 THEN Tail(header) ELSE header

\* json:",omitempty"
Omitted(x) == IF x = <<>> THEN Nil ELSE x

\* a map with an empty key or value
Blank(metadata) ==
    metadata # Nil /\ \E k \in DOMAIN metadata : k = "" \/ metadata[k] = ""

Request(verb, path, token, body) ==
    [verb |-> verb, path |-> path, header |-> ClientHeader(token), body |-> body]

-----------------------------------------------------------------------------
(***************************************************************************)
(* The command line of the client (client/cli.go): a body as typed, which  *)
(* may be no JSON, and what is made of it; Nil when it is refused.         *)
(***************************************************************************)
\* a Go string has no nil
Text(x) == IF x = Nil THEN "" ELSE x
Typed(e) == [type |-> Text(e.type), priority |-> e.priority, content |-> e.content]

BuildSubmitNewEventsPayload(b, token) ==
    IF b = Malformed \/ b.events = Nil THEN Nil
    ELSE [token |-> token, events |-> [i \in DOMAIN b.events |-> Typed(b.events[i])]]

BuildRegisterPayload(b, token) ==
    IF b = Malformed \/ b.enabled_events \in {Nil, <<>>} \/ b.url \notin Uri \/ Blank(b.metadata)
    THEN Nil
    ELSE [token |-> token, url |-> b.url, enabled_events |-> b.enabled_events,
          metadata |-> b.metadata]

BuildUpdatePayload(b, id, token) ==
    IF b = Malformed \/ b.url \notin Uri \cup {Nil} \/ Blank(b.metadata) THEN Nil
    ELSE [token |-> token, id |-> id, url |-> b.url, disabled |-> b.disabled,
          enabled_events |-> b.enabled_events, metadata |-> b.metadata]

\* no flag is the default of the flag set, 50 for the limit and 0 for the offset
BuildListWebhookEndpointPayload(limit, offset, gte, lt, metadata, token) ==
    IF Malformed \in {limit, offset, gte, lt, metadata} THEN Nil
    ELSE [token |-> token, limit |-> limit, offset |-> offset,
          createdAtGte |-> gte, updatedAtLt |-> lt, metadata |-> metadata]

BuildGetWebhookEndpointByIDPayload(id, token) == [token |-> token, id |-> id]

-----------------------------------------------------------------------------
(***************************************************************************)
(* The requests of the client.                                             *)
(***************************************************************************)
NewRegisterRequestBody(p) ==
    [url |-> p.url, enabled_events |-> p.enabled_events, metadata |-> Omitted(p.metadata)]
NewUpdateRequestBody(p) ==
    [url |-> p.url, disabled |-> p.disabled,
     enabled_events |-> Omitted(p.enabled_events), metadata |-> Omitted(p.metadata)]

EncodeSubmitNewEventsRequest(p) ==
    Request("POST", <<"events">>, p.token, [events |-> p.events])
EncodeRegisterRequest(p) ==
    Request("POST", <<"endpoints">>, p.token, NewRegisterRequestBody(p))
EncodeUpdateRequest(p) ==
    Request("PUT", <<"endpoints", p.id>>, p.token, NewUpdateRequestBody(p))
EncodeGetWebhookEndpointByIDRequest(p) ==
    Request("GET", <<"endpoints", p.id>>, p.token, Nil)

\* The filters on metadata are sent under their bare keys, behind the parameters
\* of the client, and the server takes the first one of a name.  So a filter is
\* lost, unless its key is a name that the server looks for.
KeysOf(filters) == IF filters = Nil THEN {} ELSE DOMAIN filters
Bound(own, filters, name) ==
    IF own # Nil \/ name \notin KeysOf(filters) THEN own
    ELSE IF filters[name] = "" THEN Nil
    ELSE IF filters[name] \in DOMAIN Numeral THEN Numeral[filters[name]] ELSE Malformed
Filters(filters) ==
    LET found == KeysOf(filters) \cap DOMAIN Bracketed
    IN  IF found = {} THEN Nil
        ELSE IF \E n \in found : Bracketed[n] = Malformed THEN Malformed
        ELSE [k \in {Bracketed[n] : n \in found} |->
                 filters[CHOOSE n \in found : Bracketed[n] = k]]

EncodeListWebhookEndpointRequest(p) ==
    Request("GET", <<"endpoints">>, p.token,
            [limit |-> p.limit, offset |-> p.offset,
             createdAtGte |-> Bound(p.createdAtGte, p.metadata, "createdAt.gte"),
             updatedAtLt |-> Bound(p.updatedAtLt, p.metadata, "updatedAt.lt"),
             metadata |-> Filters(p.metadata)])

-----------------------------------------------------------------------------
(***************************************************************************)
(* The server: which handler a request reaches, and what the handler       *)
(* makes of it.  Refused requests give Nil.                                *)
(***************************************************************************)
Single(path) == Len(path) = 2 /\ path[1] = "endpoints"
Route(m) ==
    CASE m.verb = "POST" /\ m.path = <<"events">> -> "submit"
      [] m.verb = "POST" /\ m.path = <<"endpoints">> -> "register"
      [] m.verb = "PUT" /\ Single(m.path) -> "update"
      [] m.verb = "GET" /\ m.path = <<"endpoints">> -> "list"
      [] m.verb = "GET" /\ Single(m.path) -> "get"
      [] OTHER -> "none"

\* a path that is there, under another verb: method not allowed
Unrouted(m) ==
    IF m.path \in {<<"events">>, <<"endpoints">>} \/ Single(m.path) THEN 405 ELSE 404

ValidateSubmitNewEventsRequestBody(b) ==
    /\ b.events # Nil
    /\ \A i \in DOMAIN b.events : b.events[i] # Nil => Nil \notin {b.events[i].type, b.events[i].content}
ValidateRegisterRequestBody(b) ==
    /\ b.url \in Uri
    /\ b.enabled_events \notin {Nil, <<>>}
    /\ ~Blank(b.metadata)

\* slip: the check of register, where a url is required
ValidateUpdateAsRegister(b) == b.url \in Uri /\ ~Blank(b.metadata)

ValidateUpdateRequestBody(b) == b.url \in Uri \cup {Nil} /\ ~Blank(b.metadata)

\* an empty body, one that is no JSON, no header
Readable(m) == m.body \notin {Nil, Malformed} /\ m.header # <<>>

\* a null among the events passes the validation and is dereferenced
\* (NewSubmitNewEventsPayload); so is the end of a filter that has none
PanicsIn(m) ==
    CASE Route(m) = "submit" ->
            /\ Readable(m) /\ ValidateSubmitNewEventsRequestBody(m.body)
            /\ \E i \in DOMAIN m.body.events : m.body.events[i] = Nil
      [] Route(m) = "list" -> m.body.metadata = Malformed
      [] OTHER -> FALSE

DecodeSubmitNewEventsRequest(m) ==
    IF Readable(m) /\ ValidateSubmitNewEventsRequestBody(m.body)
    THEN [token |-> Credential(m.header), events |-> m.body.events] ELSE Nil

DecodeRegisterRequest(m) ==
    IF Readable(m) /\ ValidateRegisterRequestBody(m.body)
    THEN [token |-> Credential(m.header), url |-> m.body.url,
          enabled_events |-> m.body.enabled_events, metadata |-> m.body.metadata] ELSE Nil

DecodeUpdateRequest(m) ==
    IF Readable(m) /\ ValidateUpdateRequestBody(m.body)
    THEN [token |-> Credential(m.header), id |-> m.path[2], url |-> m.body.url,
          disabled |-> m.body.disabled, enabled_events |-> m.body.enabled_events,
          metadata |-> m.body.metadata] ELSE Nil

\* a limit that is absent is 50, an offset 0
DecodeListWebhookEndpointRequest(m) ==
    IF /\ m.header # <<>>
       /\ Malformed \notin {m.body.limit, m.body.offset, m.body.createdAtGte, m.body.updatedAtLt}
    THEN [token |-> Credential(m.header),
          limit |-> IF m.body.limit = Nil THEN 50 ELSE m.body.limit,
          offset |-> IF m.body.offset = Nil THEN 0 ELSE m.body.offset,
          createdAtGte |-> m.body.createdAtGte, updatedAtLt |-> m.body.updatedAtLt,
          metadata |-> m.body.metadata] ELSE Nil

DecodeGetWebhookEndpointByIDRequest(m) ==
    IF m.header # <<>> THEN [token |-> Credential(m.header), id |-> m.path[2]] ELSE Nil

Decoded(m) ==
    CASE Route(m) = "submit" -> DecodeSubmitNewEventsRequest(m)
      [] Route(m) = "register" -> DecodeRegisterRequest(m)
      [] Route(m) = "update" -> DecodeUpdateRequest(m)
      [] Route(m) = "list" -> DecodeListWebhookEndpointRequest(m)
      [] Route(m) = "get" -> DecodeGetWebhookEndpointByIDRequest(m)

-----------------------------------------------------------------------------
(***************************************************************************)
(* Replies: how the server writes them, and which ones the client takes.   *)
(***************************************************************************)
Ok(body) == [status |-> 200, body |-> body]
Shown(row) ==
    [id |-> row.id, url |-> row.url, enabled_events |-> row.enabled_events,
     metadata |-> Omitted(row.metadata), status |-> row.status]

EncodeSubmitNewEventsResponse == Ok([success |-> TRUE])
EncodeRegisterResponse(id, secret) == Ok([id |-> id, secret |-> secret])
EncodeUpdateResponse == Ok([success |-> TRUE])

\* slip: the list starts as a nil slice, which is encoded as null
EncodeListOfNil(rows) ==
    Ok([result |-> IF rows = <<>> THEN Nil ELSE [i \in DOMAIN rows |-> Shown(rows[i])]])

EncodeListWebhookEndpointResponse(rows) == Ok([result |-> [i \in DOMAIN rows |-> Shown(rows[i])]])
EncodeGetWebhookEndpointByIDResponse(row, secret) ==
    Ok([id |-> row.id, secret |-> secret, row |-> Shown(row)])

\* ValidateWebhookEndpointWithoutSecretResponseBody
ValidEndpoint(row) ==
    /\ row.id # Nil /\ row.url \in Uri
    /\ row.enabled_events \notin {Nil, <<>>}
    /\ ~Blank(row.metadata)
    /\ row.status \in {Nil, "enabled", "disabled"}

\* the Decode...Response of each method: a result or an error for the caller
ClientTakesRegister(body) == body.id # Nil /\ body.secret # Nil
ClientTakesList(body) ==
    body.result # Nil /\ \A i \in DOMAIN body.result : ValidEndpoint(body.result[i])
ClientTakesGet(body) == body.secret # Nil /\ ValidEndpoint(body.row)
ClientTakes(method, body) ==
    CASE method = "submit" -> TRUE
      [] method = "register" -> ClientTakesRegister(body)
      [] method = "update" -> TRUE
      [] method = "list" -> ClientTakesList(body)
      [] method = "get" -> ClientTakesGet(body)
=============================================================================
