-------------------------------- MODULE Front --------------------------------
(***************************************************************************)
(* The REST service (main.go) behind its HTTP handlers                     *)
(* (gen/http/zebrahook/server/server.go, gen/zebrahook/endpoints.go), and  *)
(* the clients that call it.  Calls run concurrently; each statement on    *)
(* the database is a transaction of its own, and most of their errors are  *)
(* ignored.  The server may die at any point, and be started again with    *)
(* another encryption key.                                                 *)
(***************************************************************************)
EXTENDS Wire, FiniteSets, SequencesExt

CONSTANTS
    Call,           \* the calls clients make
    Command,        \* what users type: records of method and of its flags
    RawRequest,     \* requests written by hand
    ApiKey,         \* credentials the server could generate
    EndpointId,     \* ids xid could generate
    Registered,     \* the row of an endpoint registered before, and ...
    FirstKey,       \* ... the key it was registered with
    MaxFailures,    \* bound: statements of the database that fail
    MaxCrashes      \* bound: crashes of the server

ASSUME FrontAssumption == MaxFailures \in Nat /\ MaxCrashes \in Nat

\* A JSON list is a sequence.  A null among the events ends the generated client,
\* which sends nothing then; by hand it can be sent.
IsList(x) == x \in Seq(Range(x))
EventList(es) == IsList(es) /\ \A i \in DOMAIN es : es[i] = Nil \/ es[i].priority \in Int \cup {Nil}

ASSUME CommandAssumption ==
    \A t \in Command :
        /\ t.method \in {"submit", "register", "update", "list", "get"}
        /\ IsList(t.token)
        /\ t.method = "submit" => \/ t.body = Malformed \/ t.body.events = Nil
                                  \/ EventList(t.body.events) /\ Nil \notin Range(t.body.events)
        /\ t.method \in {"update", "get"} => "id" \in DOMAIN t

\* ids are random: nobody has one before it is issued
ASSUME RawAssumption ==
    \A m \in RawRequest :
        /\ Route(m) = "submit" => \/ m.body \in {Nil, Malformed} \/ m.body.events = Nil
                                  \/ EventList(m.body.events)
        /\ Len(m.path) = 2 => m.path[2] \notin EndpointId

ASSUME EndpointAssumption ==
    /\ Nil \notin EndpointId \cup {Registered.id, "enabled", "disabled"}
    /\ DOMAIN Registered = {"id", "url", "secret", "enabled_events", "metadata", "status"}
    /\ Registered.secret.under = 0 /\ Registered.secret.text # Nil
    /\ ValidEndpoint(Shown(Registered))

VARIABLES
    keys,           \* api_keys
    endpoint,       \* endpoints, in the order a scan meets the rows
    events,         \* events, by id
    mapping,        \* what was enqueued for the mapping worker: ids of events
    call,           \* what each call is doing, and its locals
    encryptionKey,  \* of the server that runs now
    failures,       \* how many statements have failed
    crashes         \* how many crashes have happened

vars == <<keys, endpoint, events, mapping, call, encryptionKey, failures, crashes>>
tables == <<keys, endpoint, events, mapping>>

NotMade == [pc |-> "none", client |-> Nil, m |-> Nil, p |-> Nil, id |-> Nil,
            batch |-> <<>>, ids |-> <<>>, queued |-> 0, wrote |-> FALSE, reply |-> Nil]

Init ==
    /\ keys = {FirstKey}
    /\ endpoint = <<Registered>>
    /\ events = <<>> /\ mapping = <<>>
    /\ call = [c \in Call |-> NotMade]
    /\ encryptionKey = 0
    /\ failures = 0 /\ crashes = 0

At(c, pc) == call[c].pc = pc
Fails == failures < MaxFailures /\ failures' = failures + 1
With(r, fields) == [f \in DOMAIN r |-> IF f \in DOMAIN fields THEN fields[f] ELSE r[f]]
Goes(c, fields) == call' = [call EXCEPT ![c] = With(@, fields)]

-----------------------------------------------------------------------------
(***************************************************************************)
(* Clients.                                                                *)
(***************************************************************************)
\* BuildPayload and Encode of the method (gen/http/cli/zebrahook/cli.go)
Built(t) ==
    CASE t.method = "submit" -> BuildSubmitNewEventsPayload(t.body, t.token)
      [] t.method = "register" -> BuildRegisterPayload(t.body, t.token)
      [] t.method = "update" -> BuildUpdatePayload(t.body, t.id, t.token)
      [] t.method = "list" ->
            BuildListWebhookEndpointPayload(t.limit, t.offset, t.createdAtGte, t.updatedAtLt,
                                            t.metadata, t.token)
      [] t.method = "get" -> BuildGetWebhookEndpointByIDPayload(t.id, t.token)

Encoded(method, p) ==
    CASE method = "submit" -> EncodeSubmitNewEventsRequest(p)
      [] method = "register" -> EncodeRegisterRequest(p)
      [] method = "update" -> EncodeUpdateRequest(p)
      [] method = "list" -> EncodeListWebhookEndpointRequest(p)
      [] method = "get" -> EncodeGetWebhookEndpointByIDRequest(p)

\* the body that is sent is one
ASSUME SentAssumption ==
    \A t \in Command :
        /\ t.method = "list" => Nil \notin {t.limit, t.offset}
        /\ t.method # "get" /\ Built(t) # Nil =>
              Encoded(t.method, Built(t)).body \notin {Nil, Malformed}
        /\ t.method = "submit" /\ Built(t) # Nil =>
              Built(t).events # Nil /\ Nil \notin Range(Built(t).events)

\* ids are random: users name those they were told, or one that nobody has
Issued == {call[c].id : c \in {d \in Call : At(d, "answered")}}
Names(t) == "id" \in DOMAIN t => t.id \notin EndpointId \ Issued

TypeCommand(c) ==
    /\ At(c, "none")
    /\ \E t \in Command :
          LET p == Built(t)
          IN  /\ Names(t)
              /\ IF p = Nil THEN Goes(c, [pc |-> "untold"])
                 ELSE Goes(c, [pc |-> "sent", client |-> [method |-> t.method, p |-> p],
                               m |-> Encoded(t.method, p)])
    /\ UNCHANGED <<tables, encryptionKey, failures, crashes>>

SendRaw(c) ==
    /\ At(c, "none")
    /\ \E m \in RawRequest : Goes(c, [pc |-> "sent", m |-> m])
    /\ UNCHANGED <<tables, encryptionKey, failures, crashes>>

-----------------------------------------------------------------------------
(***************************************************************************)
(* A handler of server.go: decode, authorise, call the method, encode.     *)
(***************************************************************************)
Answers(c, reply) == Goes(c, [pc |-> "answered", reply |-> reply])
Refuses(c, status) == Answers(c, [status |-> status, body |-> Nil])

\* a panic closes the connection
Decode(c) ==
    /\ At(c, "sent")
    /\ LET m == call[c].m
       IN  IF Route(m) = "none" THEN Refuses(c, Unrouted(m))
           ELSE IF PanicsIn(m) THEN Goes(c, [pc |-> "closed"])
           ELSE IF Decoded(m) = Nil THEN Refuses(c, 400)
           ELSE Goes(c, [pc |-> "decoded", p |-> Decoded(m)])
    /\ UNCHANGED <<tables, encryptionKey, failures, crashes>>

\* slip: the error of the query is not looked at
KnownOrFailed(c) ==
    \/ call[c].p.token \in keys /\ UNCHANGED failures
    \/ Fails

Known(c) == call[c].p.token \in keys /\ UNCHANGED failures

\* JWTAuth and findApiKey: a query that fails, or finds nothing: unauthorized
Authorise(c) ==
    /\ At(c, "decoded")
    /\ \/ Known(c) /\ Goes(c, [pc |-> Route(call[c].m)])
       \/ call[c].p.token \notin keys /\ Refuses(c, 400) /\ UNCHANGED failures
       \/ Fails /\ Refuses(c, 400)
    /\ UNCHANGED <<tables, encryptionKey, crashes>>

-----------------------------------------------------------------------------
(***************************************************************************)
(* SubmitNewEvents.                                                        *)
(***************************************************************************)
Priority(e) == IF e.priority = Nil THEN 0 ELSE e.priority

\* slip: sort.Slice, which may put ties in any order
BeforeUnstable(es, i, j) ==
    \/ Priority(es[i]) > Priority(es[j])
    \/ Priority(es[i]) = Priority(es[j]) /\ i > j

Before(es, i, j) ==
    \/ Priority(es[i]) > Priority(es[j])
    \/ Priority(es[i]) = Priority(es[j]) /\ i < j

Order(es) ==
    CHOOSE o \in [DOMAIN es -> DOMAIN es] :
        \A i, j \in DOMAIN es : i < j => Before(es, o[i], o[j])

\* lines 114-136; which event a row holds stands for its content
Batch(c) ==
    LET es == call[c].p.events
        order == Order(es)
    IN  [k \in DOMAIN order |->
            [type |-> es[order[k]].type, priority |-> Priority(es[order[k]]),
             content |-> <<c, order[k]>>]]

\* line 144: one INSERT; when it fails the ids stay 0, and nobody looks
InsertEvents(c) ==
    /\ At(c, "submit")
    /\ LET batch == Batch(c)
       IN  \/ /\ events' = events \o batch
              /\ Goes(c, [pc |-> "queueing", batch |-> batch, wrote |-> batch # <<>>,
                          ids |-> [i \in DOMAIN batch |-> Len(events) + i]])
              /\ UNCHANGED failures
           \/ /\ Fails
              /\ Goes(c, [pc |-> "queueing", batch |-> batch, ids |-> [i \in DOMAIN batch |-> 0]])
              /\ UNCHANGED events
    /\ UNCHANGED <<keys, endpoint, mapping, encryptionKey, crashes>>

\* slip: the last one is forgotten
AllQueuedEarly(s) == s.queued + 1 >= Len(s.batch)

AllQueued(s) == s.queued = Len(s.batch)

\* slip: the ids are counted from the first one, wrongly
JobOfNext(s, i) == [event |-> s.ids[1] + i, type |-> s.batch[i].type]

\* lines 148-151
JobOf(s, i) == [event |-> s.ids[i], type |-> s.batch[i].type]

\* lines 147-158: one job after the other, errors ignored
EnqueueEvent(c) ==
    LET s == call[c]
    IN  /\ At(c, "queueing") /\ ~AllQueued(s)
        /\ \/ mapping' = Append(mapping, JobOf(s, s.queued + 1)) /\ UNCHANGED failures
           \/ Fails /\ UNCHANGED mapping
        /\ Goes(c, [queued |-> s.queued + 1, wrote |-> s.wrote \/ mapping' # mapping])
        /\ UNCHANGED <<keys, endpoint, events, encryptionKey, crashes>>

SubmitReply(c) ==
    /\ At(c, "queueing") /\ AllQueued(call[c])
    /\ Answers(c, EncodeSubmitNewEventsResponse)
    /\ UNCHANGED <<tables, encryptionKey, failures, crashes>>

-----------------------------------------------------------------------------
(***************************************************************************)
(* The endpoints.                                                          *)
(***************************************************************************)
Secret(id) == <<"whsec", id>>

\* slip: the key is not copied, and stays zero
SealedUnderZero(text) == [text |-> text, under |-> -1]

Sealed(text) == [text |-> text, under |-> encryptionKey]

\* the error of Decrypt is ignored
Opened(sealed) == IF sealed.under = encryptionKey THEN sealed.text ELSE ""

Used == {endpoint[i].id : i \in DOMAIN endpoint} \cup {call[c].id : c \in Call}

\* lines 310-340: the error of Create is ignored
Register(c) ==
    LET p == call[c].p
    IN  /\ At(c, "register")
        /\ \E id \in EndpointId \ Used :
              \/ /\ endpoint' = Append(endpoint,
                        [id |-> id, url |-> p.url, secret |-> Sealed(Secret(id)),
                         enabled_events |-> p.enabled_events,
                         metadata |-> Omitted(p.metadata), status |-> "enabled"])
                 /\ Goes(c, [pc |-> "registered", id |-> id, wrote |-> TRUE])
                 /\ UNCHANGED failures
              \/ Fails /\ Goes(c, [pc |-> "registered", id |-> id]) /\ UNCHANGED endpoint
        /\ UNCHANGED <<keys, events, mapping, encryptionKey, crashes>>

RegisterReply(c) ==
    /\ At(c, "registered")
    /\ Answers(c, EncodeRegisterResponse(call[c].id, Secret(call[c].id)))
    /\ UNCHANGED <<tables, encryptionKey, failures, crashes>>

Unset(x) == x \in {Nil, <<>>}

\* slip: Save, which writes the zero fields too
UpdatedWhole(row, p) ==
    [row EXCEPT !.enabled_events = p.enabled_events,
                !.metadata = p.metadata,
                !.status = IF p.disabled = TRUE THEN "disabled" ELSE "enabled"]

\* lines 360-381: Updates writes the fields that are not zero; url is not read
Updated(row, p) ==
    [row EXCEPT !.enabled_events = IF Unset(p.enabled_events) THEN @ ELSE p.enabled_events,
                !.metadata = IF Unset(p.metadata) THEN @ ELSE p.metadata,
                !.status = IF p.disabled = Nil THEN @
                           ELSE IF p.disabled THEN "disabled" ELSE "enabled"]

\* line 381: nothing for an id without a row, whose new version may end up
\* anywhere in the table; the error is ignored
Update(c) ==
    LET p == call[c].p
        there == {i \in DOMAIN endpoint : endpoint[i].id = p.id}
    IN  /\ At(c, "update")
        /\ \/ /\ \E i \in there, n \in DOMAIN endpoint :
                    endpoint' = InsertAt(RemoveAt(endpoint, i), n, Updated(endpoint[i], p))
              /\ Goes(c, [pc |-> "updated", wrote |-> TRUE])
              /\ UNCHANGED failures
           \/ /\ (there = {} /\ UNCHANGED failures) \/ Fails
              /\ Goes(c, [pc |-> "updated"])
              /\ UNCHANGED endpoint
        /\ UNCHANGED <<keys, events, mapping, encryptionKey, crashes>>

UpdateReply(c) ==
    /\ At(c, "updated")
    /\ Answers(c, EncodeUpdateResponse)
    /\ UNCHANGED <<tables, encryptionKey, failures, crashes>>

\* lines 177-184: an empty key asks for nothing
Chosen(row, filters) ==
    filters # Nil => \A k \in DOMAIN filters \ {""} :
        /\ row.metadata # Nil /\ k \in DOMAIN row.metadata
        /\ row.metadata[k] = filters[k]

\* the rows a scan finds, by their places
InOrder(places) ==
    {s \in [1 .. Cardinality(places) -> places] : \A i, k \in DOMAIN s : i < k => s[i] < s[k]}

\* gorm: a limit or an offset that is not positive is none
Page(rows, limit, offset) ==
    LET past == IF offset > 0 THEN offset ELSE 0
        there == {i \in DOMAIN rows : past + i \in DOMAIN rows /\ (limit > 0 => i <= limit)}
    IN  [i \in there |-> rows[past + i]]

\* lines 172-222; the dates of the rows are left out: a bound may choose any of them
List(c) ==
    LET p == call[c].p
        there == {i \in DOMAIN endpoint : Chosen(endpoint[i], p.metadata)}
        bounded == {p.createdAtGte, p.updatedAtLt} # {Nil}
    IN  /\ At(c, "list")
        /\ \/ /\ \E within \in IF bounded THEN SUBSET there ELSE {there} :
                    \E found \in InOrder(within) :
                       LET rows == [i \in DOMAIN found |-> endpoint[found[i]]]
                       IN  Answers(c, EncodeListWebhookEndpointResponse(
                                         Page(rows, p.limit, p.offset)))
              /\ UNCHANGED failures
           \/ Fails /\ Refuses(c, 500)
        /\ UNCHANGED <<tables, encryptionKey, crashes>>

\* lines 230-265
Get(c) ==
    LET there == {i \in DOMAIN endpoint : endpoint[i].id = call[c].p.id}
    IN  /\ At(c, "get")
        /\ \/ /\ \E i \in there :
                    Answers(c, EncodeGetWebhookEndpointByIDResponse(
                                  endpoint[i], Opened(endpoint[i].secret)))
              /\ UNCHANGED failures
           \/ ((there = {} /\ UNCHANGED failures) \/ Fails) /\ Refuses(c, 500)
        /\ UNCHANGED <<tables, encryptionKey, crashes>>

-----------------------------------------------------------------------------
\* lines 90-111, from the command line: the key is printed in any case
CreateAPIKey(k) ==
    /\ k \notin keys
    /\ \/ keys' = keys \cup {k} /\ UNCHANGED failures
       \/ Fails /\ UNCHANGED keys
    /\ UNCHANGED <<endpoint, events, mapping, call, encryptionKey, crashes>>

\* the calls under way are cut off; the next server may have another key
Crash ==
    /\ crashes < MaxCrashes
    /\ crashes' = crashes + 1
    /\ call' = [c \in Call |->
           IF call[c].pc \in {"none", "untold", "answered", "closed"} THEN call[c]
           ELSE [call[c] EXCEPT !.pc = "cut"]]
    /\ encryptionKey' \in {encryptionKey, encryptionKey + 1}
    /\ UNCHANGED <<tables, failures>>

Handler(c) ==
    \/ Decode(c) \/ Authorise(c)
    \/ InsertEvents(c) \/ EnqueueEvent(c) \/ SubmitReply(c)
    \/ Register(c) \/ RegisterReply(c) \/ Update(c) \/ UpdateReply(c) \/ List(c) \/ Get(c)

Next ==
    \/ \E c \in Call : TypeCommand(c) \/ SendRaw(c) \/ Handler(c)
    \/ \E k \in ApiKey : CreateAPIKey(k)
    \/ Crash

Spec == Init /\ [][Next]_vars

-----------------------------------------------------------------------------
Ids == EndpointId \cup {Registered.id}
Is(c, method) == call[c].p # Nil /\ Route(call[c].m) = method
Accepted(c) == At(c, "answered") /\ call[c].reply.status = 200

\* Every variable keeps its type: no job names a row that events does not have,
\* no two endpoints share an id, and a handler never runs past its batch.
TypeOK ==
    /\ keys \subseteq ApiKey \cup {FirstKey}
    /\ \A i, j \in DOMAIN endpoint :
          endpoint[i].id \in Ids /\ (endpoint[i].id = endpoint[j].id => i = j)
    /\ \A j \in DOMAIN mapping : mapping[j].event \in 0 .. Len(events)
    /\ \A c \in Call : call[c].queued \in 0 .. Len(call[c].batch)
                         /\ Len(call[c].ids) = Len(call[c].batch)
    /\ failures \in 0 .. MaxFailures /\ crashes \in 0 .. MaxCrashes

\* Whoever is refused or cut by a panic can try again: the call has left nothing
\* in the tables; and what changed them came with a key that was handed out.
OnlyAcceptedWrite ==
    \A c \in Call : call[c].wrote =>
        /\ call[c].p.token \in keys
        /\ Accepted(c) \/ call[c].pc \notin {"answered", "closed"}

\* When no statement has failed, an accepted batch is all there: a row per event,
\* with its type and priority, and exactly one job for it (main.go:144-158).
AcceptedIsQueued ==
    \A c \in Call : Accepted(c) /\ Is(c, "submit") /\ failures = 0 =>
        \A i \in DOMAIN call[c].p.events :
            \E ev \in DOMAIN events :
                /\ events[ev] = [type |-> call[c].p.events[i].type, content |-> <<c, i>>,
                                 priority |-> Priority(call[c].p.events[i])]
                /\ {j \in DOMAIN mapping : mapping[j].event = ev} # {}
                /\ \A j \in DOMAIN mapping : mapping[j].event = ev =>
                      /\ mapping[j].type = events[ev].type
                      /\ \A k \in DOMAIN mapping : mapping[k].event = ev => j = k

\* The events of a batch are queued by priority, those of equal priority in the
\* order submitted, whatever is queued in between, fails or dies.
QueuedInOrder ==
    \A j, k \in DOMAIN mapping : j < k /\ mapping[j].event # 0 /\ mapping[k].event # 0 =>
        LET a == events[mapping[j].event]
            b == events[mapping[k].event]
        IN  a.content[1] = b.content[1] =>
                \/ a.priority > b.priority
                \/ a.priority = b.priority /\ a.content[2] < b.content[2]

\* An update of the enabled events, the metadata or the status is not lost, does
\* not reach another endpoint and changes no field it did not mention: each of them
\* is as registered, or as one of the updates that set it asked; as registered only
\* if none of them was accepted.  The url stays as registered, whatever is asked:
\* Update does not read it (main.go:352-381), though a request may name it.
Field == {"enabled_events", "metadata", "status"}
AskedFor(p) ==
    [enabled_events |-> IF Unset(p.enabled_events) THEN Nil ELSE p.enabled_events,
     metadata |-> IF Unset(p.metadata) THEN Nil ELSE p.metadata,
     status |-> IF p.disabled = Nil THEN Nil ELSE IF p.disabled THEN "disabled" ELSE "enabled"]
AsRegistered(id) ==
    IF id = Registered.id THEN Registered
    ELSE LET p == call[CHOOSE c \in Call : call[c].id = id].p
         IN  [url |-> p.url, enabled_events |-> p.enabled_events, metadata |-> Omitted(p.metadata),
              status |-> "enabled"]
FieldStands(i, f) ==
    LET updates == {c \in Call : Is(c, "update") /\ call[c].p.id = endpoint[i].id
                                    /\ AskedFor(call[c].p)[f] # Nil
                                    /\ call[c].pc \in {"updated", "answered", "cut"}}
    IN  \/ \E c \in updates : endpoint[i][f] = AskedFor(call[c].p)[f]
        \/ /\ endpoint[i][f] = AsRegistered(endpoint[i].id)[f]
           /\ failures = 0 => \A c \in updates : ~Accepted(c)
FieldsKept ==
    \A i \in DOMAIN endpoint :
        /\ endpoint[i].url = AsRegistered(endpoint[i].id).url
        /\ \A f \in Field : FieldStands(i, f)

\* The secret an endpoint can look up is the one it was handed out, as long as
\* the service keeps its encryption key, whatever updates came in between.
SecretsKept ==
    \A c \in Call : Accepted(c) /\ Is(c, "get") /\ encryptionKey = 0 =>
        \/ call[c].p.id = Registered.id /\ call[c].reply.body.secret = Registered.secret.text
        \/ \E d \in Call : /\ call[d].id = call[c].p.id
                           /\ Accepted(d) => call[d].reply.body.secret = call[c].reply.body.secret

\* The client takes every reply of the server: no row can get into the tables
\* that its checks refuse (a list of endpoints is never null, client/types.go:276).
ClientTakesReplies ==
    \A c \in Call : Accepted(c) => ClientTakes(Route(call[c].m), call[c].reply.body)

\* What the command line lets through the server decodes, to the same payload; only
\* empty lists and maps come out as absent.  There are three exceptions: an event
\* without content is refused; the filters of a list are lost, since the client
\* sends them under their bare keys; and where such a key is a name that the server
\* looks for, it is read as that, and may be refused or make the handler panic:
\* then only the key of the caller and the page are as they were typed.
Meant(method, p) ==
    CASE method = "register" -> [p EXCEPT !.metadata = Omitted(@)]
      [] method = "update" -> [p EXCEPT !.metadata = Omitted(@), !.enabled_events = Omitted(@)]
      [] method = "list" -> [p EXCEPT !.metadata = Nil]
      [] OTHER -> p
Misread(filters) ==
    KeysOf(filters) \cap ({"createdAt.gte", "updatedAt.lt"} \cup DOMAIN Bracketed) # {}
SameChecks ==
    \A c \in Call : call[c].client # Nil =>
        LET method == call[c].client.method
            said == [call[c].client.p EXCEPT !.token = Credential(ClientHeader(@))]
            d == IF PanicsIn(call[c].m) THEN Nil ELSE Decoded(call[c].m)
        IN  \/ d = Meant(method, said)
            \/ /\ method = "submit" /\ d = Nil
               /\ \E i \in DOMAIN said.events : said.events[i].content = Nil
            \/ /\ method = "list" /\ Misread(said.metadata)
               /\ d # Nil => /\ d.token = said.token
                             /\ d.limit = said.limit /\ d.offset = said.offset
=============================================================================
