------------------------------ MODULE Protocol ------------------------------
(***************************************************************************)
(* The checks a request passes before a handler acts on it: ServeHTTP's    *)
(* order of refusals, readObject, validJSONUnicode, the accessors of the   *)
(* body's members, and the grammar of collection names that the server     *)
(* shares with the library.  They are pure functions.  The state is an     *)
(* input that grows step by step, so that the reachable states are all     *)
(* inputs up to the bounds; each input is a text, a name, a body or a      *)
(* call, the other three then being empty.                                 *)
(*                                                                         *)
(* Bytes are one-letter strings, "quote", "bslash" and "underscore".       *)
(* utf8.Valid and json.Valid are the standard library's and appear as      *)
(* `wellFormed'.                                                           *)
(***************************************************************************)
EXTENDS Integers, SequencesExt, FiniteSetsExt

CONSTANTS
  MaxItems,    \* bound: items of a JSON text
  MaxMembers,  \* bound: members of a body
  maxNameLen,  \* 240 in the code
  maxIDSize,   \* the server's limit on document IDs
  maxRequestSize

ASSUME ProtocolAssumption ==
  /\ MaxItems \in Nat /\ MaxMembers \in Nat /\ maxNameLen \in Nat \ {0}
  /\ maxIDSize \in Nat \ {0} /\ maxRequestSize \in Nat \ {0}

VARIABLES text, name, body, call

vars == <<text, name, body, call>>

-----------------------------------------------------------------------------
(* validJSONUnicode *)

HexDigits == {"0", "7", "8", "B", "C", "D", "d", "E", "F"}   \* those that occur

HexValue == [c \in HexDigits |->
  CASE c = "0" -> 0 [] c = "7" -> 7 [] c = "8" -> 8 [] c = "B" -> 11 [] c = "C" -> 12
    [] c \in {"D", "d"} -> 13 [] c = "E" -> 14 [] c = "F" -> 15]

\* The 16-bit value of the four digits from start on, or -1.
parseHex4(data, start) ==
  LET digit(k) == HexValue[data[start + k]] IN
  IF start + 3 > Len(data) \/ \E k \in 0..3 : data[start + k] \notin HexDigits
    THEN -1
    ELSE digit(0) * 4096 + digit(1) * 256 + digit(2) * 16 + digit(3)

HighSurrogate(v) == 55296 <= v /\ v <= 56319      \* 0xD800, 0xDBFF

\* Only the lower limit of the second half.
LowSurrogateOpen(v) == 56320 <= v

LowSurrogate(v) == 56320 <= v /\ v <= 57343       \* 0xDC00, 0xDFFF

\* Where the scan goes on after the backslash at i, or 0 for an invalid escape.
EscapeEnd(data, i) ==
  LET value == parseHex4(data, i + 2) IN
  IF i + 1 > Len(data) THEN 0
  ELSE IF data[i + 1] # "u" THEN i + 2
  ELSE IF value = -1 \/ LowSurrogate(value) THEN 0
  ELSE IF ~HighSurrogate(value) THEN i + 6
  ELSE IF \/ i + 11 > Len(data) \/ data[i + 6] # "bslash" \/ data[i + 7] # "u"
          \/ ~LowSurrogate(parseHex4(data, i + 8)) THEN 0
  ELSE i + 12

Toggled(inString) == IF inString = "yes" THEN "no" ELSE "yes"

\* ends[i] holds the values of inString with which the scan gets from i to the
\* end of the data and accepts it.
validJSONUnicode(data) ==
  LET n == Len(data)
      ends[i \in 1..n + 1] ==
        LET next == ends[i + 1] IN
        {inString \in {"yes", "no"} :
           IF i > n THEN inString = "no"
           ELSE IF data[i] = "quote" THEN Toggled(inString) \in next
           ELSE IF inString = "no" \/ data[i] # "bslash" THEN inString \in next
           ELSE EscapeEnd(data, i) # 0 /\ "yes" \in ends[EscapeEnd(data, i)]}
  IN "no" \in ends[1]

-----------------------------------------------------------------------------
(* Names *)

NameBytes == {"a", "underscore", "m", "e", "t"}   \* those that occur, of a-z 0-9 _ -

\* A library that has dropped "_" from its alphabet.
validNameNarrow(n) ==
  LET seg[i \in 0..Len(n)] ==
        IF i = 0 THEN 0
        ELSE IF seg[i - 1] = -1 THEN -1
        ELSE IF n[i] = "/" THEN (IF seg[i - 1] = 0 THEN -1 ELSE 0)
        ELSE IF n[i] \in NameBytes \ {"underscore"} THEN seg[i - 1] + 1 ELSE -1
  IN Len(n) <= maxNameLen /\ seg[Len(n)] > 0

\* The library's check; medb.C panics when it fails.  seg is the length of the
\* last segment so far, -1 once the name is refused.
validName(n) ==
  LET seg[i \in 0..Len(n)] ==
        IF i = 0 THEN 0
        ELSE IF seg[i - 1] = -1 THEN -1
        ELSE IF n[i] = "/" THEN (IF seg[i - 1] = 0 THEN -1 ELSE 0)
        ELSE IF n[i] \in NameBytes THEN seg[i - 1] + 1 ELSE -1
  IN Len(n) <= maxNameLen /\ seg[Len(n)] > 0

\* The server's own copy of it.
validCollectionName(n) ==
  LET segment[i \in 0..Len(n)] ==
        IF i = 0 THEN 0
        ELSE IF segment[i - 1] = -1 THEN -1
        ELSE IF n[i] = "/" THEN (IF segment[i - 1] = 0 THEN -1 ELSE 0)
        ELSE IF n[i] \in NameBytes THEN segment[i - 1] + 1 ELSE -1
  IN Len(n) # 0 /\ Len(n) <= maxNameLen /\ segment[Len(n)] > 0

Meta == <<"underscore", "m", "e", "t", "a">>

reservedCollection(n) == n = Meta \/ IsPrefix(Append(Meta, "/"), n)

-----------------------------------------------------------------------------
(* Bodies: a sequence of members, each a name and a value *)

Null == [kind |-> "null", s |-> <<>>]
Bool == [kind |-> "bool", s |-> <<>>]      \* the literal true
Str(s) == [kind |-> "string", s |-> s]

Fail(code) == [ok |-> FALSE, code |-> code]

\* The code of the first check that fails, or "ok".
FirstOf(checks) ==
  LET i == SelectInSeq(checks, LAMBDA c : c[1]) IN IF i = 0 THEN "ok" ELSE checks[i][2]

Names(members) == {members[i].name : i \in DOMAIN members}

\* fields[name] = raw, member by member: the last of a name would stay.
Decoded(members) ==
  [n \in Names(members) |->
     members[Max({i \in DOMAIN members : members[i].name = n})].value]

readObject(r, allowed, required) ==
  LET env == r.env
      names == Names(r.members)
      code == FirstOf(<<
        <<env.encoded \/ env.media # "json", "media_type">>,
        <<env.length > maxRequestSize \/ env.size > maxRequestSize, "request_too_large">>,
        <<env.size = 0 \/ ~env.wellFormed \/ ~env.object, "invalid_json">>,
        <<Cardinality(names) # Len(r.members), "invalid_request">>,
        <<~(names \subseteq allowed), "invalid_request">>,
        <<~(required \subseteq names), "invalid_request">> >>)
  IN IF code = "ok" THEN [ok |-> TRUE, fields |-> Decoded(r.members)] ELSE Fail(code)

isJSONNull(raw) == raw = Null

\* Unmarshalling accepts null for every type and leaves the zero value.
Unmarshals(raw, kind) == raw.kind \in {kind, "null"}

Absent == [kind |-> "absent", s |-> <<>>]

stringField(fields, n) ==
  IF n \notin DOMAIN fields \/ isJSONNull(fields[n]) \/ ~Unmarshals(fields[n], "string")
    THEN Fail("invalid_request") ELSE [ok |-> TRUE, value |-> fields[n]]

\* For expires_at: null is as good as no member.
optionalStringField(fields, n) ==
  IF n \notin DOMAIN fields \/ isJSONNull(fields[n]) THEN [ok |-> TRUE, value |-> Absent]
  ELSE stringField(fields, n)

\* Without the check for null, which then reads as false.
optionalBoolFieldNull(fields, n) ==
  IF n \notin DOMAIN fields THEN [ok |-> TRUE, value |-> Absent]
  ELSE IF ~Unmarshals(fields[n], "bool")
    THEN Fail("invalid_request") ELSE [ok |-> TRUE, value |-> fields[n]]

optionalBoolField(fields, n) ==
  IF n \notin DOMAIN fields THEN [ok |-> TRUE, value |-> Absent]
  ELSE IF isJSONNull(fields[n]) \/ ~Unmarshals(fields[n], "bool")
    THEN Fail("invalid_request") ELSE [ok |-> TRUE, value |-> fields[n]]

collectionTarget(fields) ==
  LET c == stringField(fields, "collection") IN
  IF ~c.ok THEN c
  ELSE IF ~validCollectionName(c.value.s) THEN Fail("invalid_collection")
  ELSE IF reservedCollection(c.value.s) THEN Fail("reserved_collection")
  ELSE [ok |-> TRUE, collection |-> c.value.s]

documentTarget(fields) ==
  LET c == collectionTarget(fields)
      d == stringField(fields, "id")
  IN IF ~c.ok THEN c
     ELSE IF ~d.ok THEN d
     ELSE IF Len(d.value.s) > maxIDSize THEN Fail("invalid_id")
     ELSE [ok |-> TRUE, collection |-> c.collection, id |-> d.value.s]

\* What a data endpoint acts on.
DataRequest(r, schema) ==
  LET o == readObject(r, schema, schema)
  IN IF ~o.ok THEN o
     ELSE IF "id" \in schema THEN documentTarget(o.fields) ELSE collectionTarget(o.fields)

Writer == <<"w">>   \* one valid role
Uid == <<"u">>      \* one valid user id
Future == <<"f">>   \* one timestamp that lies ahead

\* What handleUserUpdate hands to Update.
UserUpdate(r) ==
  LET o == readObject(r, {"user_id", "role", "disabled"}, {"user_id"}) IN
  IF ~o.ok THEN o
  ELSE LET u == stringField(o.fields, "user_id")
           l == stringField(o.fields, "role")
           d == optionalBoolField(o.fields, "disabled")
           given == "role" \in DOMAIN o.fields
       IN IF ~u.ok THEN u
          ELSE IF u.value.s # Uid \/ (given /\ ~l.ok) THEN Fail("invalid_request")
          ELSE IF given /\ l.value.s # Writer THEN Fail("invalid_request")
          ELSE IF ~d.ok THEN d
          ELSE IF ~given /\ d.value = Absent THEN Fail("invalid_request")
          ELSE [ok |-> TRUE, role |-> IF given THEN l.value ELSE Absent,
                disabled |-> d.value]

\* The expiry that handleTokenCreate goes on with, unless the user it reads in
\* between does not allow a token.
TokenRequest(r) ==
  LET o == readObject(r, {"user_id", "label", "expires_at"}, {"user_id", "label"}) IN
  IF ~o.ok THEN o
  ELSE LET u == stringField(o.fields, "user_id")
           l == stringField(o.fields, "label")
           e == optionalStringField(o.fields, "expires_at")
       IN IF ~u.ok THEN u
          ELSE IF u.value.s # Uid \/ ~l.ok THEN Fail("invalid_request")
          ELSE IF l.value.s = <<>> \/ ~e.ok THEN Fail("invalid_request")
          ELSE IF e.value \notin {Absent, Str(Future)} THEN Fail("invalid_request")
          ELSE [ok |-> TRUE, expires |-> e.value]

-----------------------------------------------------------------------------
(* ServeHTTP *)

\* Without authentication there are no routes below /v1/auth.
Route(p, m, r) == [path |-> p, method |-> m, role |-> r]
Routes(noAuth) ==
  {Route("/v1/collections", "GET", "reader")}
  \cup {Route(p, "POST", "reader") : p \in {"/v1/get", "/v1/has", "/v1/count", "/v1/scan"}}
  \cup {Route(p, "POST", "writer") : p \in {"/v1/set", "/v1/delete"}}
  \cup {Route("/v1/drop", "POST", "admin")}
  \cup (IF noAuth THEN {}
        ELSE {Route("/v1/auth/users", "GET", "admin")}
             \cup {Route(p, "POST", "admin") :
                     p \in {"/v1/auth/users/create", "/v1/auth/users/update",
                            "/v1/auth/tokens/create", "/v1/auth/tokens/list",
                            "/v1/auth/tokens/revoke"}})

V1Paths == {r.path : r \in Routes(FALSE)} \cup {"/v1/none"}
Roles == {"reader", "writer", "admin"}

roleAllows(actual, required) ==
  LET rank == [reader |-> 1, writer |-> 2, admin |-> 3] IN rank[actual] >= rank[required]

\* The failure, or the role; a header is absent, repeated, not a bearer
\* credential, an unknown token, or the token of a user with that role.
authenticateRequest(c) ==
  IF c.header = "absent" THEN "authentication_required"
  ELSE IF c.header \in Roles THEN c.header ELSE "invalid_token"

handleHealth(c) == FirstOf(<<
  <<c.method # "GET", "method_not_allowed">>,
  <<c.query \/ c.content, "invalid_request">>,
  <<c.down, "unavailable">> >>)

\* Looking the route up before the credential.
ServeHTTPRouteFirst(c) ==
  LET routes == {r \in Routes(c.noAuth) : r.path = c.path}
      route == CHOOSE r \in routes : TRUE
      actor == IF c.noAuth THEN "admin" ELSE authenticateRequest(c)
  IN IF c.path = "/healthz" THEN handleHealth(c)
     ELSE IF c.path \notin V1Paths THEN "route_not_found"
     ELSE IF c.down THEN "unavailable"
     ELSE IF routes = {} THEN "route_not_found"
     ELSE IF actor \notin Roles THEN actor
     ELSE FirstOf(<<
       <<c.method # route.method, "method_not_allowed">>,
       <<c.query, "invalid_request">>,
       <<c.method = "GET" /\ c.content, "invalid_request">>,
       <<~roleAllows(actor, route.role), "forbidden">> >>)

\* The refusal, or "ok" when the route's handler runs.
ServeHTTP(c) ==
  LET routes == {r \in Routes(c.noAuth) : r.path = c.path}
      route == CHOOSE r \in routes : TRUE
      actor == IF c.noAuth THEN "admin" ELSE authenticateRequest(c)
  IN IF c.path = "/healthz" THEN handleHealth(c)
     ELSE IF c.path \notin V1Paths THEN "route_not_found"
     ELSE IF c.down THEN "unavailable"
     ELSE IF actor \notin Roles THEN actor
     ELSE IF routes = {} THEN "route_not_found"
     ELSE FirstOf(<<
       <<c.method # route.method, "method_not_allowed">>,
       <<c.query, "invalid_request">>,
       <<c.method = "GET" /\ c.content, "invalid_request">>,
       <<~roleAllows(actor, route.role), "forbidden">> >>)

-----------------------------------------------------------------------------
(* Inputs *)

HighUnits == {<<"D", "8", "0", "0">>, <<"d", "B", "F", "F">>}
LowUnits == {<<"D", "C", "0", "0">>, <<"D", "F", "F", "F">>}
OtherUnits == {<<"D", "7", "F", "F">>, <<"E", "0", "0", "0">>}
NoUnits == {<<"D", "8", "g", "0">>}
Escape(u) == <<"bslash", "u", u[1], u[2], u[3], u[4]>>

Quote == <<"quote">>
OutsideItems == {Quote, <<"a">>}
InsideItems ==
  {Quote, <<"a">>, <<"u", "D", "8", "0", "0">>, <<"bslash", "bslash">>, <<"bslash", "quote">>}
  \cup {Escape(u) : u \in HighUnits \cup LowUnits \cup OtherUnits \cup NoUnits}

Quotes(items) == Cardinality({i \in DOMAIN items : items[i] = Quote})

NamePieces == {<<"a">>, <<"/">>, <<"A">>, Meta}

Members(n, values) == {[name |-> n, value |-> v] : v \in values}
Extra == Members("extra", {Bool})
IDs == {Str(<<>>), Str(<<"a">>), Str(Meta)}
DataMembers ==
  Members("collection", {Null, Bool, Str(<<"a">>), Str(<<"A">>), Str(Meta)})
  \cup Members("id", {Null, Bool} \cup IDs)
  \cup Members("document", {Null, Bool}) \cup Extra
UserMembers ==
  Members("user_id", {Null, Str(Uid), Str(<<"a">>)})
  \cup Members("role", {Null, Bool, Str(Writer), Str(<<"a">>)})
  \cup Members("disabled", {Null, Bool, Str(<<>>)}) \cup Extra
TokenMembers ==
  Members("user_id", {Null, Str(Uid)}) \cup Members("label", {Null, Str(<<"a">>), Str(<<>>)})
  \cup Members("expires_at", {Null, Bool, Str(Future), Str(<<"a">>)}) \cup Extra

\* How a body arrives: as it should, or with one thing wrong.  A length of -1
\* is that of a chunked body.
Plain == [encoded |-> FALSE, media |-> "json", length |-> maxRequestSize,
          size |-> maxRequestSize, wellFormed |-> TRUE, object |-> TRUE]
Envelopes == {Plain, [Plain EXCEPT !.encoded = TRUE], [Plain EXCEPT !.media = "other"],
              [Plain EXCEPT !.length = maxRequestSize + 1, !.size = maxRequestSize + 1],
              [Plain EXCEPT !.length = -1, !.size = maxRequestSize + 1],
              [Plain EXCEPT !.length = 0, !.size = 0],
              [Plain EXCEPT !.wellFormed = FALSE], [Plain EXCEPT !.object = FALSE]}

Calls == [path : V1Paths \cup {"/healthz", "/"}, method : {"GET", "POST"},
          query : BOOLEAN, content : BOOLEAN, down : BOOLEAN, noAuth : BOOLEAN,
          header : Roles \cup {"absent", "repeated", "malformed", "unknown"}]

NoBody == [env |-> Plain, members |-> <<>>]

Init == text = <<>> /\ name = <<>> /\ body = NoBody /\ call = {}

GrowText ==
  /\ name = <<>> /\ body = NoBody /\ call = {}
  /\ Len(text) < MaxItems
  /\ \E item \in IF Quotes(text) % 2 = 1 THEN InsideItems ELSE OutsideItems :
       text' = Append(text, item)
  /\ UNCHANGED <<name, body, call>>

GrowName ==
  /\ text = <<>> /\ body = NoBody /\ call = {}
  /\ Len(name) <= maxNameLen
  /\ \E piece \in NamePieces : name' = name \o piece
  /\ UNCHANGED <<text, body, call>>

GrowBody ==
  /\ text = <<>> /\ name = <<>> /\ call = {}
  /\ Len(body.members) < MaxMembers /\ body.env = Plain
  /\ \E alphabet \in {DataMembers, UserMembers, TokenMembers} :
       /\ ToSet(body.members) \subseteq alphabet
       /\ \E m \in alphabet : body' = [body EXCEPT !.members = Append(@, m)]
  /\ UNCHANGED <<text, name, call>>

SendBody ==
  /\ body.env = Plain /\ Len(body.members) \in 1..3
  /\ \E e \in Envelopes \ {Plain} : body' = [body EXCEPT !.env = e]
  /\ UNCHANGED <<text, name, call>>

Request ==
  /\ text = <<>> /\ name = <<>> /\ body = NoBody /\ call = {}
  /\ \E c \in Calls : call' = {c}
  /\ UNCHANGED <<text, name, body>>

Next == GrowText \/ GrowName \/ GrowBody \/ SendBody \/ Request

Spec == Init /\ [][Next]_vars

-----------------------------------------------------------------------------
(* Properties *)

\* validJSONUnicode accepts a text exactly when its strings are closed, its
\* \u escapes are hexadecimal and each first half of a surrogate pair stands
\* before a second half and conversely; escaped backslashes and quotes do not
\* confuse it, and it refuses a text that ends within an escape.
UnicodeExact ==
  LET unit(i, units) == i \in DOMAIN text /\ text[i] \in {Escape(u) : u \in units}
      bytes == FlattenSeq(text)
      cut == IF text = <<>> THEN 0 ELSE Len(Last(text)) - 1
  IN /\ validJSONUnicode(bytes) <=>
          /\ Quotes(text) % 2 = 0
          /\ \A i \in 0..Len(text) : /\ ~unit(i, NoUnits)
                                     /\ unit(i, HighUnits) <=> unit(i + 1, LowUnits)
     /\ \A k \in 1..cut : ~validJSONUnicode(SubSeq(bytes, 1, Len(bytes) - k))

\* A path: not too long, bytes of the alphabet, no slash at either end or next
\* to another.
IsPath(n) ==
  /\ Len(n) \in 1..maxNameLen /\ ToSet(n) \subseteq NameBytes \cup {"/"}
  /\ n[1] # "/" /\ n[Len(n)] # "/"
  /\ \A i \in 2..Len(n) : n[i - 1] = "/" => n[i] # "/"

\* Its first segment is _meta.
InMeta(n) == \E k \in 1..Len(n) : /\ SubSeq(n, 1, k) = Meta
                                  /\ k < Len(n) => n[k + 1] = "/"

\* The name a request may address is a path outside the _meta directory, all
\* of those can be addressed, and medb.C does not panic on any of them: the
\* server's copy of the grammar accepts no name that the library's refuses.
TargetsExact ==
  LET t == collectionTarget([collection |-> Str(name)])
  IN /\ t.ok <=> IsPath(name) /\ ~InMeta(name)
     /\ t.ok => t.collection = name /\ validName(name)

NoRepeats(members) ==
  \A i, j \in DOMAIN members : members[i].name = members[j].name => i = j
ValueIn(members, n, values) ==
  \A i \in DOMAIN members : members[i].name = n => members[i].value \in values
\* What a reader that stops at the first member of that name finds.
FirstValue(members, n) ==
  LET i == SelectInSeq(members, LAMBDA m : m.name = n)
  IN IF i = 0 THEN Absent ELSE members[i].value

\* An accepted body has one reading.  It has each member once and none that
\* the endpoint ignores, so that a reader that takes the first of two agrees;
\* a null never stands for "", false or the zero role; and nothing else is
\* refused.
OneReading ==
  LET ms == body.members
      sound == body.env = Plain /\ NoRepeats(ms)
      u == UserUpdate(body)
      k == TokenRequest(body)
  IN /\ \A schema \in {{"collection"}, {"collection", "id"}, {"collection", "id", "document"}} :
          LET t == DataRequest(body, schema) IN
          /\ t.ok <=> /\ sound /\ Names(ms) = schema
                      /\ ValueIn(ms, "collection", {Str(<<"a">>)})
                      /\ ValueIn(ms, "id", {v \in IDs : Len(v.s) <= maxIDSize})
          /\ t.ok => /\ Str(t.collection) = FirstValue(ms, "collection")
                     /\ "id" \in schema => Str(t.id) = FirstValue(ms, "id")
     /\ u.ok <=> /\ sound /\ Names(ms) \subseteq {"user_id", "role", "disabled"}
                 /\ "user_id" \in Names(ms) /\ Cardinality(Names(ms)) > 1
                 /\ ValueIn(ms, "user_id", {Str(Uid)})
                 /\ ValueIn(ms, "role", {Str(Writer)}) /\ ValueIn(ms, "disabled", {Bool})
     /\ u.ok => u.role = FirstValue(ms, "role") /\ u.disabled = FirstValue(ms, "disabled")
     /\ k.ok <=> /\ sound /\ Names(ms) \subseteq {"user_id", "label", "expires_at"}
                 /\ {"user_id", "label"} \subseteq Names(ms)
                 /\ ValueIn(ms, "user_id", {Str(Uid)}) /\ ValueIn(ms, "label", {Str(<<"a">>)})
                 /\ ValueIn(ms, "expires_at", {Null, Str(Future)})
     /\ k.ok => /\ k.expires \in {Str(Future), Absent}
                /\ k.expires = Absent <=> FirstValue(ms, "expires_at") \in {Absent, Null}

\* A client without a valid credential gets one answer for everything below
\* /v1: it cannot find out which routes there are, and no handler runs.
NoProbe ==
  \A c \in call :
    (~c.noAuth /\ c.header \notin Roles /\ c.path \in V1Paths) =>
      /\ ServeHTTP(c) # "ok"
      /\ \A p \in V1Paths, m \in {"GET", "POST"}, q, b \in BOOLEAN :
           ServeHTTP([c EXCEPT !.path = p, !.method = m, !.query = q, !.content = b])
             = ServeHTTP(c)
=============================================================================
