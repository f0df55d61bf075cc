--------------------------- MODULE ConditionalGet ---------------------------
(***************************************************************************)
(* Conditional requests (web/etag.py): GETs of one route by clients that   *)
(* keep what they read, through a cache on the way, while the resource     *)
(* changes.  The handler streams its body; the middleware buffers what it  *)
(* tags.  A body is what one client may see of one version of the          *)
(* resource, and the ETag of _compute_etag is taken to be injective, so a  *)
(* tag is the body it stands for.                                          *)
(***************************************************************************)
EXTENDS Integers, Sequences

CONSTANTS
    Readers,      \* the clients, each with its own bearer token
    Routes,       \* [excluded, tagged, policy, empty]: a route and its headers
    Caches,       \* where the cache on the way is: "browser", "proxy"
    MaxGets,      \* bound: requests
    MaxResource   \* bound: versions of the resource

Gets == 1..MaxGets
NoBody == <<>>
NoCopy == [body |-> NoBody, policy |-> "none"]
NoGet == [pc |-> "idle"]

VARIABLES
    route, cacheKind,
    resource,   \* the version of the resource
    kept,       \* reader -> the body its own store holds
    copies,     \* reader -> the copy of the cache on its way
    gets

getVars == <<route, cacheKind, resource, kept, copies, gets>>

GetInit ==
    /\ route \in Routes /\ cacheKind \in Caches
    /\ resource = 1
    /\ kept = [c \in Readers |-> NoBody]
    /\ copies = [c \in Readers |-> NoCopy]
    /\ gets = [g \in Gets |-> NoGet]

GetBecomes(g, r) == gets' = [gets EXCEPT ![g] = r]

-----------------------------------------------------------------------------
(* The cache on the way, as RFC 9111 permits it to be: a browser's is its  *)
(* reader's own, a proxy serves all of them.  A response without a policy  *)
(* may be stored and reused unasked, and a 304 renews the policy.          *)

OnTheWay(c) == IF cacheKind = "browser" THEN {c} ELSE Readers
MayStore(policy) == policy \in {"none", "public"} \/ (cacheKind = "browser" /\ policy = "private, no-cache")
MayReuse(copy) == copy.body # NoBody /\ copy.policy \in {"none", "public"}
Copy(c, body, policy) ==
    copies' = [d \in Readers |-> IF d \in OnTheWay(c) THEN [body |-> body, policy |-> policy] ELSE copies[d]]

-----------------------------------------------------------------------------
(* The middleware. *)

\* _etag_matches: a list of tags; the readers modelled never send "*".
EtagMatches(ifNoneMatch, body) == body \in ifNoneMatch

\* __call__ and the start message: whether the response is left alone.
Passthrough == route.excluded \/ route.tagged \/ route.policy = "no-store"

\* _finalize: the policy is settled before the response becomes a 304.
Policy == IF route.policy = "none" THEN "private, no-cache" ELSE route.policy
FinalizeStampsTheBody(ifNoneMatch, body) ==
    CASE body = NoBody -> [status |-> 200, body |-> NoBody, policy |-> route.policy]
      [] body # NoBody /\ EtagMatches(ifNoneMatch, body) -> [status |-> 304, body |-> NoBody, policy |-> route.policy]
      [] OTHER -> [status |-> 200, body |-> body, policy |-> Policy]
Finalize(ifNoneMatch, body) ==
    CASE body = NoBody -> [status |-> 200, body |-> NoBody, policy |-> route.policy]
      [] body # NoBody /\ EtagMatches(ifNoneMatch, body) -> [status |-> 304, body |-> NoBody, policy |-> Policy]
      [] OTHER -> [status |-> 200, body |-> body, policy |-> Policy]

-----------------------------------------------------------------------------
\* A reader asks.  The cache answers by itself when it may; else the request
\* goes on with the reader's validator, or the cache's own.
Ask(g, c) ==
    /\ gets[g].pc = "idle" /\ \A h \in 1..(g - 1) : gets[h].pc # "idle"
    /\ LET copy == copies[c]
           match == {IF kept[c] # NoBody THEN kept[c] ELSE copy.body} \ {NoBody}
       IN \/ /\ MayReuse(copy)
             /\ GetBecomes(g, [pc |-> "ended", by |-> c, since |-> resource, status |-> 200, got |-> copy.body])
             /\ kept' = [kept EXCEPT ![c] = copy.body]
          \/ /\ GetBecomes(g, [pc |-> "asked", by |-> c, since |-> resource, match |-> match])
             /\ UNCHANGED kept
    /\ UNCHANGED <<route, cacheKind, resource, copies>>

\* The handler has rendered the resource and sends its start message, and
\* the first part of a body that it streams.
Render(g) ==
    /\ gets[g].pc = "asked"
    /\ LET r == gets[g] IN
       GetBecomes(g, [pc |-> "streaming", by |-> r.by, since |-> r.since, match |-> r.match, sent |-> Passthrough,
                      body |-> IF route.empty THEN NoBody ELSE <<r.by, resource>>])
    /\ UNCHANGED <<route, cacheKind, resource, kept, copies>>

\* The reader has the response: what it now takes the resource to be.
Receives(g, c, got, status) ==
    /\ GetBecomes(g, [pc |-> "ended", by |-> c, since |-> gets[g].since, status |-> status, got |-> got])
    /\ kept' = IF got = NoBody THEN kept ELSE [kept EXCEPT ![c] = got]

\* The last part of the body: the response leaves whole and passes the cache.
\* A 304 stands for the body that the request was validated with.
LastChunk(g) ==
    LET r == gets[g]
        c == r.by
        response == IF Passthrough THEN [status |-> 200, body |-> r.body, policy |-> route.policy]
                    ELSE Finalize(r.match, r.body)
        renewed == response.status = 304 /\ copies[c].body \in r.match
    IN  /\ r.pc = "streaming"
        /\ Receives(g, c, IF response.status = 200 THEN response.body
                          ELSE CHOOSE validated \in r.match : TRUE, response.status)
        /\ CASE response.status = 200 /\ response.body # NoBody /\ MayStore(response.policy) ->
                    Copy(c, response.body, response.policy)
             [] renewed -> Copy(c, copies[c].body, response.policy)
             [] OTHER -> UNCHANGED copies
        /\ UNCHANGED <<route, cacheKind, resource>>

\* The handler raises before its last part: what the middleware buffered is
\* dropped, and the error is all the reader gets.
StreamFails(g) ==
    /\ gets[g].pc = "streaming"
    /\ Receives(g, gets[g].by, NoBody, IF gets[g].sent THEN 0 ELSE 500)
    /\ UNCHANGED <<route, cacheKind, resource, copies>>

ResourceChanges ==
    /\ resource < MaxResource /\ resource' = resource + 1
    /\ UNCHANGED <<route, cacheKind, kept, copies, gets>>

GetNext ==
    \/ ResourceChanges
    \/ \E g \in Gets : (\E c \in Readers : Ask(g, c)) \/ Render(g) \/ LastChunk(g) \/ StreamFails(g)
GetSpec == GetInit /\ [][GetNext]_getVars

-----------------------------------------------------------------------------
(* A route that the middleware tags and that states no policy of its own   *)
(* is read as it is: the reader ends with its own view of the resource, no *)
(* older than its request, also after a 304 and through a cache that       *)
(* stores whatever it may, and it never sees a part of a body.             *)
ReadsAreCurrent ==
    \A g \in Gets :
        gets[g].pc = "ended" /\ ~Passthrough /\ route.policy = "none" /\ ~route.empty =>
            /\ gets[g].status # 0
            /\ gets[g].status # 500 =>
                 gets[g].got # NoBody /\ gets[g].got[1] = gets[g].by /\ gets[g].got[2] >= gets[g].since
=============================================================================
