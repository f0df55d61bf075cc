----------------------------- MODULE Projection -----------------------------
(***************************************************************************)
(* What one response shows (web/projection.py): the client's selection, a  *)
(* ProjectionSpec that with_projection() attaches to the request, and the  *)
(* caller's ResponsePolicy.  A serializer asks both about its fields and   *)
(* hands their child() to the serializer of a nested block, so the meaning *)
(* of a path must survive the descent.  A path is the sequence of its      *)
(* segments.                                                               *)
(***************************************************************************)
EXTENDS Filtering

CONSTANTS
    Requests,    \* pairs: [fields, include, exclude, restricted], the raw query, and
                 \* [allowed, denied, all], what the caller may see
    Endpoints,   \* sets of paths: what with_projection() is declared with
    Blocks,      \* prefixes a serializer descends by
    Leaves,      \* paths a serializer asks about
    Folded,      \* raw segment -> segment.strip().lower()
    MaxDescents  \* bound: nested blocks

Segment == {Folded[s] : s \in DOMAIN Folded}
RawPath == Seq(DOMAIN Folded)
ResponsePath == Seq(Segment) \ {<<>>}

\* The paths of a query are as the client wrote them; those of the code are
\* normalized, and normalizing them again is possible.
ASSUME ProjectionAssumption ==
    /\ Requests \subseteq [fields : SUBSET RawPath, include : SUBSET RawPath, exclude : SUBSET RawPath, restricted : BOOLEAN]
                    \X [allowed : SUBSET ResponsePath, denied : SUBSET ResponsePath, all : BOOLEAN]
    /\ Endpoints \subseteq SUBSET ResponsePath
    /\ Blocks \subseteq ResponsePath
    /\ Leaves \subseteq ResponsePath \cap RawPath

VARIABLES
    query,     \* what the client asked for, normalized
    endpoint,  \* the paths with_projection() was declared with
    policy,    \* the policy at the root
    spec,      \* the spec of the serializer at work
    view,      \* the policy of the serializer at work
    at,        \* the path from the root to its block
    stepwise,  \* history: every descent was by one segment
    phase

projectionVars == <<query, endpoint, policy, spec, view, at, stepwise, phase>>

-----------------------------------------------------------------------------
(* Paths. *)

NormalizePath(raw) == Filtered([i \in DOMAIN raw |-> Folded[raw[i]]], Segment \ {""})
NormalizePaths(raws) == {NormalizePath(raw) : raw \in raws} \ {<<>>}

\* Of whole segments: the parent itself, or the parent and a dot.
Leads(s, t) == Len(s) <= Len(t) /\ SubSeq(t, 1, Len(s)) = s
IsSameOrDescendant(value, parent) == Leads(parent, value)
PathsRelated(left, right) == IsSameOrDescendant(left, right) \/ IsSameOrDescendant(right, left)
AnyAbove(paths, path) == \E p \in paths : IsSameOrDescendant(path, p)
AnyRelated(paths, path) == \E p \in paths : PathsRelated(p, path)

-----------------------------------------------------------------------------
(* ProjectionSpec. *)

FromQueryParams(q) ==
    [fields |-> NormalizePaths(q.fields), include |-> NormalizePaths(q.include),
     exclude |-> NormalizePaths(q.exclude), restricted |-> q.restricted]

ExcludesPath(s, path) == AnyAbove(s.exclude, path)

Has(s, path) ==
    /\ path # <<>> /\ ~ExcludesPath(s, path)
    /\ s.restricted => path \in s.fields \cup s.include

Needs(s, path) ==
    /\ path # <<>> /\ ~ExcludesPath(s, path)
    /\ s.restricted =>
         \E entry \in s.fields \cup s.include : PathsRelated(entry, path) /\ ~ExcludesPath(s, entry)

RestrictTo(s, allowed) ==
    LET keep(paths) == {p \in paths : AnyRelated(allowed, p)} IN
    [fields |-> keep(s.fields), include |-> keep(s.include),
     exclude |-> keep(s.exclude), restricted |-> s.restricted]

Excluding(s, paths) == [s EXCEPT !.exclude = @ \cup NormalizePaths(paths)]

\* The paths below a prefix, as seen from it; the prefix itself stays as it is.
RemovePrefix(path, prefix) == SubSeq(path, Len(prefix) + 1, Len(path))
Below(paths, prefix) ==
    {RemovePrefix(p, prefix) : p \in {q \in paths : q # prefix /\ IsSameOrDescendant(q, prefix)}}
Trim(paths, prefix) == Below(paths, prefix) \cup (paths \cap {prefix})

ChildOfSelected(s, prefix) ==
    [fields |-> Below(s.fields, prefix), include |-> Trim(s.include, prefix),
     exclude |-> Trim(s.exclude, prefix), restricted |-> s.restricted]
Child(s, prefix) ==
    IF ~s.restricted /\ s.include = {} /\ s.exclude = {} THEN s
    ELSE [fields |-> Below(s.fields, prefix), include |-> Trim(s.include, prefix),
          exclude |-> Trim(s.exclude, prefix), restricted |-> s.restricted /\ prefix \notin s.fields]

-----------------------------------------------------------------------------
(* ResponsePolicy. *)

CanView(p, path) ==
    path # <<>> /\ ~AnyAbove(p.denied, path) /\ (p.all \/ AnyRelated(p.allowed, path))

PolicyChild(p, prefix) ==
    [allowed |-> Trim(p.allowed, prefix), denied |-> Trim(p.denied, prefix), all |-> p.all /\ CanView(p, prefix)]

-----------------------------------------------------------------------------
NoQuery == [fields |-> {}, include |-> {}, exclude |-> {}, restricted |-> FALSE]
NoView == [allowed |-> {}, denied |-> {}, all |-> FALSE]

ProjectionInit ==
    /\ query = NoQuery /\ endpoint = {} /\ spec = NoQuery /\ policy = NoView /\ view = NoView
    /\ at = <<>> /\ stepwise = TRUE /\ phase = "arriving"

\* with_projection's wrapper: the query parameters become the spec of the
\* request, cut to the paths of the endpoint, before the handler runs; the
\* handler finds it with request_projection() and resolves the policy.
WithProjection(q, allowed, p) ==
    /\ phase = "arriving" /\ phase' = "handling"
    /\ query' = FromQueryParams(q) /\ endpoint' = allowed
    /\ spec' = RestrictTo(query', allowed)
    /\ policy' = p /\ view' = p
    /\ UNCHANGED <<at, stepwise>>

\* The handler takes further paths out of the response.
Withhold(paths) ==
    /\ phase = "handling" /\ at = <<>>
    /\ spec' = Excluding(spec, paths) /\ query' = Excluding(query, paths)
    /\ UNCHANGED <<endpoint, policy, view, at, stepwise, phase>>

\* A serializer whose block is wanted and may be seen is run for a nested one.
Descend(prefix) ==
    /\ phase = "handling" /\ Len(at) < MaxDescents
    /\ Needs(spec, prefix) /\ CanView(view, prefix)
    /\ spec' = Child(spec, prefix) /\ view' = PolicyChild(view, prefix)
    /\ at' = at \o prefix
    /\ stepwise' = (stepwise /\ Len(prefix) = 1)
    /\ UNCHANGED <<query, endpoint, policy, phase>>

ProjectionNext ==
    \/ \E request \in Requests, allowed \in Endpoints : WithProjection(request[1], allowed, request[2])
    \/ \E path \in Leaves : Withhold({path})
    \/ \E prefix \in Blocks : Descend(prefix)
ResponseSpec == ProjectionInit /\ [][ProjectionNext]_projectionVars

-----------------------------------------------------------------------------
\* What the client selected, said of whole paths: a field or anything in a
\* block of `fields', or a path of `include', unless it is excluded.
Selected(path) ==
    /\ ~ExcludesPath(query, path)
    /\ query.restricted => AnyAbove(query.fields, path) \/ path \in query.include

\* child() keeps the prefix it was called with among the paths of the child,
\* where it means a block of the same name.
Namesake(path) == \E i, j \in DOMAIN at \cup {Len(at) + 1} : i < j /\ (at \o path)[i] = (at \o path)[j]

(* The answers of a nested serializer are those of the root.  Of the paths *)
(* of the endpoint it shows only what the query selected, however the      *)
(* descents were made, and when they were made one segment at a time none  *)
(* of its own fields is missing.  Its policy shows nothing that the policy *)
(* of the caller does not, and what is shown was also loaded (needs).      *)
DescentKeepsMeaning ==
    phase = "handling" =>
        \A path \in Leaves :
            LET whole == at \o path IN
            /\ Has(spec, path) => Needs(spec, path)
            /\ at # <<>> /\ AnyRelated(endpoint, whole) /\ ~Namesake(path) =>
                 /\ Has(spec, path) => Selected(whole)
                 /\ stepwise /\ Len(path) = 1 /\ Selected(whole) => Has(spec, path)
            /\ CanView(view, path) => CanView(policy, whole)
            /\ policy.all => CanView(view, path) = CanView(policy, whole)
=============================================================================
