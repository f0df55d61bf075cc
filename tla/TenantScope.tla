---------------------------- MODULE TenantScope ----------------------------
(***************************************************************************)
(* Row scoping (security/tenancy.py): models register how their rows are   *)
(* owned, statements are narrowed by scoped() or waived by unscoped(), and *)
(* the guard on the session class refuses an ORM SELECT that touches a     *)
(* registered model and carries no stamp.  Imports register models while   *)
(* requests already run, so registration, installation and queries         *)
(* interleave.                                                             *)
(*                                                                         *)
(* A statement is the models it reads, the conditions put on each, and its *)
(* stamp; the database answers with the rows that meet the conditions.     *)
(***************************************************************************)

CONSTANTS
    Models,     \* ORM models
    Rows,       \* [model, kind, id]: what the tables hold
    OwnerKind,  \* the owner_kind that register_owner_scope() names
    Subjects,   \* [accounts, operator]: who asks
    Joins,      \* sets of models a SELECT reads
    Reasons     \* what callers of unscoped() give, "" among them

ASSUME TenancyAssumption ==
    /\ Joins \subseteq SUBSET Models
    /\ \A subject \in Subjects : subject.operator \in BOOLEAN

NoSubject == [accounts |-> {}, operator |-> FALSE]
NoStatement == [reads |-> {}, conditions |-> {}, stamp |-> "none", scopedFor |-> {}, by |-> NoSubject]

VARIABLES
    registry,   \* _REGISTRY: model -> "none", "owner", "tenant"
    guard,      \* _GUARD_FLAG of the session class: its listener is installed
    statement,  \* the statement in hand
    outcome     \* what executing it came to

tenancyVars == <<registry, guard, statement, outcome>>

NoOutcome == [kind |-> "none", rows |-> {}, guarded |-> FALSE, registered |-> {}]

TenancyInit ==
    /\ registry = [m \in Models |-> "none"]
    /\ guard = FALSE
    /\ statement = NoStatement
    /\ outcome = NoOutcome

Registered == {m \in Models : registry[m] # "none"}

RegisterOwnerScope(m) ==
    /\ registry' = [registry EXCEPT ![m] = "owner"]
    /\ UNCHANGED <<guard, statement, outcome>>

RegisterTenantScope(m) ==
    /\ registry' = [registry EXCEPT ![m] = "tenant"]
    /\ UNCHANGED <<guard, statement, outcome>>

\* install_scope_guard(): a second call finds the flag and adds no listener.
InstallScopeGuard ==
    /\ guard' = TRUE
    /\ UNCHANGED <<registry, statement, outcome>>

Select(models) ==
    /\ outcome = NoOutcome /\ statement = NoStatement
    /\ statement' = [NoStatement EXCEPT !.reads = models]
    /\ UNCHANGED <<registry, guard, outcome>>

-----------------------------------------------------------------------------
\* A condition on the rows of a model: ids and kinds it lets through.
Kinds == {r.kind : r \in Rows}
Condition(m, ids, kinds) == [model |-> m, ids |-> ids, kinds |-> kinds]
NoRow(m) == Condition(m, {}, {})

\* The conditions that scoped() adds, and the stamp it puts.
NarrowedOpen(m, subject) ==
    CASE subject.operator -> [conditions |-> {}, stamp |-> "operator"]
      [] ~subject.operator /\ subject.accounts = {} -> [conditions |-> {}, stamp |-> "denied"]
      [] OTHER -> [conditions |-> {Condition(m, subject.accounts, IF registry[m] = "owner" THEN {OwnerKind} ELSE Kinds)},
                   stamp |-> "subject"]
Narrowed(m, subject) ==
    CASE subject.operator -> [conditions |-> {}, stamp |-> "operator"]
      [] ~subject.operator /\ subject.accounts = {} -> [conditions |-> {NoRow(n) : n \in statement.reads}, stamp |-> "denied"]
      [] OTHER -> [conditions |-> {Condition(m, subject.accounts, IF registry[m] = "owner" THEN {OwnerKind} ELSE Kinds)},
                   stamp |-> "subject"]

\* scoped(): one subject asks for all that a statement is narrowed by.  A
\* model without a registration raises UnscopedModelError.
Scoped(m, subject) ==
    /\ outcome = NoOutcome /\ m \in statement.reads
    /\ statement.scopedFor = {} \/ statement.by = subject
    /\ IF registry[m] = "none"
       THEN /\ outcome' = [NoOutcome EXCEPT !.kind = "UnscopedModelError"]
            /\ statement' = NoStatement
       ELSE /\ LET narrowed == Narrowed(m, subject) IN
               statement' = [statement EXCEPT !.conditions = @ \cup narrowed.conditions, !.stamp = narrowed.stamp,
                                              !.scopedFor = @ \cup {<<m, registry[m]>>}, !.by = subject]
            /\ UNCHANGED outcome
    /\ UNCHANGED <<registry, guard>>

Unscoped(reason) ==
    /\ outcome = NoOutcome /\ statement.reads # {}
    /\ IF reason = ""
       THEN /\ outcome' = [NoOutcome EXCEPT !.kind = "ValueError"]
            /\ statement' = NoStatement
       ELSE /\ statement' = [statement EXCEPT !.stamp = "unscoped"]
            /\ UNCHANGED outcome
    /\ UNCHANGED <<registry, guard>>

-----------------------------------------------------------------------------
\* The listener, run before the statement reaches the database.
GuardRefuses == guard /\ statement.stamp = "none" /\ statement.reads \cap Registered # {}

Meets(row, conditions) ==
    \A c \in conditions : row.model = c.model => row.id \in c.ids /\ row.kind \in c.kinds

\* session.execute(): what the rows of each model read may be.  A condition
\* that lets nothing through empties the whole answer of a join.
Answer ==
    IF \E c \in statement.conditions : c.ids = {} THEN {}
    ELSE {r \in Rows : r.model \in statement.reads /\ Meets(r, statement.conditions)}

Execute ==
    /\ outcome = NoOutcome /\ statement.reads # {}
    /\ outcome' = [kind |-> IF GuardRefuses THEN "UnscopedQueryError" ELSE statement.stamp,
                   rows |-> IF GuardRefuses THEN {} ELSE Answer,
                   guarded |-> guard, registered |-> Registered \cap statement.reads]
    /\ UNCHANGED <<registry, guard, statement>>

\* The caller goes on to its next statement.
Done ==
    /\ outcome.kind # "none" /\ statement' = NoStatement /\ outcome' = NoOutcome
    /\ UNCHANGED <<registry, guard>>

TenancyNext ==
    \/ \E m \in Models : RegisterOwnerScope(m) \/ RegisterTenantScope(m)
    \/ InstallScopeGuard \/ Execute \/ Done
    \/ \E models \in Joins : Select(models)
    \/ \E m \in Models, subject \in Subjects : Scoped(m, subject)
    \/ \E reason \in Reasons : Unscoped(reason)
TenancySpec == TenancyInit /\ [][TenancyNext]_tenancyVars

-----------------------------------------------------------------------------
(* A SELECT that runs under the guard shows the rows of a registered model *)
(* only if someone decided so: it was waived, an operator asked, or the    *)
(* statement was scoped, and the rows of every model it was scoped for are *)
(* the subject's (none at all for a subject without accounts).             *)
RowsAreTheSubjects ==
    outcome.guarded /\ outcome.kind \notin {"unscoped", "operator"} =>
        \A r \in outcome.rows :
            /\ r.model \in outcome.registered => statement.scopedFor # {}
            /\ \A scope \in statement.scopedFor :
                 scope[1] = r.model => /\ r.id \in statement.by.accounts
                                       /\ scope[2] = "owner" => r.kind = OwnerKind
=============================================================================
