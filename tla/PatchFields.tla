----------------------------- MODULE PatchFields -----------------------------
(***************************************************************************)
(* The PATCH helpers of grpc/calls.py: a caller builds a request from the  *)
(* fields it wants changed, the service reads it back with the optional_*  *)
(* helpers and changes its record.  A field of the message either tracks   *)
(* its presence (proto3 optional, messages, wrappers of repeated fields)   *)
(* or is a plain scalar, absent when it holds its default, here 0.         *)
(***************************************************************************)
EXTENDS Integers

CONSTANTS PatchNames,     \* the fields of the message
          WithPresence,   \* those that track their presence
          PatchValues,    \* what a field may be set to, 0 included
          MaxPatches      \* bound: requests sent

ASSUME PatchAssumption == PatchValues \subseteq Nat

VARIABLES request,   \* field -> [has, value], the message being built
          record,    \* field -> value, what the service stores
          asked,     \* field -> the value this request was asked to set, or Absent
          wanted,    \* history: field -> the value last asked for in a sent request
          patches    \* requests sent

patchVars == <<request, record, asked, wanted, patches>>

Absent == -2     \* absent from the call, or the UNSET sentinel
NoneValue == -1   \* the value None
Arguments == PatchValues \cup {NoneValue, Absent}
Blank == [f \in PatchNames |-> [has |-> FALSE, value |-> 0]]

PatchInit ==
    /\ request = Blank
    /\ record = [f \in PatchNames |-> 1] /\ wanted = record
    /\ asked = [f \in PatchNames |-> Absent]
    /\ patches = 0

\* setattr on the message, CopyFrom of a wrapper.
Assign(values) == request' = [f \in PatchNames |->
    IF f \in DOMAIN values THEN [has |-> TRUE, value |-> values[f]] ELSE request[f]]
Asks(values) == asked' = [f \in PatchNames |->
    IF f \in DOMAIN values THEN values[f] ELSE asked[f]]

\* apply_optional_fields and apply_optional_repeated: None is no change.
TruthyFields(arguments) ==
    [f \in {g \in DOMAIN arguments : arguments[g] \notin {NoneValue, Absent, 0}} |-> arguments[f]]
OptionalFields(arguments) ==
    [f \in {g \in DOMAIN arguments : arguments[g] \notin {NoneValue, Absent}} |-> arguments[f]]

\* present_fields: None is no change, or the value that clears the field.
PresentFields(arguments, noneValue) ==
    [f \in {g \in DOMAIN arguments : arguments[g] # Absent
                                     /\ (arguments[g] = NoneValue => noneValue # Absent)} |->
        IF arguments[f] = NoneValue THEN noneValue ELSE arguments[f]]

\* What the caller means by its arguments, stated without the helpers.
Meant(arguments, noneValue) ==
    [f \in {g \in DOMAIN arguments : \/ arguments[g] \in PatchValues
                                     \/ arguments[g] = NoneValue /\ noneValue # Absent} |->
        IF arguments[f] = NoneValue THEN noneValue ELSE arguments[f]]

ApplyOptional == \E fields \in SUBSET PatchNames : \E arguments \in [fields -> Arguments] :
    /\ Assign(OptionalFields(arguments))
    /\ Asks(Meant(arguments, Absent))
    /\ UNCHANGED <<record, wanted, patches>>
ApplyPresent == \E fields \in SUBSET PatchNames, noneValue \in {Absent, 0} :
    \E arguments \in [fields -> Arguments] :
        /\ Assign(PresentFields(arguments, noneValue))
        /\ Asks(Meant(arguments, noneValue))
        /\ UNCHANGED <<record, wanted, patches>>

\* _field_is_present, and the optional_* readers on it.
FieldIsPresent(f) == IF f \in WithPresence THEN request[f].has ELSE request[f].value # 0
OptionalValue(f) == IF FieldIsPresent(f) THEN request[f].value ELSE NoneValue

\* The service changes the fields it reads a value for.
Receive ==
    /\ patches < MaxPatches /\ patches' = patches + 1
    /\ record' = [f \in PatchNames |-> IF OptionalValue(f) = NoneValue THEN record[f] ELSE OptionalValue(f)]
    /\ wanted' = [f \in PatchNames |-> IF asked[f] = Absent THEN wanted[f] ELSE asked[f]]
    /\ request' = Blank /\ asked' = [f \in PatchNames |-> Absent]

PatchNext == patches < MaxPatches /\ (ApplyOptional \/ ApplyPresent \/ Receive)
PatchSpec == PatchInit /\ [][PatchNext]_patchVars

(* However a request is put together, the record ends with what callers    *)
(* last asked for, untouched fields untouched, and a field that tracks     *)
(* presence can be set to its default and cleared.  A plain scalar set to  *)
(* its default is the one change that does not arrive.                     *)
PatchArrives ==
    \A f \in PatchNames : f \in WithPresence \/ wanted[f] # 0 => record[f] = wanted[f]
=============================================================================
