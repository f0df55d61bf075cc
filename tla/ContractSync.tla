---------------------------- MODULE ContractSync ----------------------------
(***************************************************************************)
(* lp-sync-contract (grpc/contracts.py) and lp-generate-grpc               *)
(* (grpc/codegen.py, grpc/imported.py) as processes on one checkout: the   *)
(* first puts a contract on disk at its pinned commit, the second compiles *)
(* it, with the consumer's own protos, into one output directory.  A       *)
(* process may be killed between two steps, the tag may move in its        *)
(* repository, and a developer may edit the copy.                          *)
(*                                                                         *)
(* `edited' and `overlapped' are history variables.                        *)
(***************************************************************************)
EXTENDS Naturals, FiniteSets

CONSTANTS
    MaxTools,       \* bound: processes started
    OwnFiles,       \* the consumer's protos
    ContractFiles,  \* the protos of the pinned contract
    Ships,          \* installed package -> the protos its distribution defines
    Imports         \* the packages a target may import

ASSUME ContractAssumption == MaxTools \in Nat

VARIABLES
    tagged,      \* the commit the tag names: "pin" or "other"
    copy,        \* .contracts/<name>/<commit>: "absent", "exact" or "changed"
    edited,      \* history: a developer changed the copy
    tools,       \* the processes, in the order they start
    generated,   \* out_dir: proto -> what its modules are, see Compile
    overlapped   \* history: two generations ran at once

contractVars == <<tagged, copy, edited, tools, generated, overlapped>>
Tools == 1..MaxTools
Unstarted == [pc |-> "unstarted", imports |-> {}, result |-> "none"]
Nothing == [f \in {} |-> "none"]

ContractInit ==
    /\ tagged = "pin" /\ copy = "absent" /\ edited = FALSE /\ overlapped = FALSE
    /\ tools = [p \in Tools |-> Unstarted]
    /\ generated = Nothing

Startable(p) == tools[p].pc = "unstarted" /\ \A q \in 1..(p - 1) : tools[q].pc # "unstarted"
At(p, pc) == tools[p].pc = pc
Goes(p, pc) == tools' = [tools EXCEPT ![p].pc = pc]
Ends(p, result) == tools' = [tools EXCEPT ![p] = [pc |-> "ended", imports |-> @.imports, result |-> result]]
KeepOutput == UNCHANGED <<generated, overlapped>>

-----------------------------------------------------------------------------
(* lp-sync-contract *)

\* HEAD is the pinned commit and git status reports no change.
IsIntact == copy = "exact"

\* read_pins: a pin that does not validate raises.
ReadPins(p) == Ends(p, "invalid pin")
\* An override is used as it is, and raises in CI.
OverrideDir(p) == Ends(p, "override") \/ Ends(p, "override in CI")

\* materialise: a copy that is still exact is reused.
Sync(p) ==
    /\ Startable(p)
    /\ \/ ReadPins(p)
       \/ OverrideDir(p)
       \/ IsIntact /\ Ends(p, copy)
       \/ ~IsIntact /\ Goes(p, IF copy = "absent" THEN "clone" ELSE "discard")
    /\ KeepOutput /\ UNCHANGED <<tagged, copy, edited>>

\* shutil.rmtree, begun and ended; it raises when the directory is not the
\* one it began with.
Discard(p) ==
    /\ At(p, "discard")
    /\ IF copy = "absent" THEN Ends(p, "failed") /\ UNCHANGED copy
       ELSE Goes(p, "discarding") /\ copy' = "changed"
    /\ KeepOutput /\ UNCHANGED <<tagged, edited>>
Discarded(p) ==
    /\ At(p, "discarding")
    /\ IF copy = "changed" THEN Goes(p, "clone") /\ copy' = "absent"
       ELSE Ends(p, "failed") /\ UNCHANGED copy
    /\ KeepOutput /\ UNCHANGED <<tagged, edited>>

\* git clone --branch tag into a scratch directory, then rev-parse HEAD.
CloneUnchecked(p) ==
    /\ At(p, "clone")
    /\ Ends(p, "failed") \/ Goes(p, IF tagged = "pin" THEN "install" ELSE "install other")
    /\ KeepOutput /\ UNCHANGED <<tagged, copy, edited>>
Clone(p) ==
    /\ At(p, "clone")
    /\ Ends(p, "failed") \/ (tagged = "pin" /\ Goes(p, "install"))
    /\ KeepOutput /\ UNCHANGED <<tagged, copy, edited>>

\* checkout.rename(destination): it raises when the destination is there.
Install(p) ==
    /\ tools[p].pc \in {"install", "install other"}
    /\ IF copy # "absent" THEN Ends(p, "failed") /\ UNCHANGED copy
       ELSE /\ copy' = IF At(p, "install") THEN "exact" ELSE "changed"
            /\ Ends(p, copy')
    /\ KeepOutput /\ UNCHANGED <<tagged, edited>>

-----------------------------------------------------------------------------
(* lp-generate-grpc *)

\* imported.import_roots: one owner for every imported proto.
OneOwner(packages) == \A a, b \in packages : a # b => Ships[a] \cap Ships[b] = {}
Emitted == OwnFiles \cup ContractFiles
\* imported.check_not_redefined
NotRedefined(packages) == \A a \in packages : Emitted \cap Ships[a] = {}

\* The configuration does not validate.
BadTarget(p) == Ends(p, "failed") /\ UNCHANGED generated
\* contracts.proto_root
ProtoRoot == copy # "absent"
\* imported.resolve
Resolvable(packages) == packages \subseteq DOMAIN Ships
\* _clean_output, with what the target does next
CleanOutput(p, packages, pc, result) ==
    /\ generated' = Nothing
    /\ tools' = [tools EXCEPT ![p] = [pc |-> pc, imports |-> packages, result |-> result]]

\* The contract must be on disk and the packages installed; then the output
\* is cleaned, and stays empty when no proto is found or the target refused.
GenerateTarget(p) ==
    /\ Startable(p)
    /\ \/ BadTarget(p)
       \/ \E packages \in SUBSET Imports, found \in BOOLEAN :
            IF ~ProtoRoot \/ ~Resolvable(packages) THEN BadTarget(p)
            ELSE IF found /\ NotRedefined(packages) THEN CleanOutput(p, packages, "compile", "none")
            ELSE CleanOutput(p, packages, "ended", "failed")
    /\ overlapped' = (overlapped \/ \E q \in Tools : tools[q].pc \in {"compile", "rewrite"})
    /\ UNCHANGED <<tagged, copy, edited>>

\* Every module imports every proto, under its proto name until rewritten.
Protos == Emitted \cup UNION {Ships[a] : a \in DOMAIN Ships}
Module == [from |-> copy, imports |-> [g \in Protos |-> "proto"]]

\* protoc emits a module for each own and each contract file, from what is
\* on disk now; it may fail with some of them written.
Compile(p) ==
    /\ At(p, "compile")
    /\ \/ /\ Ends(p, "failed")
          /\ \E some \in IF copy = "absent" THEN {{}} ELSE SUBSET Emitted :
                generated' = [f \in some \cup DOMAIN generated |-> IF f \in some THEN Module ELSE generated[f]]
       \/ copy # "absent" /\ Goes(p, "rewrite") /\ generated' = [f \in Emitted |-> Module]
    /\ UNCHANGED <<tagged, copy, edited, overlapped>>

\* Imports of a file move to the package that ships it, else to the prefix.
Owner(packages, f) == IF \E a \in packages : f \in Ships[a]
                      THEN CHOOSE a \in packages : f \in Ships[a] ELSE "own"
Rewritten(imports, packages) ==
    [g \in Protos |-> IF imports[g] = "proto" THEN Owner(packages, g) ELSE imports[g]]
Rewrite(p) ==
    /\ At(p, "rewrite")
    /\ IF ~OneOwner(tools[p].imports) THEN Ends(p, "failed") /\ UNCHANGED generated
       ELSE /\ Ends(p, "generated")
            /\ generated' = [f \in DOMAIN generated |->
                 [generated[f] EXCEPT !.imports = Rewritten(@, tools[p].imports)]]
    /\ UNCHANGED <<tagged, copy, edited, overlapped>>

-----------------------------------------------------------------------------
Kill(p) == /\ tools[p].pc \notin {"unstarted", "ended"} /\ Ends(p, "killed")
           /\ KeepOutput /\ UNCHANGED <<tagged, copy, edited>>
MoveTag == /\ tagged = "pin" /\ tagged' = "other"
           /\ KeepOutput /\ UNCHANGED <<copy, edited, tools>>
Edit == /\ copy = "exact" /\ copy' = "changed" /\ edited' = TRUE
        /\ KeepOutput /\ UNCHANGED <<tagged, tools>>

ContractNext ==
    \/ \E p \in Tools : \/ Sync(p) \/ Discard(p) \/ Discarded(p) \/ Clone(p) \/ Install(p)
                        \/ GenerateTarget(p) \/ Compile(p) \/ Rewrite(p) \/ Kill(p)
    \/ MoveTag \/ Edit
ContractSpec == ContractInit /\ [][ContractNext]_contractVars

-----------------------------------------------------------------------------
CopyIsThePin ==
    /\ ~edited => copy \in {"absent", "exact"}
    /\ \A p \in Tools : tools[p].result # "changed"

LastGeneration(p) ==
    tools[p].result = "generated" /\ \A q \in (p + 1)..MaxTools : tools[q].pc = "unstarted"
GeneratedOnce ==
    \A p \in Tools : LastGeneration(p) /\ ~overlapped /\ ~edited =>
        \A f \in DOMAIN generated :
            /\ generated[f].from = "exact"
            /\ \A a \in tools[p].imports : f \notin Ships[a]
            /\ \A a \in tools[p].imports : \A g \in Ships[a] : generated[f].imports[g] = a

(* A copy of a contract that nobody edited is the pinned commit, whole,    *)
(* whichever syncs were killed, overlapped or met a moved tag, and a sync  *)
(* that reports a copy found it exact.  A generation that nothing ran      *)
(* beside, over such a copy, leaves code of the pinned commit only, and    *)
(* every proto has one owner: what an installed contract ships is imported *)
(* from it and emitted nowhere else.                                       *)
BuiltFromThePin == CopyIsThePin /\ GeneratedOnce
=============================================================================
