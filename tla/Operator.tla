------------------------------ MODULE Operator ------------------------------
(***************************************************************************)
(* The Kubernetes operator of the FastAPIApp resource, for one resource    *)
(* name: reconcile brings the Deployment, the Service, the HPA and the PDB *)
(* in line with the resource, one API call after the other, while users    *)
(* change or delete the resource, somebody deletes a child, API calls fail *)
(* and the operator dies.                                                  *)
(*                                                                         *)
(* kopf and Kubernetes are external.  kopf runs one handler at a time for  *)
(* a resource, runs it again until it has succeeded for the current spec,  *)
(* runs it once for every resource after a restart, and keeps a deleted    *)
(* resource it has handled (finalizer) until on_delete has run.  A patch   *)
(* merges lists (environment, owner references) into what is there.        *)
(*                                                                         *)
(* As written, handlers.py does not reach its children: the pinned client  *)
(* library has no V1HTTPGet to import, and kopf.adopt returns nothing, so  *)
(* that create and patch are called without a body.                        *)
(***************************************************************************)
EXTENDS Integers, Sequences

CONSTANTS
    Images, Envs, None,
    Importable,     \* handlers.py can be imported: not with the client of requirements.txt
    MaxChanges,     \* bound: what users do
    MaxFaults       \* bound: failed API calls and operator deaths

Specs == [image : Images, env : SUBSET Envs, autoscaling : BOOLEAN, pdb : BOOLEAN]

\* The order in which reconcile handles them.
Kinds == <<"deployment", "service", "hpa", "pdb">>
KindSet == {Kinds[n] : n \in 1..Len(Kinds)}

VARIABLES
    app,        \* the FastAPIApp, or NoApp
    uids,       \* uids given out
    handled,    \* last-handled-configuration: the uid and spec reconcile succeeded for
    op,         \* the handler that runs
    up,         \* the operator runs
    child,      \* the child of each kind, or NoChild
    tampered,   \* history: a child was deleted by hand since reconcile began
    cutOff,     \* history: the last reconcile ended with an API error
    changes, faults

vars == <<app, uids, handled, op, up, child, tampered, cutOff, changes, faults>>

NoApp == [uid |-> 0]
NoChild == [owners |-> {}]
Unhandled == [uid |-> 0]
Waiting == [at |-> 0]

Init ==
    /\ app = NoApp /\ uids = 0
    /\ handled = Unhandled
    /\ op = Waiting /\ up = TRUE
    /\ child = [k \in KindSet |-> NoChild]
    /\ tampered = FALSE /\ cutOff = FALSE
    /\ changes = 0 /\ faults = 0

-----------------------------------------------------------------------------
(***************************************************************************)
(* What reconcile wants: the data of each child, None for no child.        *)
(***************************************************************************)
BuildDeployment(spec) == [image |-> spec.image, env |-> spec.env]
BuildService(spec) == [image |-> None, env |-> {}]
BuildHpa(spec) == IF spec.autoscaling THEN [image |-> None, env |-> {}] ELSE None
BuildPdb(spec) == IF spec.pdb THEN [image |-> None, env |-> {}] ELSE None

Desired(k, spec) ==
    CASE k = "deployment" -> BuildDeployment(spec)
      [] k = "service"    -> BuildService(spec)
      [] k = "hpa"        -> BuildHpa(spec)
      [] k = "pdb"        -> BuildPdb(spec)

\* kopf.adopt sets the owner in its argument, and returns None.
Adopt(resource) == None

Present(k) == child[k] # NoChild

\* A strategic merge patch: fields are replaced, lists are merged.
Merged(old, want, uid) ==
    [image |-> want.image, env |-> old.env \cup want.env, owners |-> old.owners \cup {uid}]

-----------------------------------------------------------------------------
(***************************************************************************)
(* Users.                                                                  *)
(***************************************************************************)
Change ==
    /\ changes < MaxChanges
    /\ changes' = changes + 1
    /\ UNCHANGED <<handled, op, up, cutOff, faults>>

CreateApp(s) ==
    /\ app = NoApp
    /\ Change
    /\ uids' = uids + 1
    /\ app' = [uid |-> uids + 1, spec |-> s, kept |-> FALSE, deleting |-> FALSE]
    /\ UNCHANGED <<child, tampered>>

UpdateApp(s) ==
    /\ app # NoApp
    /\ Change
    /\ app' = [app EXCEPT !.spec = s]
    /\ UNCHANGED <<uids, child, tampered>>

\* The finalizer keeps a resource the operator has taken up.
DeleteApp ==
    /\ app # NoApp
    /\ Change
    /\ app' = IF app.kept THEN [app EXCEPT !.deleting = TRUE] ELSE NoApp
    /\ UNCHANGED <<uids, child, tampered>>

DeleteChild(k) ==
    /\ Present(k)
    /\ Change
    /\ child' = [child EXCEPT ![k] = NoChild]
    /\ tampered' = TRUE
    /\ UNCHANGED <<app, uids>>

-----------------------------------------------------------------------------
(***************************************************************************)
(* reconcile.                                                              *)
(***************************************************************************)
\* kopf calls the handler: on.create, on.update or on.resume.
Reconcile ==
    /\ Importable
    /\ up /\ op = Waiting
    /\ app # NoApp /\ ~app.deleting
    /\ handled # [uid |-> app.uid, spec |-> app.spec]      \* kopf compares them
    /\ app' = [app EXCEPT !.kept = TRUE]
    /\ op' = [at |-> 1, call |-> "read", uid |-> app.uid, spec |-> app.spec]
    /\ tampered' = FALSE /\ cutOff' = FALSE
    /\ UNCHANGED <<uids, handled, up, child, changes, faults>>

Running == up /\ op # Waiting
Kind == Kinds[op.at]
Want == Desired(Kind, op.spec)
Body == Adopt(Want)

Call(c) == op' = [op EXCEPT !.call = c]

\* This child is done; after the last one the handler has succeeded.
Advance ==
    IF op.at < Len(Kinds)
    THEN /\ op' = [op EXCEPT !.at = @ + 1, !.call = "read"]
         /\ UNCHANGED handled
    ELSE /\ op' = Waiting
         /\ handled' = [uid |-> op.uid, spec |-> op.spec]

Raise == op' = Waiting /\ UNCHANGED handled

OperatorOnly == UNCHANGED <<app, uids, up, tampered, cutOff, changes, faults>>

\* _create_or_patch: read, then patch, or create after a 404 of either.
ReadChild ==
    /\ Running /\ Want # None /\ op.call = "read"
    /\ Call(IF Present(Kind) THEN "patch" ELSE "create")
    /\ UNCHANGED <<handled, child>> /\ OperatorOnly

\* The client raises ApiValueError, which is no ApiException, without a body.
NoBody ==
    /\ Running /\ op.call \in {"patch", "create"}
    /\ Body = None
    /\ Raise
    /\ UNCHANGED child /\ OperatorOnly

PatchChild ==
    /\ Running /\ op.call = "patch"
    /\ Body # None
    /\ IF Present(Kind)
       THEN /\ child' = [child EXCEPT ![Kind] = Merged(@, Body, op.uid)]
            /\ Advance
       ELSE /\ Call("create")
            /\ UNCHANGED <<handled, child>>
    /\ OperatorOnly

CreateChild ==
    /\ Running /\ op.call = "create"
    /\ Body # None
    /\ ~Present(Kind)
    /\ child' = [child EXCEPT ![Kind] = [image |-> Body.image, env |-> Body.env,
                                         owners |-> {op.uid}]]
    /\ Advance
    /\ OperatorOnly

\* _delete_if_exists: a 404 is no error.
DeleteIfExists ==
    /\ Running /\ Want = None
    /\ child' = [child EXCEPT ![Kind] = NoChild]
    /\ Advance
    /\ OperatorOnly

\* Another error of the API, or the operator's death: the handler is called again.
ApiError ==
    /\ Running
    /\ faults < MaxFaults
    /\ faults' = faults + 1
    /\ Raise
    /\ cutOff' = TRUE
    /\ UNCHANGED <<app, uids, up, child, tampered, changes>>

Crash ==
    /\ up
    /\ faults < MaxFaults
    /\ faults' = faults + 1
    /\ up' = FALSE
    /\ op' = Waiting
    /\ UNCHANGED <<app, uids, handled, child, tampered, cutOff, changes>>

\* kopf run ends with the ImportError of handlers.py.
ImportFails ==
    /\ up /\ ~Importable
    /\ up' = FALSE
    /\ UNCHANGED <<app, uids, handled, op, child, tampered, cutOff, changes, faults>>

\* on.resume: every resource is handled once more.
Restart ==
    /\ ~up
    /\ up' = TRUE
    /\ handled' = Unhandled
    /\ UNCHANGED <<app, uids, op, child, tampered, cutOff, changes, faults>>

\* on_delete only logs; the finalizer goes and so does the resource.
OnDelete ==
    /\ Importable
    /\ up /\ op = Waiting
    /\ app # NoApp /\ app.deleting
    /\ app' = NoApp
    /\ handled' = Unhandled
    /\ UNCHANGED <<uids, op, up, child, tampered, cutOff, changes, faults>>

\* The garbage collector of Kubernetes: children all of whose owners are gone.
Collect(k) ==
    /\ Present(k)
    /\ app.uid \notin child[k].owners
    /\ child' = [child EXCEPT ![k] = NoChild]
    /\ UNCHANGED <<app, uids, handled, op, up, tampered, cutOff, changes, faults>>

-----------------------------------------------------------------------------
OperatorSteps ==
    \/ Reconcile \/ ReadChild \/ NoBody \/ PatchChild \/ CreateChild
    \/ DeleteIfExists \/ OnDelete \/ ImportFails

Next ==
    \/ \E s \in Specs : CreateApp(s) \/ UpdateApp(s)
    \/ DeleteApp
    \/ \E k \in KindSet : DeleteChild(k) \/ Collect(k)
    \/ OperatorSteps
    \/ ApiError \/ Crash \/ Restart

\* The operator's process keeps running or is started again, and the garbage
\* collector works.
Fairness ==
    /\ WF_vars(OperatorSteps)
    /\ WF_vars(Restart)
    /\ \A k \in KindSet : WF_vars(Collect(k))

Spec == Init /\ [][Next]_vars /\ Fairness

-----------------------------------------------------------------------------
(***************************************************************************)
(* Properties.                                                             *)
(***************************************************************************)
\* The children do what the spec asks: the right ones exist, with its image
\* and at least its environment.
Covers(spec) ==
    \A k \in KindSet :
        LET want == Desired(k, spec) IN
        IF want = None THEN ~Present(k)
        ELSE Present(k) /\ child[k].image = want.image /\ want.env \subseteq child[k].env

\* What docs/operator.md says of reconcile ("creates and keeps in sync",
\* "deleting the FastAPIApp garbage-collects everything it created"): whatever
\* users changed, deleted and created again, whichever calls failed and whenever
\* the operator died, once that is over the children cover the spec for good, or
\* there is no resource and no child is left.  Two things need no repair: a
\* child deleted by hand afterwards, and an update that failed half-way when the
\* user has meanwhile gone back to the spec handled before it.
Converges ==
    <>[](IF app = NoApp THEN \A k \in KindSet : ~Present(k)
         ELSE \/ Covers(app.spec)
              \/ tampered
              \/ cutOff /\ handled = [uid |-> app.uid, spec |-> app.spec])

=============================================================================
