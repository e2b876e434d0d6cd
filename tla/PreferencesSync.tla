--------------------------- MODULE PreferencesSync ---------------------------
(***************************************************************************)
(* The n8n workflow "Preferences sync" (n8n/scripts/build-preferences-     *)
(* sync.js): export the Google Doc, PUT it to Agregado, ask for a          *)
(* regeneration and, when the profile changed, write it back to the Doc.   *)
(* The reader edits the Doc at any time.  Agregado is PreferenceProfile;   *)
(* the Doc is external.                                                    *)
(***************************************************************************)
EXTENDS Integers, Sequences

CONSTANTS
    Texts, Normal, Shaped, Requests, MaxRows, None,     \* as in PreferenceProfile
    Executions      \* n8n executions: the nightly one and manual ones

ASSUME PreferencesAssumption ==
    /\ Normal \in [Texts -> Texts]
    /\ \A t \in Texts : Normal[Normal[t]] = Normal[t]
    /\ Shaped \subseteq {Normal[t] : t \in Texts}
    /\ None \notin Texts \union Requests
    /\ MaxRows \in Nat

VARIABLES
    rows, evidence, request,    \* PreferenceProfile
    doc,        \* the Doc, as Drive exports it
    exec,       \* [Executions -> where the execution is and what it holds]
    alone       \* history: executions that nothing has interfered with: no
                \* edit, no other execution, no request left over from one

Agregado == INSTANCE PreferenceProfile

agregado == <<rows, evidence, request>>
vars == <<agregado, doc, exec, alone>>

Ended == {"idle", "synced", "failed"}
Nodes == {"export", "store", "storing", "regenerate", "regenerating", "write",
          "notify"} \union Ended

\* The text an execution holds is that of the node it is at.
At(node, text) == [at |-> node, request |-> None, text |-> text]

TypeOK ==
    /\ Agregado!TypeOK
    /\ doc \in Texts
    /\ exec \in [Executions ->
                   [at: Nodes, request: Requests \union {None},
                    text: Texts \union {None}]]
    /\ alone \subseteq Executions

Init ==
    /\ Agregado!Init
    /\ doc \in Texts
    /\ exec = [x \in Executions |-> At("idle", None)]
    /\ alone = {}

-----------------------------------------------------------------------------
(* The reader *)

EditDoc ==
    /\ \E t \in Texts : doc' = t
    /\ alone' = {}
    /\ UNCHANGED <<agregado, exec>>

Vote ==
    /\ Agregado!Vote
    /\ UNCHANGED <<doc, exec, alone>>

-----------------------------------------------------------------------------
(* One execution *)

Running == {x \in Executions : exec[x].at \notin Ended}

GoTo(x, node) == exec' = [exec EXCEPT ![x] = At(node, None)]

\* Preferences schedule (or a manual start) and Build requests.
Start(x) ==
    /\ exec[x].at \in Ended
    /\ GoTo(x, "export")
    /\ alone' = IF Running = {} /\ \A r \in Requests : request[r].at = "idle"
                THEN {x} ELSE {}
    /\ UNCHANGED <<agregado, doc>>

\* Export Doc.
Export(x) ==
    /\ exec[x].at = "export"
    /\ \/ exec' = [exec EXCEPT ![x] = At("store", doc)]
       \/ GoTo(x, "failed")
    /\ UNCHANGED <<agregado, doc, alone>>

Await(x, r, node) == exec' = [exec EXCEPT ![x] = [At(node, None) EXCEPT !.request = r]]

\* Store profile.
Store(x) ==
    /\ exec[x].at = "store"
    /\ UNCHANGED <<doc, alone>>
    /\ \/ \E r \in Requests : Agregado!Put(r, exec[x].text) /\ Await(x, r, "storing")
       \/ GoTo(x, "failed") /\ UNCHANGED agregado

\* Mutation: a rejected or failed PUT does not end the run.
AfterPutAlways(answer) == "regenerate"

AfterPut(answer) == IF answer = "ok" THEN "regenerate" ELSE "failed"

Stored(x) ==
    /\ exec[x].at = "storing"
    /\ Agregado!Finish(exec[x].request)
    /\ GoTo(x, AfterPut(request[exec[x].request].at))
    /\ UNCHANGED <<doc, alone>>

\* Regenerate.
AskRegenerate(x) ==
    /\ exec[x].at = "regenerate"
    /\ UNCHANGED <<doc, alone>>
    /\ \/ \E r \in Requests : Agregado!Regenerate(r) /\ Await(x, r, "regenerating")
       \/ GoTo(x, "failed") /\ UNCHANGED agregado

\* Describe change: an unchanged profile ends the run.
Regenerated(x) ==
    /\ exec[x].at = "regenerating"
    /\ Agregado!Finish(exec[x].request)
    /\ LET answer == request[exec[x].request]
       IN  IF answer.at = "ok" /\ answer.changed
           THEN exec' = [exec EXCEPT ![x] = At("write", answer.text)]
           ELSE GoTo(x, IF answer.at = "ok" THEN "synced" ELSE "failed")
    /\ UNCHANGED <<doc, alone>>

\* n8n's HTTP timeout: the request stays behind in Agregado.
TimeOut(x) ==
    /\ exec[x].at \in {"storing", "regenerating"}
    /\ GoTo(x, "failed")
    /\ UNCHANGED <<agregado, doc, alone>>

\* Write Doc replaces the whole content; Docs may append spaces to its lines.
\* An error may be reported for a write that took place.
WriteDoc(x) ==
    /\ exec[x].at = "write"
    /\ \/ /\ \E t \in Texts : Normal[t] = exec[x].text /\ doc' = t
          /\ GoTo(x, "notify") \/ GoTo(x, "failed")
       \/ GoTo(x, "failed") /\ UNCHANGED doc
    /\ UNCHANGED <<agregado, alone>>

\* Notify change; an error stops the execution after the work is done.
Notify(x) ==
    /\ exec[x].at = "notify"
    /\ GoTo(x, "synced") \/ GoTo(x, "failed")
    /\ UNCHANGED <<agregado, doc, alone>>

-----------------------------------------------------------------------------
(* Agregado beside it *)

Awaited(r) == \E x \in Executions : exec[x].request = r

Serve(r) ==
    /\ Agregado!RequestStep(r)
    /\ request[r].at \in {"ok", "invalid", "noprofile", "failed"} => ~Awaited(r)
    /\ UNCHANGED <<doc, exec, alone>>

Crash ==
    /\ Agregado!Crash
    /\ exec' = [x \in Executions |->
                  IF exec[x].request # None
                  THEN At("failed", None)
                  ELSE exec[x]]
    /\ UNCHANGED <<doc, alone>>

ExecutionStep(x) ==
    \/ Export(x) \/ Store(x) \/ Stored(x) \/ AskRegenerate(x) \/ Regenerated(x)
    \/ TimeOut(x) \/ WriteDoc(x) \/ Notify(x)

Next ==
    \/ EditDoc \/ Vote
    \/ \E x \in Executions : Start(x) \/ ExecutionStep(x)
    \/ \E r \in Requests : Serve(r)
    \/ Crash

Spec == Init /\ [][Next]_vars

-----------------------------------------------------------------------------
(* Properties *)

\* Safety: a run that nothing interfered with ends with the Doc and the
\* accepted profile equal, whatever earlier runs left behind: failed writes,
\* lost answers, profiles regenerated but never written to the Doc.
SyncConverges ==
    \A x \in alone :
        (exec[x].at = "synced" /\ Running = {}
         /\ \A r \in Requests : request[r].at = "idle")
        => Normal[doc] = Agregado!Newest

\* Safety: the profile a 200 returns, which goes into the Doc, is a version
\* that was accepted, not one whose INSERT was lost.
AnswerAccepted == Agregado!AnswerAccepted
=============================================================================
