--------------------------- MODULE CatalogMutations ---------------------------
(***************************************************************************)
(* Mutations of the catalog: the handlers of api/catalog_api.rs and the    *)
(* binding of project agents (project_agent.rs) with If-Match,             *)
(* Idempotency-Key, receipt and event in one transaction, and the          *)
(* middleware that publishes after the handler (auth.rs).  They are the    *)
(* publishers of the EventStream this module extends.                      *)
(***************************************************************************)
EXTENDS EventStream, FiniteSets

CONSTANTS
  Project, Business,     \* technical_projects and businesses
  Association,           \* business_project_links
  ProjectOf, BusinessOf, \* the two ends of a link
  Agent,                 \* project_agents
  BoundTo,               \* the project of an agent
  Absent,                \* the projects that are yet to be created
  Request,               \* mutations, each with a key of its own
  Kind,                  \* "create", "update", "link", "unlink" or "bind"
  On,                    \* the resource of a request
  Attempt,               \* handlers at work
  MaxSends               \* requests sent, retries included

Resource == Project \cup Business \cup Association \cup Agent

ASSUME RequestsAssumption ==
  /\ Kind \in [Request -> {"create", "update", "link", "unlink", "bind"}]
  /\ On \in [Request -> Resource]
  /\ \A r \in Request : Kind[r] \in {"link", "unlink"} <=> On[r] \in Association
  /\ \A r \in Request : Kind[r] = "bind" <=> On[r] \in Agent
(* A request creates a row of its own, which is not there before. *)
ASSUME CreationsAssumption ==
  /\ Absent \subseteq Project
  /\ \A r \in Request : Kind[r] = "create" => On[r] \in Absent
  /\ \A r, s \in Request : Kind[r] = "create" /\ Kind[s] = "create" /\ On[r] = On[s] => r = s
ASSUME AgentsAssumption == BoundTo \in [Agent -> Project]
ASSUME LinksAssumption ==
  ProjectOf \in [Association -> Project] /\ BusinessOf \in [Association -> Business]

VARIABLES
  rows,      \* the resources
  receipt,   \* catalog_mutation_requests: the revision answered, or 0
  intent,    \* what the client puts into a request and its retries
  handler,   \* the handlers
  applied,   \* history: the mutations that took effect, in order
  answers,   \* history: the successes the client was told of
  sends      \* the counter behind MaxSends

vars == <<rows, receipt, intent, handler, applied, answers, sends, streamVars>>
server == <<rows, receipt, applied, answers, intent>>

None == [base |-> -1, state |-> "none"]
Free == [pc |-> "free", request |-> "none", answer |-> 0]
First(x) == IF x \in Absent \cup Association \cup Agent
              THEN [state |-> "absent", revision |-> 0] ELSE [state |-> "active", revision |-> 1]

TypeOK ==
  /\ rows \in [Resource -> [state : {"absent", "active", "archived"}, revision : Nat]]
  /\ receipt \in [Request -> Nat]
  /\ \A r \in Request : intent[r] = None \/ intent[r].base \in Nat
  /\ \A a \in Attempt : handler[a].pc \in {"free", "sent", "missed", "checked", "done"}
  /\ stream.state \in {"off", "on", "refused"} /\ stream.cursor \in 0..Maximum
  /\ page.run \in {"none", "reading", "read", "left"} /\ page.shown \in Unavailable..Maximum
  /\ passed \subseteq 1..Maximum

Init ==
  /\ rows = [x \in Resource |-> First(x)]
  /\ receipt = [r \in Request |-> 0]
  /\ intent = [r \in Request |-> None]
  /\ handler = [a \in Attempt |-> Free]
  /\ applied = <<>>
  /\ answers = [r \in Request |-> {}]
  /\ sends = 0
  /\ StreamInit

(***************************************************************************)
(* A handler.                                                              *)
(***************************************************************************)
Turn(a, pc, r, answer) ==
  handler' = [handler EXCEPT ![a] = [pc |-> pc, request |-> r, answer |-> answer]]
Release(a) == handler' = [handler EXCEPT ![a] = Free]

(* If-Match names a revision the client has been shown, at any time; a retry
   repeats the request. *)
Bases(r) == IF Kind[r] \in {"update", "unlink"} THEN 1..rows[On[r]].revision ELSE {0}

Send(a, r) ==
  /\ handler[a].pc = "free"
  /\ sends < MaxSends
  /\ answers[r] = {}
  /\ IF intent[r] # None THEN UNCHANGED intent
     ELSE \E base \in Bases(r),
             state \in IF Kind[r] = "update" THEN {"active", "archived"} ELSE {"none"} :
            intent' = [intent EXCEPT ![r] = [base |-> base, state |-> state]]
  /\ Turn(a, "sent", r, 0)
  /\ sends' = sends + 1
  /\ UNCHANGED <<rows, receipt, applied, answers, streamVars>>

(* replay_mutation, outside the transaction. *)
Replay(a) ==
  LET stored == receipt[handler[a].request]
  IN /\ handler[a].pc = "sent"
     /\ Turn(a, IF stored = 0 THEN "missed" ELSE "done", handler[a].request, stored)
     /\ UNCHANGED <<server, sends, streamVars>>

(* bind_project_agent looks at the project and for an agent of it before its
   transaction. *)
Unbound(x) == rows[BoundTo[x]].state = "active" /\ rows[x].state = "absent"

Check(a) ==
  LET x == On[handler[a].request]
  IN /\ handler[a].pc = "missed" /\ x \in Agent
     /\ IF Unbound(x) THEN Turn(a, "checked", handler[a].request, 0) ELSE Release(a)
     /\ UNCHANGED <<server, sends, streamVars>>

(* What the transaction of each kind of handler demands: of a project or a
   business that is created without initial projects nothing, of a binding
   UNIQUE(technical_project_id) only. *)
MayBind(r) == rows[On[r]].state = "absent"
MayUpdate(r) == rows[On[r]].state # "absent" /\ rows[On[r]].revision = intent[r].base
MayLink(r) ==
  /\ rows[BusinessOf[On[r]]].state = "active" /\ rows[ProjectOf[On[r]]].state = "active"
  /\ rows[On[r]].state # "active"
MayUnlink(r) == rows[On[r]].state = "active" /\ rows[On[r]].revision = intent[r].base
Admissible(r) ==
  \/ Kind[r] = "create"
  \/ Kind[r] = "bind" /\ MayBind(r)
  \/ Kind[r] = "update" /\ MayUpdate(r)
  \/ Kind[r] = "link" /\ MayLink(r)
  \/ Kind[r] = "unlink" /\ MayUnlink(r)

StateAfter(r) ==
  CASE Kind[r] = "update" -> intent[r].state
    [] Kind[r] = "unlink" -> "archived"
    [] OTHER -> "active"

(* UNIQUE(workspace_id, resource_kind, resource_id, idempotency_key). *)
Stored_Replaced(r) == FALSE      \* the receipt is inserted or replaced
Stored(r) == receipt[r] # 0

(* A creation makes a row of its own, with revision 1. *)
BaseOf(r) == CASE Kind[r] \in {"create", "bind"} -> 0
               [] Kind[r] = "link" -> rows[On[r]].revision
               [] OTHER -> intent[r].base

(* What an event about a resource tells. *)
Announced(r) == IF On[r] \in Agent THEN "project_agent.changed" ELSE "projection.changed"

Looked(a) == handler[a].pc = IF On[handler[a].request] \in Agent THEN "checked" ELSE "missed"

Commit(a) ==
  LET r == handler[a].request
      next == BaseOf(r) + 1
  IN /\ handler[a].pc # "free" /\ Looked(a)
     /\ Admissible(r) /\ ~Stored(r)
     /\ rows' = [rows EXCEPT ![On[r]] = [state |-> StateAfter(r), revision |-> next]]
     /\ receipt' = [receipt EXCEPT ![r] = next]
     /\ Publish(Announced(r))
     /\ applied' = Append(applied, [request |-> r, resource |-> On[r],
                                    base |-> BaseOf(r), revision |-> next])
     /\ Turn(a, "done", r, next)
     /\ UNCHANGED <<intent, answers, sends, stream, page, bound>>

(* 404 or 409, or 503 where only the insertion of the receipt fails. *)
Refuse(a) ==
  LET r == handler[a].request
  IN /\ handler[a].pc # "free" /\ Looked(a)
     /\ ~Admissible(r) \/ Stored(r)
     /\ Release(a)
     /\ UNCHANGED <<server, sends, streamVars>>

(* protect_business_api publishes after the handler, for a replay too, where the
   path is one it knows: not for businesses and their links.  The client is told
   of the success, or is gone by then. *)
Finish(a) ==
  LET r == handler[a].request
  IN /\ handler[a].pc = "done"
     /\ IF On[r] \in Project \cup Agent THEN Publish(Announced(r))
        ELSE UNCHANGED <<events, passed>>
     /\ answers' \in {answers, [answers EXCEPT ![r] = @ \cup {handler[a].answer}]}
     /\ Release(a)
     /\ UNCHANGED <<rows, receipt, applied, intent, sends, stream, page, bound>>

(* A handler dropped at an await, by its client or with the process. *)
Drop(a) ==
  /\ handler[a].pc # "free"
  /\ Release(a)
  /\ UNCHANGED <<server, sends, streamVars>>

(* The stream and the page leave the handlers alone. *)
Next ==
  \/ \E a \in Attempt :
       \/ \E r \in Request : Send(a, r)
       \/ Replay(a) \/ Check(a) \/ Commit(a) \/ Refuse(a) \/ Finish(a) \/ Drop(a)
  \/ StreamNext /\ UNCHANGED <<server, handler, sends>>

Spec == Init /\ [][Next]_vars

(* The browser reconnects, the stream's timer and the page's run out, the page's
   requests end. *)
LiveSpec ==
  /\ Spec
  /\ WF_vars(Connect /\ UNCHANGED <<server, handler, sends>>)
  /\ WF_vars(Poll /\ UNCHANGED <<server, handler, sends>>)
  /\ WF_vars(Deliver /\ UNCHANGED <<server, handler, sends>>)
  /\ WF_vars(Fire /\ UNCHANGED <<server, handler, sends>>)
  /\ WF_vars(Read /\ UNCHANGED <<server, handler, sends>>)
  /\ WF_vars(EndRefresh /\ UNCHANGED <<server, handler, sends>>)

(***************************************************************************)
(* Properties.                                                             *)
(***************************************************************************)
(* A mutation takes effect at most once however often it is sent, also when
   two handlers work on it at the same time; a PATCH or DELETE takes effect on
   the revision its owner had in view; every success answered is the one
   effect (replay_mutation, store_mutation_in). *)
Abstract == INSTANCE MutationLog WITH log <- applied, Initial <- [x \in Resource |-> First(x).revision]
ImplementsMutationLog == Abstract!Spec

(* A page that has been sent the last event and has nothing to read any more
   shows what was read after the commit of every event it listens to, although
   events come while it reads, are pruned and are lost with connections, and
   requests overtake one another (stream, scheduleEventRefresh,
   refreshM0Data). *)
CaughtUpIsCurrent == Settled => UpToDate

(* With a stream the page comes to that, and stays there; unless its owner has
   left the route a refresh was for, with which it stays loading. *)
StreamCatchesUp ==
  <>[](UpToDate \/ page.run = "left" \/ stream.state = "refused")

=============================================================================
