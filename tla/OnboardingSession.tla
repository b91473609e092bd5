-------------------------- MODULE OnboardingSession --------------------------
(***************************************************************************)
(* The onboarding agent beside the projection drafts: a request for a      *)
(* session calls the configured model with what the draft shows, stores    *)
(* the suggestions and questions it may keep, and the messages of the      *)
(* owner adopt, reject or undo suggestions and answer questions            *)
(* (onboarding.rs, model_provider.rs).  The owner decides on what the page *)
(* has last read (frontend/app.js), while the other requests of            *)
(* ProjectionDraft change the drafts and the configuration is replaced.    *)
(*                                                                         *)
(* Each request has a key of its own and is sent once; what a receipt does *)
(* for retries is in CatalogMutations.                                     *)
(***************************************************************************)
EXTENDS ProjectionDraft

CONSTANTS
  Create,       \* POST /onboarding-sessions, each the session it may make
  SuggestedIn,  \* the session a proposal belongs to
  Question,     \* what the models ask
  AskedIn,      \* the session a question belongs to
  Message,      \* POST /onboarding-sessions/{id}/messages
  Put,          \* PUT /model-provider, each the configuration it stores
  MaxRequests   \* requests of the owner in a behaviour

ASSUME SuggestionsAssumption ==
  SuggestedIn \in [Proposal -> Create] /\ AskedIn \in [Question -> Create]

VARIABLES
  session,    \* onboarding_sessions, with the handler that makes each
  question,   \* agent_questions
  message,    \* what each message asks for, and what the owner had in view
  page,       \* the draft on the page, as it was last read
  provider,   \* model_provider_configs: one row
  put,        \* the revision each PUT has read
  stored,     \* history: every configuration with its revision
  begun       \* requests begun

agentVars == <<session, question, message, page, provider, put, stored, begun>>
vars == <<draftVars, agentVars>>

NoConfig == [config |-> "none", rev |-> 0]
Unread == [pc |-> "idle", draft |-> AnyDraft, rev |-> 0, shown |-> {}, config |-> NoConfig,
           state |-> "none"]
Unsent == [pc |-> "idle", action |-> "none", on |-> "none", base |-> 0, seen |-> {}]

TypeOK ==
  /\ DraftTypeOK
  /\ session \in [Create -> [pc : {"idle", "missed", "loaded", "called", "checked", "done"},
                             draft : Draft, rev : Nat, shown : Snapshot,
                             config : [config : Put \cup {"none"}, rev : Nat],
                             state : {"none", "ready", "degraded", "unavailable"}]]
  /\ question \in [Question -> {"none", "pending", "answered"}]
  /\ message \in [Message -> [pc : {"idle", "sent", "done"},
                              action : {"none", "adopt", "reject", "undo", "answer"},
                              on : Proposal \cup Question \cup {"none"},
                              base : Nat, seen : Snapshot]]
  /\ page \in [draft : Draft, rev : Nat, edits : Snapshot]
  /\ put \in [Put -> [pc : {"idle", "loaded", "done"}, rev : Nat]]
  /\ provider = NoConfig \/ provider \in stored

Init ==
  /\ DraftInit
  /\ session = [c \in Create |-> Unread]
  /\ question = [x \in Question |-> "none"]
  /\ message = [m \in Message |-> Unsent]
  /\ page = [draft |-> AnyDraft, rev |-> 0, edits |-> {}]
  /\ provider = NoConfig
  /\ put = [u \in Put |-> [pc |-> "idle", rev |-> 0]]
  /\ stored = {}
  /\ begun = 0

Begin == begun < MaxRequests /\ begun' = begun + 1

(***************************************************************************)
(* POST /onboarding-sessions                                               *)
(***************************************************************************)
\* onboarding_sessions WHERE draft_id = ? AND state = 'ready'
ReadyFor(d) == {c \in Create : session[c].pc = "done" /\ session[c].draft = d
                                                       /\ session[c].state = "ready"}

\* A ready session of the draft is answered again, whatever the draft shows
\* by now; nothing keeps two requests from finding none.
Ask(c, d) ==
  /\ session[c].pc = "idle" /\ draft[d].state # "none"
  /\ Begin
  /\ session' = [session EXCEPT ![c] =
       [@ EXCEPT !.draft = d, !.pc = IF ReadyFor(d) = {} THEN "missed" ELSE "done"]]
  /\ UNCHANGED <<draftVars, question, message, page, provider, put, stored>>

\* The nodes and edges of the draft, in the prompt.
Messages(d) == draft[d].edits

\* What the model will be shown; 409 for a confirmed draft.
LoadDraft(c) ==
  LET d == session[c].draft
  IN  /\ session[c].pc = "missed"
      /\ session' = IF Editable(d)
           THEN [session EXCEPT ![c] = [@ EXCEPT !.pc = "loaded", !.rev = draft[d].rev,
                                                 !.shown = Messages(d)]]
           ELSE [session EXCEPT ![c].pc = "done"]
      /\ UNCHANGED <<draftVars, question, message, page, provider, put, stored, begun>>

\* The call begins with the configuration; without evidence there is no call.
CallModel(c) ==
  /\ session[c].pc = "loaded"
  /\ \E config \in {provider, NoConfig} :
       session' = [session EXCEPT ![c] = [@ EXCEPT !.pc = "called", !.config = config]]
  /\ UNCHANGED <<draftVars, question, message, page, provider, put, stored, begun>>

\* What may come back: an error, a response without content, or content.
Chat(config) == IF config = NoConfig THEN {"error"} ELSE {"error", "invalid", "content"}

\* The content stands the validation against the draft and its evidence or not.
Outcome(answer) ==
  CASE answer = "error"   -> {"unavailable"}
    [] answer = "invalid" -> {"degraded"}
    [] OTHER              -> {"degraded", "ready"}

\* Nothing is kept that was made from a draft that has changed since.
StillShown_Always(c) == TRUE
StillShown(c)        == draft[session[c].draft].rev = session[c].rev

Recheck(c) ==
  /\ session[c].pc = "called"
  /\ \E outcome \in UNION {Outcome(answer) : answer \in Chat(session[c].config)} :
       session' = [session EXCEPT ![c] =
                     [@ EXCEPT !.pc = "checked", !.rev = draft[session[c].draft].rev,
                               !.state = IF StillShown(c) THEN outcome ELSE "degraded"]]
  /\ UNCHANGED <<draftVars, question, message, page, provider, put, stored, begun>>

\* The suggestions and questions of a model: any of those it may come up with.
StoreSession(c) ==
  /\ session[c].pc = "checked"
  /\ session' = [session EXCEPT ![c].pc = "done"]
  /\ \E suggested \in SUBSET {p \in Proposal : SuggestedIn[p] = c},
        asked \in SUBSET {x \in Question : AskedIn[x] = c} :
       /\ session[c].state # "ready" => suggested = {} /\ asked = {}
       /\ Propose(suggested, session[c].draft)
       /\ question' = [x \in Question |-> IF x \in asked THEN "pending" ELSE question[x]]
  /\ UNCHANGED <<message, page, provider, put, stored, begun>>

(***************************************************************************)
(* The page, and POST /onboarding-sessions/{id}/messages                   *)
(***************************************************************************)
ReadDraft(d) ==
  /\ draft[d].state # "none"
  /\ page' = [draft |-> d, rev |-> draft[d].rev, edits |-> draft[d].edits]
  /\ page' # page
  /\ UNCHANGED <<draftVars, session, question, message, provider, put, stored, begun>>

\* The owner decides on a suggestion or a question of the draft on the page.
Send(m, action, on) ==
  /\ message[m].pc = "idle"
  /\ Begin
  /\ message' = [message EXCEPT ![m] = [pc |-> "sent", action |-> action, on |-> on,
                                        base |-> page.rev, seen |-> page.edits]]
  /\ UNCHANGED <<draftVars, session, question, page, provider, put, stored>>

Decide(m) ==
  \/ \E p \in Proposal, action \in {"adopt", "reject", "undo"} :
       /\ proposal[p].state # "none" /\ proposal[p].draft = page.draft
       /\ Send(m, action, p)
  \/ \E x \in Question :
       /\ question[x] # "none" /\ session[AskedIn[x]].draft = page.draft
       /\ Send(m, "answer", x)

OnBase_Ignored(m) == TRUE
OnBase(m) == draft[proposal[message[m].on].draft].rev = message[m].base

\* One transaction for each message: the state of the proposal or question is
\* read, the change made, and the receipt stored.
Effect(m) ==
  \/ message[m].action = "adopt" /\ OnBase(m) /\ Adopt(message[m].on) /\ UNCHANGED question
  \/ message[m].action = "undo" /\ OnBase(m) /\ Undo(message[m].on) /\ UNCHANGED question
  \/ message[m].action = "reject" /\ Reject(message[m].on) /\ UNCHANGED question
  \/ /\ message[m].action = "answer" /\ question[message[m].on] = "pending"
     /\ question' = [question EXCEPT ![message[m].on] = "answered"]
     /\ UNCHANGED draftVars

Handle(m) ==
  /\ message[m].pc = "sent"
  /\ Effect(m)
  /\ message' = [message EXCEPT ![m].pc = "done"]
  /\ UNCHANGED <<session, page, provider, put, stored, begun>>

\* 404, 409 or 412; the transaction is rolled back.
Refused(m) ==
  CASE message[m].action = "answer" -> question[message[m].on] # "pending"
    [] message[m].action = "reject" -> proposal[message[m].on].state # "pending"
    [] message[m].action = "adopt"  -> ~(proposal[message[m].on].state = "pending"
                                         /\ Editable(proposal[message[m].on].draft) /\ OnBase(m))
    [] OTHER -> ~(proposal[message[m].on].state = "adopted" /\ MayUndo(message[m].on)
                  /\ Editable(proposal[message[m].on].draft) /\ OnBase(m))

Refuse(m) ==
  /\ message[m].pc = "sent"
  /\ Refused(m)
  /\ message' = [message EXCEPT ![m].pc = "done"]
  /\ UNCHANGED <<draftVars, session, question, page, provider, put, stored, begun>>

(***************************************************************************)
(* PUT /model-provider                                                     *)
(***************************************************************************)
\* The key is there, and the next revision is read outside the transaction.
PutLoad(u) ==
  /\ put[u].pc = "idle"
  /\ Begin
  /\ put' = [put EXCEPT ![u] = [pc |-> "loaded", rev |-> provider.rev]]
  /\ UNCHANGED <<draftVars, session, question, message, page, provider, stored>>

PutStore(u) ==
  /\ put[u].pc = "loaded"
  /\ provider' = [config |-> u, rev |-> put[u].rev + 1]
  /\ stored' = stored \cup {provider'}
  /\ put' = [put EXCEPT ![u].pc = "done"]
  /\ UNCHANGED <<draftVars, session, question, message, page, begun>>

-----------------------------------------------------------------------------

Next ==
  \/ \E q \in Request :
       \/ \E d \in Draft : Begin /\ Load(q, d)
                           /\ UNCHANGED <<session, question, message, page, provider, put, stored>>
       \/ RequestStep(q) /\ UNCHANGED agentVars
  \/ (\E d \in Draft : CreateDraft(d)) /\ UNCHANGED agentVars
  \/ Begin /\ RemoveProject /\ UNCHANGED <<session, question, message, page, provider, put, stored>>
  \/ \E c \in Create :
       \/ \E d \in Draft : Ask(c, d)
       \/ LoadDraft(c) \/ CallModel(c) \/ Recheck(c) \/ StoreSession(c)
  \/ \E d \in Draft : ReadDraft(d)
  \/ \E m \in Message : Decide(m) \/ Handle(m) \/ Refuse(m)
  \/ \E u \in Put : PutLoad(u) \/ PutStore(u)

Spec == Init /\ [][Next]_vars

-----------------------------------------------------------------------------
(* Properties *)

\* What is stored for the owner to adopt was made from the content that the
\* revision it is answered with names, whoever wrote the draft during the call,
\* and by a configuration stored under the revision its invocation records
\* (DRAFT_CHANGED_DURING_MODEL_CALL, load_config).
SessionFitsItsRevision ==
  \A c \in Create : session[c].state = "ready" =>
    /\ \A x \in contents : x.draft = session[c].draft /\ x.rev = session[c].rev
                              => x.edits = session[c].shown
    /\ session[c].config \in stored

\* A suggestion changes a draft only as the owner has seen it on the page: an
\* adoption adds to that content and an undo takes the adoption back from it
\* (require_base_revision, apply_agent_operations_in, undo_agent_operations_in).
OwnerSawTheDraft ==
  [][\A m \in Message :
       message[m].pc = "sent" /\ message[m].on \in Proposal /\ draft' # draft /\ message'[m].pc = "done"
         => draft[proposal[message[m].on].draft].edits = message[m].seen]_vars
=============================================================================
