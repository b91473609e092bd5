-------------------------- MODULE ProjectionDraft --------------------------
(***************************************************************************)
(* The projection drafts of one host: optimistic editing with If-Match     *)
(* revisions, publication of versions, agent proposals and their undo,     *)
(* ignore rules, the removal of a project, and the new draft of a rescan.  *)
(* OnboardingSession composes it with the agent that makes the proposals.  *)
(*                                                                         *)
(* A snapshot is abstracted to the set of user decisions it shows; a       *)
(* decision is named by the request or proposal that made it.  Handlers    *)
(* read a draft outside their transaction, so each request is two steps,   *)
(* Load and a commit; agent actions, the removal of a project and a rescan *)
(* read and write in one transaction each.                                 *)
(*                                                                         *)
(* A definition named X_Y is X with the defect Y; nothing here uses it.    *)
(***************************************************************************)
EXTENDS Naturals, FiniteSets

CONSTANTS
  Draft,         \* draft ids, one for each discovery run of the host
  Patch,         \* PATCH /projection-drafts/{id}
  Layout,        \* PATCH /layouts/{id}
  Ignore,        \* POST /ignore-rules
  Confirm,       \* POST /projection-drafts/{id}/confirm
  Proposal,      \* what the onboarding agent suggests
  ProjectPatch,  \* the patches that create the project RemoveProject removes
  Removal        \* the patches and proposals that remove relations

Edit     == Patch \cup Layout \cup Ignore
Request  == Edit \cup Confirm
Decision == Edit \cup Proposal

ASSUME RequestAssumption ==
  /\ \A S, T \in {Patch, Layout, Ignore, Confirm, Proposal} : S = T \/ S \cap T = {}
  /\ ProjectPatch \subseteq Patch
  /\ Removal \subseteq Patch \cup Proposal
ASSUME DraftsAssumption == Draft # {}

VARIABLES
  draft,      \* the row of each draft in projection_drafts
  versions,   \* projection_versions
  rules,      \* ignore_rules in force
  request,    \* what each request has read and where it is
  proposal,   \* agent_proposals
  clock,      \* confirmed_at: order of the confirmations' timestamps
  contents    \* history: what each revision of each draft has shown

draftVars == <<draft, versions, rules, request, proposal, clock, contents>>

-----------------------------------------------------------------------------

State    == {"none", "draft", "confirmed"}
Snapshot == SUBSET Decision

DraftTypeOK ==
  /\ draft \in [Draft -> [state : State, rev : Nat, edits : Snapshot]]
  /\ versions \subseteq [draft : Draft, rev : Nat, at : Nat, edits : Snapshot]
  /\ rules \subseteq Ignore
  /\ request \in [Request -> [pc : {"idle", "loaded", "answered"},
                              draft : Draft, rev : Nat, at : Nat, edits : Snapshot]]
  /\ proposal \in [Proposal -> [state : {"none", "pending", "adopted", "undone", "rejected"},
                                draft : Draft, rev : Nat, before : Snapshot]]
  /\ clock \in Nat
  /\ contents \subseteq [draft : Draft, rev : Nat, edits : Snapshot]

AnyDraft == CHOOSE d \in Draft : TRUE

\* A request that has read nothing yet, or has been answered.
Nothing(pc) == [pc |-> pc, draft |-> AnyDraft, rev |-> 0, at |-> 0, edits |-> {}]

DraftInit ==
  /\ draft = [d \in Draft |-> [state |-> "none", rev |-> 0, edits |-> {}]]
  /\ versions = {}
  /\ rules = {}
  /\ request = [q \in Request |-> Nothing("idle")]
  /\ proposal = [p \in Proposal |->
                   [state |-> "none", draft |-> AnyDraft, rev |-> 0, before |-> {}]]
  /\ clock = 0
  /\ contents = {}

-----------------------------------------------------------------------------
(* Helpers *)

Latest == CHOOSE v \in versions : \A w \in versions : w.at <= v.at

Published(d) == \E v \in versions : v.draft = d

Answer(q) == request' = [request EXCEPT ![q] = Nothing("answered")]

\* What the operations of a decision make of a snapshot.
Applied(snapshot, decision) == snapshot \cup {decision}

\* What a rescan keeps of a version: the decisions it shows, on the nodes that
\* are still there and, as stale or declared nodes, on those that are not.  Which
\* relations were removed it can tell only from the evidence behind the version,
\* and only the latest runs of a host keep theirs.
Overlay(base, pruned) == IF pruned THEN base.edits \ Removal ELSE base.edits

\* A write of draft d: its row and the content its revision now names.
Write(d, row) ==
  /\ draft' = [draft EXCEPT ![d] = row]
  /\ contents' = contents \cup {[draft |-> d, rev |-> row.rev, edits |-> row.edits]}

\* WHERE draft_id = ? AND revision = ?
Matches_Draft(q) == draft[request[q].draft].state # "none"
Matches(q)       == draft[request[q].draft].rev = request[q].rev

\* A change leaves the state alone but for PATCH, which writes 'draft'.
NextState(q)          == IF q \in Patch THEN "draft" ELSE draft[request[q].draft].state

\* The upsert of an ignore request puts a rule in force or, to restore a
\* node, makes the node's rule inactive.
RuleWrites(q) == {rules \cup {q}, rules} \cup {rules \ {r} : r \in rules}

-----------------------------------------------------------------------------
(* Requests *)

\* Only an unconfirmed draft is changed, confirmed or given to the agent.
Editable(d) == draft[d].state = "draft"

\* Read the draft, check its state and If-Match, stamp a confirmation: no
\* await lies between the answer of load_draft and now().
Load(q, d) ==
  /\ request[q].pc = "idle"
  /\ Editable(d)
  /\ clock' = IF q \in Confirm THEN clock + 1 ELSE clock
  /\ request' = [request EXCEPT ![q] =
       [pc |-> "loaded", draft |-> d, rev |-> draft[d].rev, at |-> clock', edits |-> draft[d].edits]]
  /\ UNCHANGED <<draft, versions, rules, proposal, contents>>

\* Patch, layout and ignore rule: compare and set the revision.
CommitEdit(q) ==
  /\ q \in Edit /\ request[q].pc = "loaded"
  /\ Matches(q)
  /\ Write(request[q].draft, [state |-> NextState(q), rev |-> request[q].rev + 1,
                              edits |-> Applied(request[q].edits, q)])
  /\ IF q \in Ignore THEN rules' \in RuleWrites(q) ELSE UNCHANGED rules
  /\ Answer(q)
  /\ UNCHANGED <<versions, proposal, clock>>

\* 412; the rule an ignore request has inserted is rolled back.
RefuseEdit(q) ==
  /\ q \in Edit /\ request[q].pc = "loaded"
  /\ ~Matches(q)
  /\ Answer(q)
  /\ UNCHANGED <<draft, versions, rules, proposal, clock, contents>>

\* What a confirmation publishes: the snapshot it has loaded.
Publication_Reread(q) ==
  [draft |-> request[q].draft, rev |-> request[q].rev, at |-> request[q].at,
   edits |-> draft[request[q].draft].edits]
Publication(q) ==
  [draft |-> request[q].draft, rev |-> request[q].rev, at |-> request[q].at,
   edits |-> request[q].edits]

\* The version is inserted whether or not the draft's revision still matches.
CommitConfirm(q) ==
  /\ q \in Confirm /\ request[q].pc = "loaded"
  /\ \A v \in versions : <<v.draft, v.rev>> # <<request[q].draft, request[q].rev>>
  /\ versions' = versions \cup {Publication(q)}
  /\ IF Matches(q)
     THEN Write(request[q].draft, [state |-> "confirmed", rev |-> request[q].rev,
                                   edits |-> request[q].edits])
     ELSE UNCHANGED <<draft, contents>>
  /\ Answer(q)
  /\ UNCHANGED <<rules, proposal, clock>>

\* UNIQUE(draft_id, revision)
RefuseConfirm(q) ==
  /\ q \in Confirm /\ request[q].pc = "loaded"
  /\ \E v \in versions : <<v.draft, v.rev>> = <<request[q].draft, request[q].rev>>
  /\ Answer(q)
  /\ UNCHANGED <<draft, versions, rules, proposal, clock, contents>>

-----------------------------------------------------------------------------
(* Transactions *)

\* A discovery succeeds: the new draft starts from the latest confirmed
\* version of the host and from its ignore rules.
CreateDraft(d) ==
  /\ draft[d].state = "none"
  /\ LET base == IF versions = {} THEN [rev |-> 0, edits |-> {}] ELSE Latest
     IN  \E pruned \in BOOLEAN :
           Write(d, [state |-> "draft", rev |-> base.rev + 1,
                     edits |-> Overlay(base, pruned) \cup rules])
  /\ UNCHANGED <<versions, rules, request, proposal, clock>>

\* An onboarding session about draft d stores what the model suggested.
Propose(suggested, d) ==
  /\ proposal' = [p \in Proposal |->
       IF p \in suggested THEN [proposal[p] EXCEPT !.state = "pending", !.draft = d]
                          ELSE proposal[p]]
  /\ UNCHANGED <<draft, versions, rules, request, clock, contents>>

\* Adopt, or modify and adopt.
Adopt(p) ==
  LET d == proposal[p].draft IN
  /\ proposal[p].state = "pending"
  /\ Editable(d)
  /\ Write(d, [state |-> draft[d].state, rev |-> draft[d].rev + 1,
               edits |-> Applied(draft[d].edits, p)])
  /\ proposal' = [proposal EXCEPT ![p] = [state |-> "adopted", draft |-> d,
                                          rev |-> draft[d].rev + 1, before |-> draft[d].edits]]
  /\ UNCHANGED <<versions, rules, request, clock>>

Reject(p) ==
  /\ proposal[p].state = "pending"
  /\ proposal' = [proposal EXCEPT ![p].state = "rejected"]
  /\ UNCHANGED <<draft, versions, rules, request, clock, contents>>

MayUndo(p) == draft[proposal[p].draft].rev = proposal[p].rev

Undo(p) ==
  LET d == proposal[p].draft IN
  /\ proposal[p].state = "adopted"
  /\ Editable(d)
  /\ MayUndo(p)
  /\ Write(d, [state |-> draft[d].state, rev |-> draft[d].rev + 1,
               edits |-> proposal[p].before])
  /\ proposal' = [proposal EXCEPT ![p].state = "undone"]
  /\ UNCHANGED <<versions, rules, request, clock>>

\* DELETE /projects/{id}: out of every draft that shows it, and out of every
\* published version in place; refused when no draft shows it.
Shows(snapshot) == snapshot \cap ProjectPatch # {}

Bump_Kept(row) == row.rev
Bump(row)      == row.rev + 1

RemoveProject ==
  /\ \E d \in Draft : Shows(draft[d].edits)
  /\ draft' = [d \in Draft |->
       IF Shows(draft[d].edits)
       THEN [state |-> draft[d].state, rev |-> Bump(draft[d]),
             edits |-> draft[d].edits \ ProjectPatch]
       ELSE draft[d]]
  /\ contents' = contents \cup
       {[draft |-> d, rev |-> draft'[d].rev, edits |-> draft'[d].edits] :
          d \in {e \in Draft : Shows(draft[e].edits)}}
  /\ versions' = {[v EXCEPT !.edits = @ \ ProjectPatch] : v \in versions}
  /\ UNCHANGED <<rules, request, proposal, clock>>

-----------------------------------------------------------------------------

\* The steps of the owner's requests and of a discovery.  The agent's are taken
\* by the messages of OnboardingSession.
RequestStep(q) == CommitEdit(q) \/ RefuseEdit(q) \/ CommitConfirm(q) \/ RefuseConfirm(q)

-----------------------------------------------------------------------------
(* Properties *)

\* The ETag revision-N of a draft never names two different contents,
\* whichever of the six kinds of writers raced for revision N.
EtagNamesOneContent ==
  \A a, b \in contents : a.draft = b.draft /\ a.rev = b.rev => a.edits = b.edits

\* A published version is what its draft showed under the revision the owner
\* confirmed, but for a project removed since.
VersionsWereShown ==
  \A v \in versions : \E c \in contents :
    /\ c.draft = v.draft /\ c.rev = v.rev
    /\ v.edits \subseteq c.edits
    /\ c.edits \ v.edits \subseteq ProjectPatch

\* No accepted decision is lost from a draft by a concurrent change: it goes
\* when its own proposal is undone or its project is removed.
EditsSurvive ==
  [][\A d \in Draft :
       LET lost == draft[d].edits \ draft'[d].edits IN
       \/ lost = {}
       \/ lost \subseteq ProjectPatch /\ \A e \in Draft : ~Shows(draft'[e].edits)
       \/ \E p \in lost : lost = {p} /\ p \in Proposal /\ proposal'[p].state = "undone"]_draftVars
=============================================================================
