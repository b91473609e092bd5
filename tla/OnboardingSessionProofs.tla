----------------------- MODULE OnboardingSessionProofs -----------------------
(***************************************************************************)
(* Proofs about ProjectionDraft and OnboardingSession for any drafts,      *)
(* requests, proposals, questions, messages and configurations: what an    *)
(* ETag, a version, a session and an adoption stand for.                   *)
(***************************************************************************)
EXTENDS OnboardingSession, TLAPS

-----------------------------------------------------------------------------
(* Drafts and what their revisions have shown                                *)

Row == [state : State, rev : Nat, edits : Snapshot]
Content == [draft : Draft, rev : Nat, edits : Snapshot]

Shown(d, rev, edits) ==
  \E c \in contents : c.draft = d /\ c.rev = rev /\ c.edits = edits

\* A draft that exists shows what its revision names; what is not there yet
\* shows nothing and has shown nothing.
DraftShown(d) == /\ draft[d].state # "none" => /\ draft[d].rev > 0
                                               /\ Shown(d, draft[d].rev, draft[d].edits)
                 /\ draft[d].state = "none" => draft[d].edits = {}

\* No content lies above the revision of its draft.
Below(c) == /\ draft[c.draft].state # "none"
            /\ c.rev <= draft[c.draft].rev
            /\ c.rev = draft[c.draft].rev => c.edits = draft[c.draft].edits

History == /\ draft \in [Draft -> Row]
           /\ contents \subseteq Content
           /\ \A d \in Draft : DraftShown(d)
           /\ \A c \in contents : Below(c)
           /\ EtagNamesOneContent

\* A step forgets no content.
Grows == contents \subseteq contents'

\* A write is of a new revision, or of the same with the same content.
LEMMA WriteKeepsHistory ==
  ASSUME History, NEW d \in Draft, NEW row \in Row, Write(d, row),
         row.state # "none", row.rev > 0,
         \/ row.rev > draft[d].rev
         \/ draft[d].state = "none"
         \/ row.rev = draft[d].rev /\ row.edits = draft[d].edits
  PROVE  History' /\ Grows /\ Shown(d, row.rev, row.edits)'
<1> DEFINE new == [draft |-> d, rev |-> row.rev, edits |-> row.edits]
<1>1. /\ draft' = [draft EXCEPT ![d] = row] /\ contents' = contents \cup {new}
  BY DEF Write
<1>2. /\ row.rev \in Nat /\ draft[d].rev \in Nat /\ new \in Content
      /\ new.draft = d /\ new.rev = row.rev /\ new.edits = row.edits
  BY DEF History, Row, Content
<1> HIDE DEF new
<1>3. /\ draft' \in [Draft -> Row] /\ draft'[d] = row
      /\ \A e \in Draft \ {d} : draft'[e] = draft[e]
      /\ contents' \subseteq Content
  BY <1>1, <1>2 DEF History
<1>4. \A e, r, s : Shown(e, r, s) => Shown(e, r, s)'
  BY <1>1 DEF Shown
<1>5. Shown(d, row.rev, row.edits)'
  BY <1>1, <1>2 DEF Shown
<1>6. ASSUME NEW e \in Draft PROVE DraftShown(e)'
  <2>1. CASE e = d
    BY <1>3, <1>5, <2>1 DEF DraftShown
  <2>2. CASE e # d
    BY <1>3, <1>4, <2>2 DEF DraftShown, History
  <2> QED
    BY <2>1, <2>2
<1>7. ASSUME NEW c \in contents'  PROVE Below(c)'
  <2>1. CASE c = new
    BY <1>2, <1>3, <2>1 DEF Below
  <2>2. CASE c \in contents /\ c.draft # d
    BY <1>3, <2>2 DEF Below, History, Content
  <2>3. CASE c \in contents /\ c.draft = d
    <3>1. Below(c) /\ c.rev \in Nat
      BY <2>3 DEF History, Content
    <3> QED
      BY <1>2, <1>3, <2>3, <3>1 DEF Below
  <2> QED
    BY <1>1, <2>1, <2>2, <2>3
<1>8. EtagNamesOneContent'
  <2>1. ASSUME NEW c \in contents, c.draft = d, c.rev = row.rev PROVE c.edits = row.edits
    <3>1. Below(c)
      BY <2>1 DEF History
    <3> QED
      BY <1>2, <2>1, <3>1 DEF Below
  <2> QED
    BY <1>1, <1>2, <2>1 DEF EtagNamesOneContent, History
<1> QED
  BY <1>1, <1>3, <1>5, <1>6, <1>7, <1>8 DEF History, Grows

\* The removal of a project is a new revision of each draft that shows it.
LEMMA RemovalKeepsHistory ==
  ASSUME History, RemoveProject
  PROVE  History' /\ Grows
<1>1. /\ draft' = [d \in Draft |->
           IF Shows(draft[d].edits)
           THEN [state |-> draft[d].state, rev |-> Bump(draft[d]),
                 edits |-> draft[d].edits \ ProjectPatch]
           ELSE draft[d]]
      /\ contents' = contents \cup
           {[draft |-> d, rev |-> draft'[d].rev, edits |-> draft'[d].edits] :
              d \in {e \in Draft : Shows(draft[e].edits)}}
  BY DEF RemoveProject
<1>2. ASSUME NEW d \in Draft
      PROVE  /\ draft[d].rev \in Nat /\ draft'[d] \in Row
             /\ draft'[d].state = draft[d].state
             /\ Shows(draft[d].edits) => /\ draft'[d].rev = draft[d].rev + 1
                                         /\ draft[d].state # "none"
             /\ ~Shows(draft[d].edits) => draft'[d] = draft[d]
  <2>1. draft[d] \in Row /\ DraftShown(d)
    BY DEF History
  <2>2. Shows(draft[d].edits) => draft[d].state # "none"
    BY <2>1 DEF DraftShown, Shows
  <2>3. CASE Shows(draft[d].edits)
    <3>1. draft'[d] = [state |-> draft[d].state, rev |-> Bump(draft[d]),
                       edits |-> draft[d].edits \ ProjectPatch]
      BY <1>1, <2>3
    <3> QED
      BY <2>1, <2>2, <2>3, <3>1 DEF Row, Bump, Snapshot
  <2>4. CASE ~Shows(draft[d].edits)
    BY <1>1, <2>1, <2>4 DEF Row
  <2> QED
    BY <2>3, <2>4
<1>3. ASSUME NEW c \in contents' \ contents
      PROVE  /\ c \in Content /\ Shows(draft[c.draft].edits)
             /\ c.rev = draft'[c.draft].rev /\ c.edits = draft'[c.draft].edits
  <2>1. PICK d \in Draft : /\ Shows(draft[d].edits)
                           /\ c = [draft |-> d, rev |-> draft'[d].rev, edits |-> draft'[d].edits]
    BY <1>1
  <2> QED
    BY <1>2, <2>1 DEF Content, Row
<1>4. ASSUME NEW d \in Draft, Shows(draft[d].edits)
      PROVE  Shown(d, draft[d].rev, draft[d].edits)'
  <2> DEFINE new == [draft |-> d, rev |-> draft'[d].rev, edits |-> draft'[d].edits]
  <2>1. new \in contents'
    BY <1>1, <1>4
  <2> QED
    BY <2>1 DEF Shown
<1>5. draft' \in [Draft -> Row] /\ contents' \subseteq Content
  BY <1>1, <1>2, <1>3 DEF History
<1>6. Grows
  BY <1>1 DEF Grows
<1>7. ASSUME NEW d \in Draft PROVE DraftShown(d)'
  <2>1. CASE Shows(draft[d].edits)
    BY <1>2, <1>4, <2>1 DEF DraftShown
  <2>2. CASE ~Shows(draft[d].edits)
    <3>1. draft'[d] = draft[d] /\ DraftShown(d)
      BY <1>2, <2>2 DEF History
    <3> QED
      BY <1>6, <3>1 DEF DraftShown, Shown, Grows
  <2> QED
    BY <2>1, <2>2
<1>8. ASSUME NEW c \in contents' PROVE Below(c)'
  <2>1. CASE c \in contents
    <3>1. Below(c) /\ c.draft \in Draft /\ c.rev \in Nat
      BY <2>1 DEF History, Content
    <3> QED
      BY <1>2, <3>1 DEF Below
  <2>2. CASE c \notin contents
    BY <1>2, <1>3, <1>5, <2>2 DEF Below, Content, Row
  <2> QED
    BY <2>1, <2>2
<1>9. EtagNamesOneContent'
  <2> SUFFICES ASSUME NEW a \in contents', NEW b \in contents', a.draft = b.draft, a.rev = b.rev
               PROVE  a.edits = b.edits
    BY DEF EtagNamesOneContent
  <2>1. \A c \in contents : /\ c.draft \in Draft /\ c.rev \in Nat
                            /\ c.rev <= draft[c.draft].rev
    BY DEF History, Below, Content
  <2>2. CASE a \in contents /\ b \in contents
    BY <2>2 DEF History, EtagNamesOneContent
  <2>3. CASE a \notin contents /\ b \notin contents
    BY <1>3, <2>3
  <2>4. CASE a \in contents /\ b \notin contents
    BY <1>2, <1>3, <2>1, <2>4
  <2>5. CASE a \notin contents /\ b \in contents
    BY <1>2, <1>3, <2>1, <2>5
  <2> QED
    BY <2>2, <2>3, <2>4, <2>5
<1> QED
  BY <1>5, <1>6, <1>7, <1>8, <1>9 DEF History

-----------------------------------------------------------------------------
(* Requests, versions and proposals                                          *)

\* What a request has loaded, its draft has shown.
LoadShown(q) == request[q].pc = "loaded" =>
                  Shown(request[q].draft, request[q].rev, request[q].edits)

\* Confirmations are ordered by the time they were stamped with.
LatestExists == versions # {} => \E v \in versions : \A w \in versions : w.at <= v.at

\* An adoption was a write of its own, of the content before it.
AdoptionShown(p) == proposal[p].state = "adopted" =>
                      Shown(proposal[p].draft, proposal[p].rev, Applied(proposal[p].before, p))

DraftInv == /\ DraftTypeOK /\ History
            /\ \A q \in Request : LoadShown(q)
            /\ VersionsWereShown /\ LatestExists
            /\ \A p \in Proposal : AdoptionShown(p)

\* The steps that the drafts take in whatever composition.
DraftStep == \/ \E q \in Request : (\E d \in Draft : Load(q, d)) \/ RequestStep(q)
             \/ \E d \in Draft : CreateDraft(d)
             \/ RemoveProject
             \/ \E p \in Proposal : Adopt(p) \/ Undo(p) \/ Reject(p)
             \/ \E d \in Draft, suggested \in SUBSET Proposal : Propose(suggested, d)
             \/ UNCHANGED draftVars

\* A request whose If-Match still holds has loaded what the draft shows.
LEMMA LoadedIsCurrent ==
  ASSUME DraftInv, NEW q \in Request, request[q].pc = "loaded", Matches(q),
         NEW d, d = request[q].draft
  PROVE  /\ d \in Draft /\ draft[d] \in Row /\ draft[d].state # "none" /\ draft[d].rev > 0
         /\ draft[d].rev = request[q].rev /\ draft[d].edits = request[q].edits
<1>1. PICK c \in contents : c.draft = d /\ c.rev = request[q].rev /\ c.edits = request[q].edits
  BY DEF DraftInv, LoadShown, Shown
<1>2. Below(c) /\ d \in Draft
  BY <1>1 DEF DraftInv, History, Content
<1>3. DraftShown(d) /\ draft[d] \in Row
  BY <1>2 DEF DraftInv, History
<1> QED
  BY <1>1, <1>2, <1>3 DEF Matches, Below, DraftShown

\* What each step that writes one draft makes of it.
Writes(d, row) ==
  /\ d \in Draft /\ row \in Row /\ Write(d, row) /\ row.state # "none" /\ row.rev > 0
  /\ \/ row.rev > draft[d].rev
     \/ draft[d].state = "none"
     \/ row.rev = draft[d].rev /\ row.edits = draft[d].edits

LEMMA EditWrites ==
  ASSUME DraftInv, NEW q \in Request, CommitEdit(q)
  PROVE  \E d, row : /\ Writes(d, row) /\ draft[d].edits \subseteq row.edits
<1> DEFINE d == request[q].draft
           row == [state |-> NextState(q), rev |-> request[q].rev + 1,
                   edits |-> Applied(request[q].edits, q)]
<1>1. /\ d \in Draft /\ draft[d] \in Row /\ draft[d].state # "none" /\ draft[d].rev > 0
      /\ draft[d].rev = request[q].rev /\ draft[d].edits = request[q].edits
  BY LoadedIsCurrent DEF CommitEdit
<1>2. NextState(q) \in State \ {"none"}
  BY <1>1 DEF NextState, Row, State
<1>3. Applied(request[q].edits, q) \in Snapshot
  BY <1>1 DEF Applied, Snapshot, Row, Decision, CommitEdit
<1>4. row \in Row /\ row.state # "none" /\ row.rev = draft[d].rev + 1
      /\ draft[d].edits \subseteq row.edits
  BY <1>1, <1>2, <1>3 DEF Row, Applied
<1>5. Write(d, row)
  BY DEF CommitEdit
<1> HIDE DEF d, row
<1>6. draft[d].rev \in Nat
  BY <1>1 DEF Row
<1> QED
  BY <1>1, <1>4, <1>5, <1>6 DEF Writes

LEMMA ConfirmWrites ==
  ASSUME DraftInv, NEW q \in Request, CommitConfirm(q)
  PROVE  \/ UNCHANGED <<draft, contents>>
         \/ \E d, row : /\ Writes(d, row) /\ draft[d].edits \subseteq row.edits
<1> DEFINE d == request[q].draft
           row == [state |-> "confirmed", rev |-> request[q].rev, edits |-> request[q].edits]
<1>1. CASE ~Matches(q)
  BY <1>1 DEF CommitConfirm
<1>2. CASE Matches(q)
  <2>1. /\ d \in Draft /\ draft[d] \in Row /\ draft[d].rev > 0
        /\ draft[d].rev = request[q].rev /\ draft[d].edits = request[q].edits
    BY <1>2, LoadedIsCurrent DEF CommitConfirm
  <2>2. /\ row \in Row /\ row.state # "none" /\ row.rev = draft[d].rev
        /\ row.edits = draft[d].edits
    BY <2>1 DEF Row, State
  <2>3. Write(d, row)
    BY <1>2 DEF CommitConfirm
  <2> HIDE DEF d, row
  <2> QED
    BY <2>1, <2>2, <2>3 DEF Writes
<1> QED
  BY <1>1, <1>2

LEMMA CreateWrites ==
  ASSUME DraftInv, NEW d \in Draft, CreateDraft(d)
  PROVE  \E row : Writes(d, row) /\ draft[d].edits \subseteq row.edits
<1> DEFINE base == IF versions = {} THEN [rev |-> 0, edits |-> {}] ELSE Latest
<1>0. PICK pruned \in BOOLEAN :
        Write(d, [state |-> "draft", rev |-> base.rev + 1,
                  edits |-> Overlay(base, pruned) \cup rules])
  BY DEF CreateDraft
<1> DEFINE row == [state |-> "draft", rev |-> base.rev + 1,
                   edits |-> Overlay(base, pruned) \cup rules]
<1>1. base.rev \in Nat /\ base.edits \in Snapshot
  <2>1. CASE versions = {}
    BY <2>1 DEF Snapshot
  <2>2. CASE versions # {}
    <3>1. Latest \in versions
      BY <2>2 DEF DraftInv, LatestExists, Latest
    <3> QED
      BY <2>2, <3>1 DEF DraftInv, DraftTypeOK
  <2> QED
    BY <2>1, <2>2
<1>2. Overlay(base, pruned) \cup rules \in Snapshot
  BY <1>1 DEF Overlay, Snapshot, DraftInv, DraftTypeOK, Decision, Edit
<1>3. Write(d, row) /\ draft[d].state = "none"
  BY <1>0 DEF CreateDraft
<1> HIDE DEF base
<1>4. row \in Row /\ row.state # "none" /\ row.rev > 0
  BY <1>1, <1>2 DEF Row, State
<1>5. draft[d].edits = {}
  BY <1>3 DEF DraftInv, History, DraftShown
<1> QED
  BY <1>3, <1>4, <1>5 DEF Writes

LEMMA AdoptWrites ==
  ASSUME DraftInv, NEW p \in Proposal, Adopt(p),
         NEW d, d = proposal[p].draft
  PROVE  \E row : /\ Writes(d, row) /\ draft[d].edits \subseteq row.edits
                  /\ row.rev = draft[d].rev + 1 /\ row.edits = Applied(draft[d].edits, p)
<1> DEFINE row == [state |-> draft[d].state, rev |-> draft[d].rev + 1,
                   edits |-> Applied(draft[d].edits, p)]
<1>1. d \in Draft /\ draft[d] \in Row
  BY DEF DraftInv, DraftTypeOK, History
<1>2. Applied(draft[d].edits, p) \in Snapshot
  BY <1>1 DEF Applied, Snapshot, Row, Decision
<1>3. /\ row \in Row /\ row.rev = draft[d].rev + 1 /\ row.state = draft[d].state
      /\ row.edits = Applied(draft[d].edits, p)
  BY <1>1, <1>2 DEF Row
<1>4. Write(d, row) /\ draft[d].state = "draft"
  BY DEF Adopt, Editable
<1> HIDE DEF row
<1>5. draft[d].rev \in Nat /\ draft[d].edits \subseteq row.edits
  BY <1>1, <1>3 DEF Row, Applied
<1> QED
  BY <1>1, <1>3, <1>4, <1>5 DEF Writes

LEMMA UndoWrites ==
  ASSUME DraftInv, NEW p \in Proposal, Undo(p)
  PROVE  \E d, row : Writes(d, row) /\ draft[d].edits \ row.edits \subseteq {p}
<1> DEFINE d == proposal[p].draft
           row == [state |-> draft[d].state, rev |-> draft[d].rev + 1,
                   edits |-> proposal[p].before]
<1>1. d \in Draft /\ draft[d] \in Row /\ proposal[p].before \in Snapshot
  BY DEF DraftInv, DraftTypeOK, History
<1>2. /\ row \in Row /\ row.rev = draft[d].rev + 1 /\ row.state = draft[d].state
      /\ row.edits = proposal[p].before
  BY <1>1 DEF Row
<1>3. Write(d, row) /\ draft[d].state = "draft" /\ draft[d].rev = proposal[p].rev
  BY DEF Undo, Editable, MayUndo
<1>4. draft[d].edits = Applied(proposal[p].before, p)
  <2>1. PICK c \in contents : /\ c.draft = d /\ c.rev = proposal[p].rev
                              /\ c.edits = Applied(proposal[p].before, p)
    BY DEF DraftInv, AdoptionShown, Shown, Undo
  <2>2. Below(c)
    BY DEF DraftInv, History
  <2> QED
    BY <1>3, <2>1, <2>2 DEF Below
<1> HIDE DEF row, d
<1>5. draft[d].rev \in Nat
  BY <1>1 DEF Row
<1> QED
  BY <1>1, <1>2, <1>3, <1>4, <1>5 DEF Writes, Applied

\* One draft is written, a project is removed, or nothing is said.
LEMMA StepWrites ==
  ASSUME DraftInv, DraftStep
  PROVE  \/ RemoveProject
         \/ UNCHANGED <<draft, contents>>
         \/ \E d, row : /\ Writes(d, row)
                        /\ \/ draft[d].edits \subseteq row.edits
                           \/ \E p \in Proposal : Undo(p) /\ draft[d].edits \ row.edits \subseteq {p}
<1>1. ASSUME NEW q \in Request, RequestStep(q)
      PROVE  \/ UNCHANGED <<draft, contents>>
             \/ \E d, row : Writes(d, row) /\ draft[d].edits \subseteq row.edits
  BY <1>1, EditWrites, ConfirmWrites DEF RequestStep, RefuseEdit, RefuseConfirm
<1>2. ASSUME NEW q \in Request, NEW d \in Draft, Load(q, d) PROVE UNCHANGED <<draft, contents>>
  BY <1>2 DEF Load
<1>3. ASSUME NEW p \in Proposal, Adopt(p)
      PROVE  \E d, row : Writes(d, row) /\ draft[d].edits \subseteq row.edits
  BY <1>3, AdoptWrites
<1>4. ASSUME NEW p \in Proposal, Undo(p)
      PROVE  \E d, row : Writes(d, row) /\ draft[d].edits \ row.edits \subseteq {p}
  BY <1>4, UndoWrites
<1>5. ASSUME NEW d \in Draft, CreateDraft(d)
      PROVE  \E e, row : Writes(e, row) /\ draft[e].edits \subseteq row.edits
  BY <1>5, CreateWrites
<1>6. CASE \/ \E p \in Proposal : Reject(p)
           \/ \E d \in Draft, suggested \in SUBSET Proposal : Propose(suggested, d)
           \/ UNCHANGED draftVars
  BY <1>6 DEF Reject, Propose, draftVars
<1> QED
  BY <1>1, <1>2, <1>3, <1>4, <1>5, <1>6 DEF DraftStep

LEMMA HistoryNext ==
  ASSUME DraftInv, DraftStep
  PROVE  History' /\ Grows
<1>1. CASE RemoveProject
  BY <1>1, RemovalKeepsHistory DEF DraftInv
<1>2. CASE UNCHANGED <<draft, contents>>
  BY <1>2 DEF DraftInv, History, DraftShown, Shown, Below, EtagNamesOneContent, Grows
<1>3. ASSUME NEW d, NEW row, Writes(d, row) PROVE History' /\ Grows
  BY <1>3, WriteKeepsHistory DEF DraftInv, Writes
<1> QED
  BY <1>1, <1>2, <1>3, StepWrites

LEMMA LoadsNext ==
  ASSUME DraftInv, DraftStep
  PROVE  \A q \in Request : LoadShown(q)'
<1>g. Grows /\ \A q \in Request : LoadShown(q)
  BY HistoryNext DEF DraftInv
<1>1. ASSUME NEW r \in Request, NEW d \in Draft, Load(r, d), NEW q \in Request PROVE LoadShown(q)'
  <2>1. /\ request'[r].draft = d /\ request'[r].rev = draft[d].rev
        /\ request'[r].edits = draft[d].edits
        /\ q # r => request'[q] = request[q]
    BY <1>1 DEF Load, DraftInv, DraftTypeOK
  <2>2. Shown(d, draft[d].rev, draft[d].edits)
    BY <1>1 DEF Load, Editable, DraftInv, History, DraftShown
  <2> QED
    BY <1>g, <2>1, <2>2 DEF LoadShown, Shown, Grows
<1>2. ASSUME NEW r \in Request, RequestStep(r), NEW q \in Request PROVE LoadShown(q)'
  <2>1. request'[r].pc = "answered" /\ (q # r => request'[q] = request[q])
    BY <1>2 DEF RequestStep, CommitEdit, RefuseEdit, CommitConfirm, RefuseConfirm, Answer, Nothing,
                DraftInv, DraftTypeOK
  <2> QED
    BY <1>g, <2>1 DEF LoadShown, Shown, Grows
<1>3. CASE UNCHANGED request
  BY <1>g, <1>3 DEF LoadShown, Shown, Grows
<1> QED
  BY <1>1, <1>2, <1>3 DEF DraftStep, CreateDraft, RemoveProject, Adopt, Undo, Reject, Propose, draftVars

LEMMA AdoptionsNext ==
  ASSUME DraftInv, DraftStep
  PROVE  \A p \in Proposal : AdoptionShown(p)'
<1>g. Grows /\ \A p \in Proposal : AdoptionShown(p)
  BY HistoryNext DEF DraftInv
<1>t. DOMAIN proposal = Proposal
  BY DEF DraftInv, DraftTypeOK
<1>1. ASSUME NEW a \in Proposal, Adopt(a), NEW p \in Proposal PROVE AdoptionShown(p)'
  <2>1. PICK d \in Draft : d = proposal[a].draft
    BY DEF DraftInv, DraftTypeOK
  <2>2. /\ proposal'[a].draft = d /\ proposal'[a].rev = draft[d].rev + 1
        /\ proposal'[a].before = draft[d].edits
        /\ p # a => proposal'[p] = proposal[p]
    BY <1>1, <1>t, <2>1 DEF Adopt
  <2>3. PICK c \in contents' : /\ c.draft = d /\ c.rev = draft[d].rev + 1
                               /\ c.edits = Applied(draft[d].edits, a)
    <3>1. PICK row : /\ Writes(d, row) /\ row.rev = draft[d].rev + 1
                     /\ row.edits = Applied(draft[d].edits, a)
      BY <1>1, <2>1, AdoptWrites
    <3>2. Shown(d, row.rev, row.edits)'
      BY <3>1, WriteKeepsHistory DEF Writes, DraftInv
    <3>3. \E c \in contents' : c.draft = d /\ c.rev = row.rev /\ c.edits = row.edits
      BY <3>2 DEF Shown
    <3> QED
      BY <3>1, <3>3
  <2>4. AdoptionShown(a)'
    BY <2>2, <2>3 DEF AdoptionShown, Shown, Applied
  <2>5. p # a => AdoptionShown(p)'
    BY <1>g, <2>2 DEF AdoptionShown, Shown, Grows
  <2> QED
    BY <2>4, <2>5
<1>2. ASSUME NEW a \in Proposal, Undo(a) \/ Reject(a), NEW p \in Proposal PROVE AdoptionShown(p)'
  <2>1. proposal'[a].state # "adopted" /\ (p # a => proposal'[p] = proposal[p])
    BY <1>2, <1>t DEF Undo, Reject, DraftInv, DraftTypeOK
  <2> QED
    BY <1>g, <2>1 DEF AdoptionShown, Shown, Grows
<1>3. ASSUME NEW d \in Draft, NEW suggested \in SUBSET Proposal, Propose(suggested, d),
             NEW p \in Proposal
      PROVE  AdoptionShown(p)'
  <2>1. \/ proposal'[p].state = "pending"
        \/ proposal'[p] = proposal[p]
    BY <1>3 DEF Propose, DraftInv, DraftTypeOK
  <2> QED
    BY <1>g, <2>1 DEF AdoptionShown, Shown, Grows
<1>4. CASE UNCHANGED proposal
  BY <1>g, <1>4 DEF AdoptionShown, Shown, Grows
<1> QED
  BY <1>1, <1>2, <1>3, <1>4 DEF DraftStep, Load, RequestStep, CommitEdit, RefuseEdit, CommitConfirm,
     RefuseConfirm, CreateDraft, RemoveProject, draftVars

\* A version, as the property has it.
VersionShown(v) == \E c \in contents : /\ c.draft = v.draft /\ c.rev = v.rev
                                       /\ v.edits \subseteq c.edits
                                       /\ c.edits \ v.edits \subseteq ProjectPatch

LEMMA VersionsNext ==
  ASSUME DraftInv, DraftStep
  PROVE  /\ VersionsWereShown' /\ LatestExists'
         /\ versions' \subseteq [draft : Draft, rev : Nat, at : Nat, edits : Snapshot]
<1> DEFINE Version == [draft : Draft, rev : Nat, at : Nat, edits : Snapshot]
<1>g. Grows /\ (\A v \in versions : VersionShown(v)) /\ LatestExists /\ versions \subseteq Version
  BY HistoryNext DEF DraftInv, DraftTypeOK, VersionsWereShown, VersionShown
<1>1. ASSUME NEW q \in Request, CommitConfirm(q)
      PROVE  VersionsWereShown' /\ LatestExists' /\ versions' \subseteq Version
  <2> DEFINE new == Publication(q)
  <2>1. versions' = versions \cup {new} /\ request[q].pc = "loaded"
    BY <1>1 DEF CommitConfirm
  <2>2. new \in Version
    BY DEF Publication, DraftInv, DraftTypeOK
  <2>3. \E c \in contents : c.draft = new.draft /\ c.rev = new.rev /\ c.edits = new.edits
    BY <2>1 DEF Publication, DraftInv, LoadShown, Shown
  <2>4. VersionsWereShown'
    BY <1>g, <2>1, <2>3 DEF VersionsWereShown, VersionShown, Grows
  <2> HIDE DEF new
  <2>5. \A v \in versions' : v.at \in Nat
    BY <1>g, <2>1, <2>2
  <2>6. LatestExists'
    BY <1>g, <2>1, <2>5 DEF LatestExists
  <2> QED
    BY <1>g, <2>1, <2>2, <2>4, <2>6
<1>2. ASSUME RemoveProject
      PROVE  VersionsWereShown' /\ LatestExists' /\ versions' \subseteq Version
  <2>1. versions' = {[v EXCEPT !.edits = @ \ ProjectPatch] : v \in versions}
    BY <1>2 DEF RemoveProject
  <2>2. ASSUME NEW v \in versions, NEW w, w = [v EXCEPT !.edits = @ \ ProjectPatch]
        PROVE  /\ w \in Version /\ w.draft = v.draft /\ w.rev = v.rev /\ w.at = v.at
               /\ w.edits = v.edits \ ProjectPatch
    BY <1>g, <2>2 DEF Snapshot
  <2>3. ASSUME NEW w \in versions'
        PROVE  \E v \in versions : /\ w \in Version
                                   /\ w.draft = v.draft /\ w.rev = v.rev /\ w.at = v.at
                                   /\ w.edits = v.edits \ ProjectPatch
    BY <2>1, <2>2
  <2>4. VersionsWereShown'
    <3>1. ASSUME NEW w \in versions' PROVE VersionShown(w)'
      <4>1. PICK v \in versions : /\ w.draft = v.draft /\ w.rev = v.rev
                                  /\ w.edits = v.edits \ ProjectPatch
        BY <2>3
      <4>2. PICK c \in contents : /\ c.draft = v.draft /\ c.rev = v.rev
                                  /\ v.edits \subseteq c.edits
                                  /\ c.edits \ v.edits \subseteq ProjectPatch
        BY <1>g DEF VersionShown
      <4>3. c \in contents' /\ w.edits \subseteq c.edits /\ c.edits \ w.edits \subseteq ProjectPatch
        BY <1>g, <4>1, <4>2 DEF Grows
      <4> QED
        BY <4>1, <4>2, <4>3 DEF VersionShown
    <3> QED
      BY <3>1 DEF VersionsWereShown, VersionShown
  <2>5. LatestExists'
    <3> SUFFICES ASSUME versions # {}
                 PROVE  \E w \in versions' : \A u \in versions' : u.at <= w.at
      BY <2>1 DEF LatestExists
    <3>1. PICK v \in versions : \A u \in versions : u.at <= v.at
      BY <1>g DEF LatestExists
    <3>2. PICK w \in versions' : w.at = v.at
      BY <2>1, <2>2
    <3> QED
      BY <2>3, <3>1, <3>2
  <2> QED
    BY <2>3, <2>4, <2>5
<1>3. CASE UNCHANGED versions
  BY <1>g, <1>3 DEF VersionsWereShown, VersionShown, LatestExists, Grows
<1> QED
  BY <1>1, <1>2, <1>3 DEF DraftStep, Load, RequestStep, CommitEdit, RefuseEdit, RefuseConfirm,
     CreateDraft, Adopt, Undo, Reject, Propose, draftVars

LEMMA DraftTypesNext ==
  ASSUME DraftInv, DraftStep
  PROVE  DraftTypeOK'
<1>1. /\ draft' \in [Draft -> Row] /\ contents' \subseteq Content
      /\ \A d \in Draft : draft'[d].rev \in Nat /\ draft'[d].edits \in Snapshot
  BY HistoryNext DEF History, Row
<1>2. rules' \subseteq Ignore
  BY DEF DraftStep, Load, RequestStep, CommitEdit, RefuseEdit, CommitConfirm, RefuseConfirm,
         CreateDraft, RemoveProject, Adopt, Undo, Reject, Propose, draftVars, RuleWrites,
         DraftInv, DraftTypeOK
<1>3. clock' \in Nat
  <2>1. \A q \in Request, d \in Draft : Load(q, d) => clock' = clock \/ clock' = clock + 1
    BY DEF Load
  <2>2. clock' = clock \/ clock' = clock + 1
    BY <2>1 DEF DraftStep, RequestStep, CommitEdit, RefuseEdit, CommitConfirm, RefuseConfirm,
       CreateDraft, RemoveProject, Adopt, Undo, Reject, Propose, draftVars
  <2> QED
    BY <2>2 DEF DraftInv, DraftTypeOK
<1>4. request' \in [Request -> [pc : {"idle", "loaded", "answered"},
                                draft : Draft, rev : Nat, at : Nat, edits : Snapshot]]
  <2> DEFINE R == [pc : {"idle", "loaded", "answered"}, draft : Draft, rev : Nat, at : Nat,
                   edits : Snapshot]
  <2>1. ASSUME NEW q \in Request, NEW d \in Draft, Load(q, d) PROVE request' \in [Request -> R]
    <3>1. /\ request' = [request EXCEPT ![q] = [pc |-> "loaded", draft |-> d, rev |-> draft[d].rev,
                                               at |-> clock', edits |-> draft[d].edits]]
          /\ draft[d].rev \in Nat /\ draft[d].edits \in Snapshot
      BY <2>1 DEF Load, DraftInv, History, Row
    <3> QED
      BY <1>3, <3>1 DEF DraftInv, DraftTypeOK
  <2>2. ASSUME NEW q \in Request, Answer(q) PROVE request' \in [Request -> R]
    <3>1. Nothing("answered") \in R
      BY DraftsAssumption DEF Nothing, AnyDraft, Snapshot
    <3> QED
      BY <2>2, <3>1 DEF Answer, DraftInv, DraftTypeOK
  <2>3. CASE UNCHANGED request
    BY <2>3 DEF DraftInv, DraftTypeOK
  <2> QED
    BY <2>1, <2>2, <2>3 DEF DraftStep, RequestStep, CommitEdit, RefuseEdit, CommitConfirm,
       RefuseConfirm, CreateDraft, RemoveProject, Adopt, Undo, Reject, Propose, draftVars
<1>5. proposal' \in [Proposal -> [state : {"none", "pending", "adopted", "undone", "rejected"},
                                  draft : Draft, rev : Nat, before : Snapshot]]
  <2> DEFINE P == [state : {"none", "pending", "adopted", "undone", "rejected"},
                   draft : Draft, rev : Nat, before : Snapshot]
  <2>t. proposal \in [Proposal -> P]
    BY DEF DraftInv, DraftTypeOK
  <2>1. ASSUME NEW p \in Proposal, Adopt(p) PROVE proposal' \in [Proposal -> P]
    <3> DEFINE d == proposal[p].draft
    <3>1. d \in Draft /\ draft[d].rev \in Nat /\ draft[d].edits \in Snapshot
      BY <2>t DEF DraftInv, History, Row
    <3>2. proposal' = [proposal EXCEPT ![p] = [state |-> "adopted", draft |-> d,
                                              rev |-> draft[d].rev + 1, before |-> draft[d].edits]]
      BY <2>1 DEF Adopt
    <3> HIDE DEF d
    <3> QED
      BY <2>t, <3>1, <3>2
  <2>2. ASSUME NEW p \in Proposal, Undo(p) \/ Reject(p) PROVE proposal' \in [Proposal -> P]
    BY <2>t, <2>2 DEF Undo, Reject
  <2>3. ASSUME NEW d \in Draft, NEW suggested \in SUBSET Proposal, Propose(suggested, d)
        PROVE  proposal' \in [Proposal -> P]
    <3>1. \A p \in Proposal : [proposal[p] EXCEPT !.state = "pending", !.draft = d] \in P
      BY <2>t
    <3> QED
      BY <2>t, <2>3, <3>1 DEF Propose
  <2>4. CASE UNCHANGED proposal
    BY <2>t, <2>4
  <2> QED
    BY <2>1, <2>2, <2>3, <2>4 DEF DraftStep, Load, RequestStep, CommitEdit, RefuseEdit,
       CommitConfirm, RefuseConfirm, CreateDraft, RemoveProject, draftVars
<1>6. versions' \subseteq [draft : Draft, rev : Nat, at : Nat, edits : Snapshot]
  BY VersionsNext
<1> QED
  BY <1>1, <1>2, <1>3, <1>4, <1>5, <1>6 DEF DraftTypeOK, Row, Content

LEMMA DraftNext ==
  ASSUME DraftInv, DraftStep
  PROVE  DraftInv' /\ Grows
BY DraftTypesNext, HistoryNext, LoadsNext, VersionsNext, AdoptionsNext DEF DraftInv

\* What a step takes from a draft.
LEMMA NothingElseIsLost ==
  ASSUME DraftInv, DraftStep, NEW d \in Draft,
         NEW lost, lost = draft[d].edits \ draft'[d].edits
  PROVE  \/ lost = {}
         \/ lost \subseteq ProjectPatch /\ \A e \in Draft : ~Shows(draft'[e].edits)
         \/ \E p \in lost : lost = {p} /\ p \in Proposal /\ proposal'[p].state = "undone"
<1>1. CASE RemoveProject
  <2>1. \A e \in Draft : draft'[e] = IF Shows(draft[e].edits)
                                     THEN [state |-> draft[e].state, rev |-> Bump(draft[e]),
                                           edits |-> draft[e].edits \ ProjectPatch]
                                     ELSE draft[e]
    BY <1>1 DEF RemoveProject
  <2>2. \A e \in Draft : \/ draft'[e].edits = draft[e].edits \ ProjectPatch
                         \/ draft'[e].edits = draft[e].edits /\ ~Shows(draft[e].edits)
    <3>1. ASSUME NEW e \in Draft, Shows(draft[e].edits)
          PROVE  draft'[e].edits = draft[e].edits \ ProjectPatch
      <4>1. draft'[e] = [state |-> draft[e].state, rev |-> Bump(draft[e]),
                         edits |-> draft[e].edits \ ProjectPatch]
        BY <2>1, <3>1
      <4> QED
        BY <4>1
    <3>2. ASSUME NEW e \in Draft, ~Shows(draft[e].edits) PROVE draft'[e] = draft[e]
      BY <2>1, <3>2
    <3> QED
      BY <3>1, <3>2
  <2>3. \A e \in Draft : ~Shows(draft'[e].edits)
    BY <2>2 DEF Shows
  <2> QED
    BY <2>2, <2>3
<1>2. CASE UNCHANGED <<draft, contents>>
  BY <1>2
<1>3. ASSUME NEW e, NEW row, Writes(e, row),
             \/ draft[e].edits \subseteq row.edits
             \/ \E p \in Proposal : Undo(p) /\ draft[e].edits \ row.edits \subseteq {p}
      PROVE  \/ lost = {}
             \/ \E p \in lost : lost = {p} /\ p \in Proposal /\ proposal'[p].state = "undone"
  <2>1. /\ draft'[e] = row /\ (d # e => draft'[d] = draft[d])
    BY <1>3 DEF Writes, Write, DraftInv, History
  <2>2. ASSUME NEW p \in Proposal, Undo(p) PROVE proposal'[p].state = "undone"
    BY <2>2 DEF Undo, DraftInv, DraftTypeOK
  <2> QED
    BY <1>3, <2>1, <2>2
<1> QED
  BY <1>1, <1>2, <1>3, StepWrites

-----------------------------------------------------------------------------
(* Sessions, the page and the messages                                       *)

SessionRow == [pc : {"idle", "missed", "loaded", "called", "checked", "done"},
               draft : Draft, rev : Nat, shown : Snapshot,
               config : [config : Put \cup {"none"}, rev : Nat],
               state : {"none", "ready", "degraded", "unavailable"}]

ConfigsTyped == stored \subseteq [config : Put, rev : Nat]

\* What a session shows its model is what its revision names, and it has an
\* outcome only after the call.
SessionShown(c) ==
  /\ session[c].pc \in {"loaded", "called"} =>
       Shown(session[c].draft, session[c].rev, session[c].shown)
  /\ session[c].pc = "called" => session[c].config = NoConfig \/ session[c].config \in stored
  /\ session[c].state # "none" => session[c].pc \in {"checked", "done"}
  /\ session[c].state = "ready" =>
       /\ Shown(session[c].draft, session[c].rev, session[c].shown)
       /\ session[c].config \in stored

\* A suggestion belongs to a session that has ended.
Suggested(p) == proposal[p].state # "none" => session[SuggestedIn[p]].pc = "done"

\* The page shows what its revision names, or nothing yet, and so it was when
\* the owner sent a message about a suggestion.
PageShown == page.rev = 0 \/ Shown(page.draft, page.rev, page.edits)
MessageShown(m) ==
  message[m].pc = "sent" /\ message[m].action # "answer" =>
    /\ message[m].on \in Proposal
    /\ proposal[message[m].on].state # "none"
    /\ \/ message[m].base = 0
       \/ Shown(proposal[message[m].on].draft, message[m].base, message[m].seen)

IInv == /\ TypeOK /\ DraftInv /\ ConfigsTyped
        /\ \A c \in Create : SessionShown(c)
        /\ \A p \in Proposal : Suggested(p)
        /\ PageShown
        /\ \A m \in Message : MessageShown(m)

\* For the drafts, each step is one of those above.
LEMMA StepsOfDrafts ==
  ASSUME IInv, [Next]_vars
  PROVE  DraftStep
<1>1. ASSUME NEW m \in Message, Handle(m) PROVE DraftStep
  <2>1. message[m].pc = "sent" /\ Effect(m)
    BY <1>1 DEF Handle
  <2>2. CASE message[m].action = "answer"
    BY <2>1, <2>2 DEF Effect, DraftStep
  <2>3. CASE message[m].action # "answer"
    <3>1. message[m].on \in Proposal
      BY <2>1, <2>3 DEF IInv, MessageShown
    <3> QED
      BY <2>1, <2>3, <3>1 DEF Effect, DraftStep
  <2> QED
    BY <2>2, <2>3
<1>2. ASSUME NEW c \in Create, StoreSession(c) PROVE DraftStep
  <2>1. PICK suggested \in SUBSET {p \in Proposal : SuggestedIn[p] = c} :
          Propose(suggested, session[c].draft)
    BY <1>2 DEF StoreSession
  <2>2. session[c].draft \in Draft
    BY DEF IInv, TypeOK
  <2> QED
    BY <2>1, <2>2 DEF DraftStep
<1>3. ASSUME NEW c \in Create, \/ \E d \in Draft : Ask(c, d)
                               \/ LoadDraft(c) \/ CallModel(c) \/ Recheck(c)
      PROVE  UNCHANGED draftVars
  BY <1>3 DEF Ask, LoadDraft, CallModel, Recheck
<1>4. ASSUME NEW m \in Message, Decide(m) \/ Refuse(m) PROVE UNCHANGED draftVars
  BY <1>4 DEF Decide, Send, Refuse
<1>5. CASE (\E d \in Draft : ReadDraft(d)) \/ (\E u \in Put : PutLoad(u) \/ PutStore(u))
           \/ UNCHANGED vars
  BY <1>5 DEF ReadDraft, PutLoad, PutStore, vars, DraftStep
<1> QED
  BY <1>1, <1>2, <1>3, <1>4, <1>5 DEF Next, DraftStep

\* Whatever is shown stays shown.
LEMMA StepGrows ==
  ASSUME IInv, [Next]_vars
  PROVE  DraftInv' /\ Grows /\ stored \subseteq stored'
<1>1. stored \subseteq stored'
  BY DEF Next, RequestStep, Ask, LoadDraft, CallModel, Recheck, StoreSession, ReadDraft, Decide, Send,
         Handle, Refuse, PutLoad, PutStore, vars, agentVars
<1> QED
  BY <1>1, StepsOfDrafts, DraftNext DEF IInv

\* A suggestion is made once, for one draft.
LEMMA SuggestionsStay ==
  ASSUME IInv, [Next]_vars, NEW p \in Proposal, proposal[p].state # "none"
  PROVE  proposal'[p].state # "none" /\ proposal'[p].draft = proposal[p].draft
<1>t. /\ DOMAIN proposal = Proposal
      /\ proposal[p] \in [state : {"none", "pending", "adopted", "undone", "rejected"},
                          draft : Draft, rev : Nat, before : Snapshot]
  BY DEF IInv, TypeOK, DraftTypeOK
<1>1. ASSUME NEW a \in Proposal, Adopt(a) \/ Undo(a) \/ Reject(a)
      PROVE  proposal'[p].state # "none" /\ proposal'[p].draft = proposal[p].draft
  BY <1>1, <1>t DEF Adopt, Undo, Reject
<1>2. ASSUME NEW c \in Create, StoreSession(c) PROVE proposal'[p] = proposal[p]
  <2>1. PICK suggested \in SUBSET {q \in Proposal : SuggestedIn[q] = c} :
          Propose(suggested, session[c].draft)
    BY <1>2 DEF StoreSession
  <2>2. p \notin suggested
    BY <1>2 DEF StoreSession, IInv, Suggested
  <2> QED
    BY <2>1, <2>2 DEF Propose
<1>3. ASSUME NEW m \in Message, Handle(m)
      PROVE  \/ UNCHANGED proposal
             \/ \E a \in Proposal : Adopt(a) \/ Undo(a) \/ Reject(a)
  <2>1. message[m].pc = "sent" /\ Effect(m)
    BY <1>3 DEF Handle
  <2>2. message[m].action # "answer" => message[m].on \in Proposal
    BY <2>1 DEF IInv, MessageShown
  <2> QED
    BY <2>1, <2>2 DEF Effect, draftVars
<1>4. CASE UNCHANGED proposal
  BY <1>4
<1>5. ASSUME NEW q \in Request, RequestStep(q) \/ \E d \in Draft : Load(q, d)
      PROVE  UNCHANGED proposal
  BY <1>5 DEF Load, RequestStep, CommitEdit, RefuseEdit, CommitConfirm, RefuseConfirm
<1>6. ASSUME NEW c \in Create, \/ \E d \in Draft : Ask(c, d)
                               \/ LoadDraft(c) \/ CallModel(c) \/ Recheck(c)
      PROVE  UNCHANGED proposal
  BY <1>6 DEF Ask, LoadDraft, CallModel, Recheck, draftVars
<1>7. ASSUME \/ \E d \in Draft : CreateDraft(d) \/ ReadDraft(d)
             \/ RemoveProject
             \/ \E m \in Message : Decide(m) \/ Refuse(m)
             \/ \E u \in Put : PutLoad(u) \/ PutStore(u)
             \/ UNCHANGED vars
      PROVE  UNCHANGED proposal
  BY <1>7 DEF CreateDraft, ReadDraft, RemoveProject, Decide, Send, Refuse, PutLoad, PutStore,
              vars, draftVars
<1> QED
  BY <1>1, <1>2, <1>3, <1>4, <1>5, <1>6, <1>7 DEF Next

\* One session takes this value, the others keep theirs.
Turns(c, row) == /\ session' \in [Create -> SessionRow]
                 /\ session'[c] = row
                 /\ \A e \in Create \ {c} : session'[e] = session[e]

LEMMA SessionTurns ==
  ASSUME TypeOK, NEW c \in Create, NEW row \in SessionRow, session' = [session EXCEPT ![c] = row]
  PROVE  Turns(c, row)
BY DEF TypeOK, SessionRow, Turns

\* What it takes of a session that turns for the invariant to hold.
LEMMA TurnIsShown ==
  ASSUME IInv, [Next]_vars, NEW c \in Create, NEW row \in SessionRow, Turns(c, row),
         row.pc \in {"loaded", "called"} => Shown(row.draft, row.rev, row.shown),
         row.pc = "called" => row.config = NoConfig \/ row.config \in stored,
         row.state # "none" => row.pc \in {"checked", "done"},
         row.state = "ready" => Shown(row.draft, row.rev, row.shown) /\ row.config \in stored
  PROVE  /\ session' \in [Create -> SessionRow]
         /\ \A e \in Create : SessionShown(e)'
<1>1. Grows /\ stored \subseteq stored'
  BY StepGrows
<1>2. ASSUME NEW e \in Create PROVE SessionShown(e)'
  <2>1. CASE e = c
    BY <1>1, <2>1 DEF Turns, SessionShown, Shown, Grows
  <2>2. CASE e # c
    <3>1. session'[e] = session[e] /\ SessionShown(e)
      BY <2>2 DEF Turns, IInv
    <3> QED
      BY <1>1, <3>1 DEF SessionShown, Shown, Grows
  <2> QED
    BY <2>1, <2>2
<1> QED
  BY <1>2 DEF Turns

LEMMA SessionsNext ==
  ASSUME IInv, [Next]_vars
  PROVE  /\ session' \in [Create -> SessionRow]
         /\ \A e \in Create : SessionShown(e)'
<1> DEFINE Goal == /\ session' \in [Create -> SessionRow]
                   /\ \A e \in Create : SessionShown(e)'
<1>t. session \in [Create -> SessionRow] /\ TypeOK
  BY DEF IInv, TypeOK, SessionRow
<1>d. \A d \in Draft : /\ draft[d].rev \in Nat /\ draft[d].edits \in Snapshot
                       /\ draft[d].state # "none" => Shown(d, draft[d].rev, draft[d].edits)
  BY DEF IInv, DraftInv, History, DraftShown, Row
<1>1. ASSUME NEW c \in Create, NEW d \in Draft, Ask(c, d) PROVE Goal
  <2> DEFINE pc == IF ReadyFor(d) = {} THEN "missed" ELSE "done"
             row == [session[c] EXCEPT !.draft = d, !.pc = pc]
  <2>1. session' = [session EXCEPT ![c] = row] /\ session[c].pc = "idle"
    BY <1>1, <1>t DEF Ask
  <2>2. session[c] \in SessionRow /\ session[c].state = "none"
    BY <1>t, <2>1 DEF IInv, SessionShown
  <2>3. /\ row \in SessionRow /\ row.pc \in {"missed", "done"}
        /\ row.state = "none"
    BY <2>2 DEF SessionRow
  <2> HIDE DEF row
  <2> QED
    BY <1>t, <2>1, <2>3, SessionTurns, TurnIsShown
<1>2. ASSUME NEW c \in Create, LoadDraft(c) PROVE Goal
  <2>1. session[c] \in SessionRow /\ session[c].state = "none" /\ session[c].pc = "missed"
    BY <1>2, <1>t DEF LoadDraft, IInv, SessionShown
  <2>2. CASE Editable(session[c].draft)
    <3> DEFINE d == session[c].draft
               row == [session[c] EXCEPT !.pc = "loaded", !.rev = draft[d].rev,
                                         !.shown = Messages(d)]
    <3>1. session' = [session EXCEPT ![c] = row]
      BY <1>2, <1>t, <2>2 DEF LoadDraft
    <3>2. /\ d \in Draft /\ draft[d].rev \in Nat /\ Messages(d) \in Snapshot
          /\ Shown(d, draft[d].rev, draft[d].edits)
      BY <1>d, <2>1, <2>2 DEF SessionRow, Messages, Editable
    <3>3. /\ row \in SessionRow /\ row.pc = "loaded" /\ row.state = "none"
          /\ row.draft = d /\ row.rev = draft[d].rev /\ row.shown = draft[d].edits
      BY <2>1, <3>2 DEF SessionRow, Messages
    <3> HIDE DEF row, d
    <3> QED
      BY <1>t, <3>1, <3>2, <3>3, SessionTurns, TurnIsShown
  <2>3. CASE ~Editable(session[c].draft)
    <3> DEFINE row == [session[c] EXCEPT !.pc = "done"]
    <3>1. session' = [session EXCEPT ![c] = row]
      BY <1>2, <1>t, <2>3 DEF LoadDraft
    <3>2. row \in SessionRow /\ row.pc = "done" /\ row.state = "none"
      BY <2>1 DEF SessionRow
    <3> HIDE DEF row
    <3> QED
      BY <1>t, <3>1, <3>2, SessionTurns, TurnIsShown
  <2> QED
    BY <2>2, <2>3
<1>3. ASSUME NEW c \in Create, CallModel(c) PROVE Goal
  <2>1. PICK config \in {provider, NoConfig} :
          session' = [session EXCEPT ![c] = [@ EXCEPT !.pc = "called", !.config = config]]
    BY <1>3 DEF CallModel
  <2> DEFINE row == [session[c] EXCEPT !.pc = "called", !.config = config]
  <2>2. session' = [session EXCEPT ![c] = row]
    BY <1>t, <2>1
  <2>3. /\ config \in [config : Put \cup {"none"}, rev : Nat]
        /\ config = NoConfig \/ config \in stored
    BY <2>1 DEF NoConfig, IInv, TypeOK, ConfigsTyped
  <2>4. /\ session[c] \in SessionRow /\ session[c].state = "none"
        /\ Shown(session[c].draft, session[c].rev, session[c].shown)
    BY <1>3, <1>t DEF CallModel, IInv, SessionShown
  <2>5. /\ row \in SessionRow /\ row.pc = "called" /\ row.state = "none" /\ row.config = config
        /\ row.draft = session[c].draft /\ row.rev = session[c].rev /\ row.shown = session[c].shown
    BY <2>3, <2>4 DEF SessionRow
  <2> HIDE DEF row
  <2> QED
    BY <1>t, <2>2, <2>3, <2>4, <2>5, SessionTurns, TurnIsShown
<1>4. ASSUME NEW c \in Create, Recheck(c) PROVE Goal
  <2> DEFINE answers == UNION {Outcome(answer) : answer \in Chat(session[c].config)}
             rev == draft[session[c].draft].rev
  <2>1. PICK outcome \in answers :
          session' = [session EXCEPT ![c] = [@ EXCEPT !.pc = "checked", !.rev = rev,
                        !.state = IF StillShown(c) THEN outcome ELSE "degraded"]]
    BY <1>4 DEF Recheck
  <2>2. /\ session[c] \in SessionRow /\ session[c].draft \in Draft /\ rev \in Nat
        /\ Shown(session[c].draft, session[c].rev, session[c].shown)
        /\ session[c].config = NoConfig \/ session[c].config \in stored
    BY <1>4, <1>t, <1>d DEF Recheck, IInv, SessionShown, SessionRow
  <2>3. /\ outcome \in {"ready", "degraded", "unavailable"}
        /\ outcome = "ready" => session[c].config \in stored
    BY <2>1, <2>2 DEF Outcome, Chat
  <2> DEFINE state == IF StillShown(c) THEN outcome ELSE "degraded"
             row == [session[c] EXCEPT !.pc = "checked", !.rev = rev, !.state = state]
  <2>4. session' = [session EXCEPT ![c] = row]
    BY <1>t, <2>1
  <2>5. /\ state \in {"ready", "degraded", "unavailable"}
        /\ state = "ready" => session[c].config \in stored /\ session[c].rev = rev
    BY <2>3 DEF StillShown
  <2> HIDE DEF state, rev
  <2>6. /\ row \in SessionRow /\ row.pc = "checked" /\ row.state = state /\ row.rev = rev
        /\ row.draft = session[c].draft /\ row.shown = session[c].shown
        /\ row.config = session[c].config
    BY <2>2, <2>5 DEF SessionRow
  <2> HIDE DEF row
  <2> QED
    BY <1>t, <2>2, <2>4, <2>5, <2>6, SessionTurns, TurnIsShown
<1>5. ASSUME NEW c \in Create, StoreSession(c) PROVE Goal
  <2> DEFINE row == [session[c] EXCEPT !.pc = "done"]
  <2>1. session' = [session EXCEPT ![c] = row] /\ SessionShown(c)
    BY <1>5, <1>t DEF StoreSession, IInv
  <2>2. /\ row \in SessionRow /\ row.pc = "done" /\ row.state = session[c].state
        /\ row.draft = session[c].draft /\ row.rev = session[c].rev
        /\ row.shown = session[c].shown /\ row.config = session[c].config
    BY <1>t DEF SessionRow
  <2> HIDE DEF row
  <2> QED
    BY <1>t, <2>1, <2>2, SessionTurns, TurnIsShown DEF SessionShown
<1>6. CASE UNCHANGED session
  <2>1. Grows /\ stored \subseteq stored'
    BY StepGrows
  <2> QED
    BY <1>6, <1>t, <2>1 DEF IInv, SessionShown, Shown, Grows
<1>7. ASSUME \/ \E q \in Request : \/ RequestStep(q) /\ UNCHANGED agentVars
                                   \/ \E d \in Draft : /\ Load(q, d)
                                                       /\ UNCHANGED session
             \/ UNCHANGED agentVars
             \/ \E d \in Draft : ReadDraft(d)
             \/ \E m \in Message : Decide(m) \/ Handle(m) \/ Refuse(m)
             \/ \E u \in Put : PutLoad(u) \/ PutStore(u)
             \/ UNCHANGED vars
      PROVE  UNCHANGED session
  BY <1>7 DEF agentVars, ReadDraft, Decide, Send, Handle, Refuse, PutLoad, PutStore, vars
<1> QED
  BY <1>1, <1>2, <1>3, <1>4, <1>5, <1>6, <1>7 DEF Next

LEMMA SuggestedNext ==
  ASSUME IInv, [Next]_vars
  PROVE  \A p \in Proposal : Suggested(p)'
<1>t. /\ DOMAIN proposal = Proposal /\ DOMAIN session = Create
      /\ \A p \in Proposal : SuggestedIn[p] \in Create /\ Suggested(p)
  BY SuggestionsAssumption DEF IInv, TypeOK, DraftTypeOK
\* A session that has ended stays so.
<1>1. ASSUME NEW c \in Create, session[c].pc = "done" PROVE session'[c].pc = "done"
  <2>1. ASSUME NEW e \in Create, \/ \E d \in Draft : Ask(e, d)
                                 \/ LoadDraft(e) \/ CallModel(e) \/ Recheck(e)
        PROVE  e # c /\ session'[c] = session[c]
    BY <1>1, <2>1, <1>t DEF Ask, LoadDraft, CallModel, Recheck
  <2>2. ASSUME NEW e \in Create, StoreSession(e) PROVE e # c /\ session'[c] = session[c]
    BY <1>1, <2>2, <1>t DEF StoreSession
  <2> QED
    BY <1>1, <2>1, <2>2 DEF Next, agentVars, ReadDraft, Decide, Send, Handle, Refuse, PutLoad,
       PutStore, vars
<1>2. ASSUME NEW c \in Create, StoreSession(c) PROVE \A p \in Proposal : Suggested(p)'
  <2>1. PICK suggested \in SUBSET {q \in Proposal : SuggestedIn[q] = c} :
          Propose(suggested, session[c].draft)
    BY <1>2 DEF StoreSession
  <2>2. session'[c].pc = "done"
    BY <1>2, <1>t DEF StoreSession, IInv, TypeOK
  <2>3. \A p \in Proposal \ suggested : proposal'[p] = proposal[p]
    BY <2>1 DEF Propose
  <2> QED
    BY <1>1, <1>t, <2>2, <2>3 DEF Suggested
<1>3. ASSUME NEW a \in Proposal, Adopt(a) \/ Undo(a) \/ Reject(a)
      PROVE  \A p \in Proposal : proposal'[p].state # "none" => proposal[p].state # "none"
  BY <1>3, <1>t DEF Adopt, Undo, Reject
<1>4. ASSUME NEW m \in Message, Handle(m)
      PROVE  \/ UNCHANGED proposal
             \/ \E a \in Proposal : Adopt(a) \/ Undo(a) \/ Reject(a)
  <2>1. message[m].pc = "sent" /\ Effect(m)
    BY <1>4 DEF Handle
  <2>2. message[m].action # "answer" => message[m].on \in Proposal
    BY <2>1 DEF IInv, MessageShown
  <2> QED
    BY <2>1, <2>2 DEF Effect, draftVars
<1>5. CASE UNCHANGED proposal
  BY <1>1, <1>5, <1>t DEF Suggested
<1>6. CASE \E m \in Message : Handle(m)
  BY <1>1, <1>3, <1>4, <1>5, <1>6, <1>t DEF Suggested
<1>7. ASSUME NEW q \in Request, RequestStep(q) \/ \E d \in Draft : Load(q, d)
      PROVE  UNCHANGED proposal
  BY <1>7 DEF Load, RequestStep, CommitEdit, RefuseEdit, CommitConfirm, RefuseConfirm
<1>8. ASSUME NEW c \in Create, \/ \E d \in Draft : Ask(c, d)
                               \/ LoadDraft(c) \/ CallModel(c) \/ Recheck(c)
      PROVE  UNCHANGED proposal
  BY <1>8 DEF Ask, LoadDraft, CallModel, Recheck, draftVars
<1>9. ASSUME \/ \E d \in Draft : CreateDraft(d) \/ ReadDraft(d)
             \/ RemoveProject
             \/ \E m \in Message : Decide(m) \/ Refuse(m)
             \/ \E u \in Put : PutLoad(u) \/ PutStore(u)
             \/ UNCHANGED vars
      PROVE  UNCHANGED proposal
  BY <1>9 DEF CreateDraft, ReadDraft, RemoveProject, Decide, Send, Refuse, PutLoad, PutStore,
              vars, draftVars
<1> QED
  BY <1>2, <1>5, <1>6, <1>7, <1>8, <1>9 DEF Next

LEMMA PageNext ==
  ASSUME IInv, [Next]_vars
  PROVE  PageShown' /\ page' \in [draft : Draft, rev : Nat, edits : Snapshot]
<1>g. Grows /\ PageShown /\ page \in [draft : Draft, rev : Nat, edits : Snapshot]
  BY StepGrows DEF IInv, TypeOK
<1>1. ASSUME NEW d \in Draft, ReadDraft(d)
      PROVE  PageShown' /\ page' \in [draft : Draft, rev : Nat, edits : Snapshot]
  <2>1. /\ page' = [draft |-> d, rev |-> draft[d].rev, edits |-> draft[d].edits]
        /\ draft[d].state # "none"
    BY <1>1 DEF ReadDraft
  <2>2. Shown(d, draft[d].rev, draft[d].edits) /\ draft[d] \in Row
    BY <2>1 DEF IInv, DraftInv, History, DraftShown
  <2> QED
    BY <1>g, <2>1, <2>2 DEF PageShown, Shown, Grows, Row
<1>2. CASE UNCHANGED page
  BY <1>g, <1>2 DEF PageShown, Shown, Grows
<1> QED
  BY <1>1, <1>2 DEF Next, agentVars, Ask, LoadDraft, CallModel, Recheck, StoreSession, Decide, Send,
     Handle, Refuse, PutLoad, PutStore, vars

LEMMA MessagesNext ==
  ASSUME IInv, [Next]_vars
  PROVE  /\ \A m \in Message : MessageShown(m)'
         /\ message' \in [Message -> [pc : {"idle", "sent", "done"},
                              action : {"none", "adopt", "reject", "undo", "answer"},
                              on : Proposal \cup Question \cup {"none"},
                              base : Nat, seen : Snapshot]]
<1> DEFINE M == [pc : {"idle", "sent", "done"},
                 action : {"none", "adopt", "reject", "undo", "answer"},
                 on : Proposal \cup Question \cup {"none"}, base : Nat, seen : Snapshot]
<1>t. message \in [Message -> M] /\ page \in [draft : Draft, rev : Nat, edits : Snapshot]
  BY DEF IInv, TypeOK
\* A message that is not touched means what it meant.
<1>1. ASSUME NEW m \in Message, message'[m] = message[m] PROVE MessageShown(m)'
  <2> SUFFICES ASSUME message[m].pc = "sent", message[m].action # "answer"
               PROVE  /\ message[m].on \in Proposal
                      /\ proposal'[message[m].on].state # "none"
                      /\ \/ message[m].base = 0
                         \/ \E c \in contents' : /\ c.draft = proposal'[message[m].on].draft
                                                 /\ c.rev = message[m].base
                                                 /\ c.edits = message[m].seen
    BY <1>1 DEF MessageShown, Shown
  <2> DEFINE p == message[m].on
  <2>1. p \in Proposal /\ proposal[p].state # "none"
    BY DEF IInv, MessageShown
  <2>2. proposal'[p].state # "none" /\ proposal'[p].draft = proposal[p].draft
    BY <2>1, SuggestionsStay
  <2>3. message[m].base = 0 \/ Shown(proposal[p].draft, message[m].base, message[m].seen)
    BY DEF IInv, MessageShown
  <2> HIDE DEF p
  <2>4. Grows
    BY StepGrows
  <2> QED
    BY <2>1, <2>2, <2>3, <2>4 DEF Shown, Grows, p
<1>2. ASSUME NEW m \in Message, Handle(m) \/ Refuse(m)
      PROVE  (\A n \in Message : MessageShown(n)') /\ message' \in [Message -> M]
  <2>1. /\ message' \in [Message -> M] /\ message'[m].pc = "done"
        /\ \A n \in Message \ {m} : message'[n] = message[n]
    BY <1>2, <1>t DEF Handle, Refuse
  <2> QED
    BY <1>1, <2>1 DEF MessageShown
<1>3. ASSUME NEW m \in Message, NEW p \in Proposal, NEW action \in {"adopt", "reject", "undo"},
             proposal[p].state # "none", proposal[p].draft = page.draft, Send(m, action, p)
      PROVE  (\A n \in Message : MessageShown(n)') /\ message' \in [Message -> M]
  <2>1. /\ message' = [message EXCEPT ![m] = [pc |-> "sent", action |-> action, on |-> p,
                                              base |-> page.rev, seen |-> page.edits]]
        /\ UNCHANGED <<proposal, contents>>
    BY <1>3 DEF Send, draftVars
  <2>2. /\ message' \in [Message -> M]
        /\ \A n \in Message \ {m} : message'[n] = message[n]
    BY <1>t, <2>1
  <2>3. /\ message'[m].on = p /\ message'[m].base = page.rev /\ message'[m].seen = page.edits
    BY <1>t, <2>1
  <2>4. page.rev = 0 \/ Shown(proposal[p].draft, page.rev, page.edits)
    BY <1>3 DEF IInv, PageShown
  <2>5. MessageShown(m)'
    BY <1>3, <2>1, <2>3, <2>4 DEF MessageShown, Shown
  <2> QED
    BY <1>1, <2>2, <2>5
<1>4. ASSUME NEW m \in Message, NEW x \in Question, Send(m, "answer", x)
      PROVE  (\A n \in Message : MessageShown(n)') /\ message' \in [Message -> M]
  <2>1. message' = [message EXCEPT ![m] = [pc |-> "sent", action |-> "answer", on |-> x,
                                           base |-> page.rev, seen |-> page.edits]]
    BY <1>4 DEF Send
  <2>2. /\ message' \in [Message -> M] /\ message'[m].action = "answer"
        /\ \A n \in Message \ {m} : message'[n] = message[n]
    BY <1>t, <2>1
  <2> QED
    BY <1>1, <2>2 DEF MessageShown
<1>5. CASE UNCHANGED message
  BY <1>1, <1>5, <1>t
<1> QED
  BY <1>2, <1>3, <1>4, <1>5 DEF Next, agentVars, Ask, LoadDraft, CallModel, Recheck, StoreSession,
     ReadDraft, Decide, PutLoad, PutStore, vars

LEMMA ConfigsNext ==
  ASSUME IInv, [Next]_vars
  PROVE  /\ ConfigsTyped' /\ (provider = NoConfig \/ provider \in stored)'
         /\ put' \in [Put -> [pc : {"idle", "loaded", "done"}, rev : Nat]]
<1>t. /\ ConfigsTyped /\ (provider = NoConfig \/ provider \in stored)
      /\ put \in [Put -> [pc : {"idle", "loaded", "done"}, rev : Nat]]
      /\ provider.rev \in Nat
  BY DEF IInv, TypeOK, ConfigsTyped, NoConfig
<1>1. ASSUME NEW u \in Put, PutLoad(u)
      PROVE  /\ UNCHANGED <<stored, provider>>
             /\ put' \in [Put -> [pc : {"idle", "loaded", "done"}, rev : Nat]]
  BY <1>1, <1>t DEF PutLoad
<1>2. ASSUME NEW u \in Put, PutStore(u)
      PROVE  /\ ConfigsTyped' /\ provider' \in stored'
             /\ put' \in [Put -> [pc : {"idle", "loaded", "done"}, rev : Nat]]
  BY <1>2, <1>t DEF PutStore, ConfigsTyped
<1>3. CASE UNCHANGED <<stored, provider, put>>
  BY <1>3, <1>t DEF ConfigsTyped
<1>4. \/ \E u \in Put : PutLoad(u) \/ PutStore(u)
      \/ UNCHANGED <<stored, provider, put>>
  BY DEF Next, agentVars, Ask, LoadDraft, CallModel, Recheck, StoreSession, ReadDraft, Decide, Send,
     Handle, Refuse, vars
<1>5. ASSUME NEW u \in Put, PutLoad(u)
      PROVE  ConfigsTyped' /\ (provider = NoConfig \/ provider \in stored)'
  BY <1>1, <1>5, <1>t DEF ConfigsTyped
<1> QED
  BY <1>1, <1>2, <1>3, <1>4, <1>5, <1>t

LEMMA QuestionsNext ==
  ASSUME IInv, [Next]_vars
  PROVE  question' \in [Question -> {"none", "pending", "answered"}]
<1>t. question \in [Question -> {"none", "pending", "answered"}]
  BY DEF IInv, TypeOK
<1>1. ASSUME NEW c \in Create, StoreSession(c)
      PROVE  question' \in [Question -> {"none", "pending", "answered"}]
  BY <1>1, <1>t DEF StoreSession
<1>2. ASSUME NEW m \in Message, Handle(m)
      PROVE  question' \in [Question -> {"none", "pending", "answered"}]
  BY <1>2, <1>t DEF Handle, Effect
<1>3. CASE UNCHANGED question
  BY <1>3, <1>t
<1> QED
  BY <1>1, <1>2, <1>3 DEF Next, agentVars, Ask, LoadDraft, CallModel, Recheck, ReadDraft, Decide,
     Send, Refuse, PutLoad, PutStore, vars

LEMMA NextIInv ==
  ASSUME IInv, [Next]_vars
  PROVE  IInv'
<1>1. DraftInv'
  BY StepGrows
<1>2. TypeOK'
  BY <1>1, SessionsNext, QuestionsNext, MessagesNext, PageNext, ConfigsNext
     DEF TypeOK, DraftInv, SessionRow
<1> QED
  BY <1>1, <1>2, SessionsNext, SuggestedNext, MessagesNext, PageNext, ConfigsNext DEF IInv

LEMMA InitIInv == Init => IInv
<1> SUFFICES ASSUME Init PROVE IInv
  OBVIOUS
<1>1. AnyDraft \in Draft
  BY DraftsAssumption DEF AnyDraft
<1>2. DraftTypeOK
  BY <1>1 DEF Init, DraftInit, DraftTypeOK, Nothing, State, Snapshot
<1>3. History
  BY <1>2 DEF Init, DraftInit, History, DraftTypeOK, Row, Content, DraftShown, EtagNamesOneContent
<1>4. DraftInv
  BY <1>2, <1>3 DEF Init, DraftInit, DraftInv, LoadShown, Nothing, VersionsWereShown, LatestExists,
                    AdoptionShown
<1>5. TypeOK
  <2>1. Unread \in SessionRow
    BY <1>1 DEF Unread, SessionRow, NoConfig, Snapshot
  <2>2. Unsent \in [pc : {"idle", "sent", "done"},
                    action : {"none", "adopt", "reject", "undo", "answer"},
                    on : Proposal \cup Question \cup {"none"}, base : Nat, seen : Snapshot]
    BY DEF Unsent, Snapshot
  <2> QED
    BY <1>1, <1>2, <2>1, <2>2 DEF Init, TypeOK, SessionRow, Snapshot
<1>6. /\ ConfigsTyped /\ PageShown
      /\ \A c \in Create : SessionShown(c)
      /\ \A m \in Message : MessageShown(m)
  BY DEF Init, ConfigsTyped, PageShown, SessionShown, Unread, MessageShown, Unsent
<1>7. \A p \in Proposal : Suggested(p)
  BY DEF Init, DraftInit, Suggested
<1> QED
  BY <1>4, <1>5, <1>6, <1>7 DEF IInv

-----------------------------------------------------------------------------
(* The theorems                                                              *)

\* What a revision, a load, an adoption, a session and the page refer to is
\* always something the draft has shown.
THEOREM OnboardingInvariant == Spec => []IInv
<1> QED
  BY InitIInv, NextIInv, PTL DEF Spec

\* Every variable keeps its type.
THEOREM OnboardingTypes == Spec => []TypeOK
<1>1. IInv => TypeOK
  BY DEF IInv
<1> QED
  BY <1>1, OnboardingInvariant, PTL

\* A revision of a draft names one content, whoever raced for it (If-Match,
\* UPDATE ... WHERE revision = ?).
THEOREM EtagInvariant == Spec => []EtagNamesOneContent
<1>1. IInv => EtagNamesOneContent
  BY DEF IInv, DraftInv, History
<1> QED
  BY <1>1, OnboardingInvariant, PTL

\* A published version is what its draft showed under the revision the owner
\* confirmed, but for a project removed since.
THEOREM VersionsInvariant == Spec => []VersionsWereShown
<1>1. IInv => VersionsWereShown
  BY DEF IInv, DraftInv
<1> QED
  BY <1>1, OnboardingInvariant, PTL

\* No step loses an accepted decision of somebody else.
THEOREM EditsAreKept == Spec => EditsSurvive
<1>1. IInv /\ [Next]_vars =>
        [\A d \in Draft :
           LET lost == draft[d].edits \ draft'[d].edits IN
           \/ lost = {}
           \/ lost \subseteq ProjectPatch /\ \A e \in Draft : ~Shows(draft'[e].edits)
           \/ \E p \in lost : lost = {p} /\ p \in Proposal /\ proposal'[p].state = "undone"]_draftVars
  <2> SUFFICES ASSUME IInv, [Next]_vars, NEW d \in Draft
               PROVE  LET lost == draft[d].edits \ draft'[d].edits IN
                      \/ lost = {}
                      \/ lost \subseteq ProjectPatch /\ \A e \in Draft : ~Shows(draft'[e].edits)
                      \/ \E p \in lost : lost = {p} /\ p \in Proposal
                                                    /\ proposal'[p].state = "undone"
    OBVIOUS
  <2>1. DraftInv /\ DraftStep
    BY StepsOfDrafts DEF IInv
  <2> QED
    BY <2>1, NothingElseIsLost
<1> QED
  BY <1>1, OnboardingInvariant, PTL DEF Spec, EditsSurvive

\* A ready session was made from what its revision names, by a configuration
\* that was stored (DRAFT_CHANGED_DURING_MODEL_CALL).
THEOREM SessionsInvariant == Spec => []SessionFitsItsRevision
<1>1. IInv => SessionFitsItsRevision
  BY DEF IInv, SessionShown, Shown, DraftInv, History, EtagNamesOneContent, SessionFitsItsRevision
<1> QED
  BY <1>1, OnboardingInvariant, PTL

\* A suggestion changes a draft only as the owner has seen it.
THEOREM OwnerSaw == Spec => OwnerSawTheDraft
<1>1. IInv /\ [Next]_vars =>
        [\A m \in Message :
           message[m].pc = "sent" /\ message[m].on \in Proposal /\ draft' # draft
             /\ message'[m].pc = "done"
           => draft[proposal[message[m].on].draft].edits = message[m].seen]_vars
  <2> SUFFICES ASSUME IInv, [Next]_vars, NEW m \in Message, message[m].pc = "sent",
                      draft' # draft, message'[m].pc = "done"
               PROVE  draft[proposal[message[m].on].draft].edits = message[m].seen
    OBVIOUS
  <2>t. message[m].pc # "done" /\ DOMAIN message = Message
    BY DEF IInv, TypeOK
  <2>1. \A n \in Message : Refuse(n) \/ Decide(n) => draft' = draft
    BY DEF Refuse, Decide, Send, draftVars
  <2>2. PICK n \in Message : Handle(n)
    BY <2>1, <2>t DEF Next, agentVars, Ask, LoadDraft, CallModel, Recheck, StoreSession, ReadDraft,
       PutLoad, PutStore, vars
  <2>3. n = m
    BY <2>2, <2>t DEF Handle
  <2> DEFINE p == message[m].on
             d == proposal[p].draft
  <2>4. /\ message[m].action # "answer" /\ OnBase(m) /\ Editable(d)
    BY <2>2, <2>3 DEF Handle, Effect, Adopt, Undo, Reject, draftVars
  <2>5. /\ p \in Proposal
        /\ message[m].base = 0 \/ Shown(d, message[m].base, message[m].seen)
    BY <2>4 DEF IInv, MessageShown
  <2>6. d \in Draft /\ draft[d].rev > 0 /\ draft[d].rev = message[m].base
    BY <2>4, <2>5 DEF OnBase, Editable, IInv, DraftInv, DraftTypeOK, History, DraftShown
  <2>7. PICK c \in contents : c.draft = d /\ c.rev = draft[d].rev /\ c.edits = message[m].seen
    BY <2>5, <2>6 DEF Shown
  <2>8. Below(c)
    BY DEF IInv, DraftInv, History
  <2> QED
    BY <2>7, <2>8 DEF Below
<1> QED
  BY <1>1, OnboardingInvariant, PTL DEF Spec, OwnerSawTheDraft
=============================================================================
