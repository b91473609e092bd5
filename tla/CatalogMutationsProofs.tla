----------------------- MODULE CatalogMutationsProofs -----------------------
(***************************************************************************)
(* Proofs about CatalogMutations for any projects, businesses, links and    *)
(* agents, any requests and handlers, any retention and batch of events:    *)
(* the handlers implement MutationLog, and a page that has caught up with   *)
(* the stream shows what was read after the events it listens to.           *)
(***************************************************************************)
EXTENDS CatalogMutations, FiniteSetTheorems, SequenceTheorems, TLAPS

-----------------------------------------------------------------------------
(* The inductive invariant of the handlers                                   *)

RowState == {"absent", "active", "archived"}
Row == [state : RowState, revision : Nat]
Entry == [request : Request, resource : Resource, base : Nat, revision : Nat]
HandlerPc == {"free", "sent", "missed", "checked", "done"}

\* The entries of the log about a resource.
Entries(x) == {i \in DOMAIN applied : applied[i].resource = x}

ServerTyped ==
  /\ rows \in [Resource -> Row]
  /\ receipt \in [Request -> Nat]
  /\ applied \in Seq(Entry)
  /\ handler \in [Attempt -> [pc : HandlerPc, request : Request \cup {"none"}, answer : Nat]]
  /\ DOMAIN intent = Request /\ DOMAIN answers = Request

\* What a client means by a request, with a state to write if it is an update;
\* a handler at work has a request that is meant.
Means(meaning, r) == /\ meaning.base \in Nat
                     /\ Kind[r] = "update" => meaning.state \in {"active", "archived"}
Meant(r) == Means(intent[r], r)
RequestsMeant ==
  /\ \A r \in Request : intent[r] = None \/ Meant(r)
  /\ \A a \in Attempt : handler[a].pc # "free" =>
       handler[a].request \in Request /\ Meant(handler[a].request)

\* The revision of a row counts the mutations of it, and a row that is absent
\* has had none.
RevisionsCount ==
  \A x \in Resource : /\ rows[x].revision = First(x).revision + Cardinality(Entries(x))
                      /\ rows[x].state = "absent" => rows[x].revision = 0
CreationsPending ==
  \A r \in Request : Kind[r] = "create" /\ receipt[r] = 0 => rows[On[r]].state = "absent"

\* The receipts are those of the log, and what a handler answers is a receipt.
ReceiptsLogged ==
  /\ \A i \in DOMAIN applied : /\ applied[i].revision # 0
                               /\ receipt[applied[i].request] = applied[i].revision
  /\ \A r \in Request : receipt[r] # 0 => \E i \in DOMAIN applied : applied[i].request = r
AnswersReceipts ==
  \A a \in Attempt : handler[a].pc = "done" =>
    handler[a].answer = receipt[handler[a].request] /\ handler[a].answer # 0

Served == /\ ServerTyped /\ RequestsMeant /\ RevisionsCount /\ CreationsPending
          /\ ReceiptsLogged /\ AnswersReceipts

-----------------------------------------------------------------------------
(* The log                                                                   *)

\* A mutation that is appended counts for its resource, and for no other.
LEMMA EntriesAppend ==
  ASSUME applied \in Seq(Entry), NEW e \in Entry, applied' = Append(applied, e)
  PROVE  /\ applied' \in Seq(Entry)
         /\ DOMAIN applied' = DOMAIN applied \cup {Len(applied) + 1}
         /\ \A i \in DOMAIN applied : applied'[i] = applied[i]
         /\ applied'[Len(applied) + 1] = e
         /\ \A x : /\ Cardinality(Entries(x)) \in Nat
                   /\ Cardinality(Entries(x)') =
                        Cardinality(Entries(x)) + (IF e.resource = x THEN 1 ELSE 0)
<1> DEFINE n == Len(applied) + 1
<1>1. /\ applied' \in Seq(Entry) /\ Len(applied) \in Nat
      /\ DOMAIN applied = 1..Len(applied) /\ DOMAIN applied' = 1..n
      /\ \A i \in DOMAIN applied : applied'[i] = applied[i]
      /\ applied'[n] = e
  BY AppendProperties
<1>2. DOMAIN applied' = DOMAIN applied \cup {n} /\ n \notin DOMAIN applied
  BY <1>1
<1>3. ASSUME NEW x
      PROVE  /\ Cardinality(Entries(x)) \in Nat
             /\ Cardinality(Entries(x)') =
                  Cardinality(Entries(x)) + (IF e.resource = x THEN 1 ELSE 0)
  <2>1. IsFiniteSet(Entries(x))
    <3>1. IsFiniteSet(1..Len(applied)) /\ Entries(x) \subseteq 1..Len(applied)
      BY <1>1, FS_Interval DEF Entries
    <3> QED
      BY <3>1, FS_Subset
  <2>2. n \notin Entries(x)
    BY <1>2 DEF Entries
  <2>3. Entries(x)' = IF e.resource = x THEN Entries(x) \cup {n} ELSE Entries(x)
    BY <1>1, <1>2 DEF Entries
  <2>4. Cardinality(Entries(x)) \in Nat
    BY <2>1, FS_CardinalityType
  <2>5. Cardinality(Entries(x) \cup {n}) = Cardinality(Entries(x)) + 1
    BY <2>1, <2>2, FS_AddElement
  <2> QED
    BY <2>3, <2>4, <2>5
<1> QED
  BY <1>1, <1>2, <1>3

-----------------------------------------------------------------------------
(* The handlers                                                              *)

\* The handler of a takes this value, the others keep theirs.
Turns(a, pc, request, answer) ==
  /\ handler' \in [Attempt -> [pc : HandlerPc, request : Request \cup {"none"}, answer : Nat]]
  /\ handler'[a].pc = pc /\ handler'[a].request = request /\ handler'[a].answer = answer
  /\ \A b \in Attempt \ {a} : handler'[b] = handler[b]

LEMMA HandlerTurns ==
  ASSUME ServerTyped, NEW a \in Attempt, NEW pc \in HandlerPc, NEW r \in Request \cup {"none"},
         NEW n \in Nat, Turn(a, pc, r, n)
  PROVE  Turns(a, pc, r, n)
BY DEF ServerTyped, Turns, Turn

LEMMA HandlerReleased ==
  ASSUME ServerTyped, NEW a \in Attempt, Release(a)
  PROVE  Turns(a, "free", "none", 0)
<1>1. Turn(a, "free", "none", 0)
  BY DEF Release, Turn, Free
<1> QED
  BY <1>1, HandlerTurns DEF HandlerPc

\* A commit writes the next revision of its resource, and the log says so.
LEMMA CommitServes ==
  ASSUME Served, NEW a \in Attempt, Commit(a),
         NEW r, r = handler[a].request, NEW x, x = On[r]
  PROVE  Served' /\ r \in Request /\ x \in Resource /\ Abstract!Apply(r, x)
<1> DEFINE next == BaseOf(r) + 1
           e == [request |-> r, resource |-> x, base |-> BaseOf(r), revision |-> next]
<1>t. ServerTyped
  BY DEF Served
<1>r. r \in Request /\ x \in Resource /\ x = On[r] /\ Meant(r)
  BY RequestsAssumption DEF Served, RequestsMeant, Commit
<1>n. rows[x] \in Row /\ rows[x].revision \in Nat
  BY <1>t, <1>r DEF ServerTyped, Row
<1>1. BaseOf(r) = rows[x].revision
  <2>1. CASE Kind[r] = "create"
    <3>1. receipt[r] = 0
      BY DEF Commit, Stored
    <3> QED
      BY <1>r, <2>1, <3>1 DEF BaseOf, Served, CreationsPending, RevisionsCount
  <2>2. CASE Kind[r] = "bind"
    <3>1. rows[x].state = "absent"
      BY <2>2 DEF Commit, Admissible, MayBind
    <3> QED
      BY <1>r, <2>2, <3>1 DEF BaseOf, Served, RevisionsCount
  <2>3. CASE Kind[r] = "link"
    BY <2>3 DEF BaseOf
  <2>4. CASE Kind[r] \in {"update", "unlink"}
    BY <2>4 DEF Commit, Admissible, MayBind, MayUpdate, MayUnlink, BaseOf
  <2> QED
    BY <1>r, <2>1, <2>2, <2>3, <2>4, RequestsAssumption
<1>2. next \in Nat /\ next # 0 /\ e \in Entry
  BY <1>r, <1>n, <1>1 DEF Entry
<1>3. StateAfter(r) \in {"active", "archived"}
  BY <1>r DEF StateAfter, Meant, Means
<1>4. /\ rows' = [rows EXCEPT ![x] = [state |-> StateAfter(r), revision |-> next]]
      /\ receipt' = [receipt EXCEPT ![r] = next]
      /\ applied' = Append(applied, e)
      /\ UNCHANGED <<intent, answers>> /\ receipt[r] = 0
  BY DEF Commit, Stored
<1>5. Turns(a, "done", r, next)
  BY <1>t, <1>r, <1>2, HandlerTurns DEF Commit, HandlerPc
<1>6. /\ applied' \in Seq(Entry)
      /\ DOMAIN applied' = DOMAIN applied \cup {Len(applied) + 1}
      /\ \A i \in DOMAIN applied : applied'[i] = applied[i]
      /\ applied'[Len(applied) + 1] = e
      /\ \A y : /\ Cardinality(Entries(y)) \in Nat
                /\ Cardinality(Entries(y)') =
                     Cardinality(Entries(y)) + (IF e.resource = y THEN 1 ELSE 0)
  BY <1>t, <1>2, <1>4, EntriesAppend DEF ServerTyped
<1> HIDE DEF next
<1>7. /\ rows' \in [Resource -> Row] /\ receipt' \in [Request -> Nat]
      /\ rows'[x].state = StateAfter(r) /\ rows'[x].revision = next
      /\ \A y \in Resource \ {x} : rows'[y] = rows[y]
      /\ receipt'[r] = next /\ \A s \in Request \ {r} : receipt'[s] = receipt[s]
  <2>1. [state |-> StateAfter(r), revision |-> next] \in Row
    BY <1>2, <1>3 DEF Row, RowState
  <2> QED
    BY <1>t, <1>r, <1>2, <1>4, <2>1 DEF ServerTyped
<1>8. ServerTyped'
  BY <1>t, <1>4, <1>5, <1>6, <1>7 DEF ServerTyped, Turns
<1>9. RequestsMeant'
  BY <1>r, <1>4, <1>5 DEF Served, RequestsMeant, Meant, Means, Turns
<1>10. RevisionsCount'
  <2>1. ASSUME NEW y \in Resource
        PROVE  /\ rows'[y].revision = First(y).revision + Cardinality(Entries(y)')
               /\ rows'[y].state = "absent" => rows'[y].revision = 0
    <3>1. /\ rows[y].revision = First(y).revision + Cardinality(Entries(y))
          /\ rows[y].state = "absent" => rows[y].revision = 0
          /\ First(y).revision \in Nat /\ Cardinality(Entries(y)) \in Nat
      BY <1>6 DEF Served, RevisionsCount, First
    <3>2. CASE y = x
      <4>1. next = rows[x].revision + 1
        BY <1>1 DEF next
      <4>2. Cardinality(Entries(x)') = Cardinality(Entries(x)) + 1
        BY <1>6
      <4> QED
        BY <1>3, <1>7, <3>1, <3>2, <4>1, <4>2
    <3>3. CASE y # x
      <4>1. Cardinality(Entries(y)') = Cardinality(Entries(y))
        BY <1>6, <3>1, <3>3
      <4> QED
        BY <1>7, <3>1, <3>3, <4>1
    <3> QED
      BY <3>2, <3>3
  <2> QED
    BY <2>1 DEF RevisionsCount, First
<1>11. CreationsPending'
  <2>1. ASSUME NEW s \in Request, Kind[s] = "create", receipt'[s] = 0
        PROVE  rows'[On[s]].state = "absent"
    <3>1. s # r /\ receipt[s] = 0
      BY <1>2, <1>7, <2>1
    <3>2. rows[On[s]].state = "absent"
      BY <2>1, <3>1 DEF Served, CreationsPending
    <3>3. On[s] # x
      <4> SUFFICES ASSUME On[s] = x PROVE FALSE
        OBVIOUS
      <4>1. Kind[r] \in {"bind", "link", "unlink", "update"}
        BY <1>r, <2>1, <3>1, CreationsAssumption, RequestsAssumption
      <4>2. Kind[r] = "update"
        BY <1>r, <2>1, <4>1, RequestsAssumption
      <4> QED
        BY <3>2, <4>2 DEF Commit, Admissible, MayBind, MayUpdate
    <3> QED
      BY <1>7, <2>1, <3>2, <3>3, RequestsAssumption
  <2> QED
    BY <2>1 DEF CreationsPending
<1>12. ReceiptsLogged'
  <2>1. \A i \in DOMAIN applied : applied[i].request # r
    BY <1>4 DEF Served, ReceiptsLogged
  <2>2. \A i \in DOMAIN applied : applied[i].request \in Request
    <3>1. \A i \in DOMAIN applied : applied[i] \in Entry
      BY <1>t, ElementOfSeq DEF ServerTyped
    <3> QED
      BY <3>1 DEF Entry
  <2>3. \A i \in DOMAIN applied' : /\ applied'[i].revision # 0
                                   /\ receipt'[applied'[i].request] = applied'[i].revision
    BY <1>2, <1>6, <1>7, <2>1, <2>2 DEF Served, ReceiptsLogged
  <2>4. \A s \in Request : receipt'[s] # 0 => \E i \in DOMAIN applied' : applied'[i].request = s
    BY <1>6, <1>7 DEF Served, ReceiptsLogged
  <2> QED
    BY <2>3, <2>4 DEF ReceiptsLogged
<1>13. AnswersReceipts'
  <2>1. \A b \in Attempt \ {a} : handler[b].pc = "done" =>
          handler[b].request \in Request \ {r} /\ handler[b].answer = receipt[handler[b].request]
    BY <1>4 DEF Served, AnswersReceipts, RequestsMeant
  <2>2. ASSUME NEW b \in Attempt \ {a}, handler'[b].pc = "done"
        PROVE  handler'[b].answer = receipt'[handler'[b].request] /\ handler'[b].answer # 0
    BY <1>5, <1>7, <2>1, <2>2 DEF Served, AnswersReceipts, Turns
  <2> QED
    BY <1>2, <1>5, <1>7, <2>2 DEF AnswersReceipts, Turns
<1>14. Abstract!Apply(r, x)
  <2>1. Abstract!Revision(x) = rows[x].revision
    <3>1. rows[x].revision = First(x).revision + Cardinality(Entries(x))
      BY <1>r DEF Served, RevisionsCount
    <3>2. [y \in Resource |-> First(y).revision][x] = First(x).revision
      BY <1>r
    <3> QED
      BY <3>1, <3>2
         DEF Abstract!Revision, Entries, Abstract!Cardinality, Cardinality
  <2>2. \A i \in DOMAIN applied : applied[i].request # r
    BY <1>4 DEF Served, ReceiptsLogged
  <2> QED
    BY <1>1, <1>4, <2>1, <2>2 DEF Abstract!Apply, next
<1> QED
  BY <1>r, <1>8, <1>9, <1>10, <1>11, <1>12, <1>13, <1>14 DEF Served

\* A step of a handler that leaves the resources and the receipts alone.
LEMMA HandlerServes ==
  ASSUME Served, NEW a \in Attempt, NEW pc, NEW r, NEW n, Turns(a, pc, r, n),
         UNCHANGED <<rows, receipt, applied, intent>>, DOMAIN answers' = Request,
         pc # "free" => r \in Request /\ Meant(r),
         pc = "done" => n = receipt[r] /\ n # 0
  PROVE  Served'
<1>1. ServerTyped'
  BY DEF Served, ServerTyped, Turns
<1>2. RequestsMeant'
  BY DEF Served, RequestsMeant, Meant, Means, Turns
<1>3. RevisionsCount' /\ CreationsPending' /\ ReceiptsLogged'
  BY DEF Served, RevisionsCount, CreationsPending, ReceiptsLogged, Entries
<1>4. AnswersReceipts'
  BY DEF Served, AnswersReceipts, Turns
<1> QED
  BY <1>1, <1>2, <1>3, <1>4 DEF Served

\* What the log allows: a mutation of a commit, an answer, or nothing.
LogStep == Abstract!Next \/ UNCHANGED <<applied, answers>>

LEMMA ServedNext ==
  ASSUME Served, [Next]_vars
  PROVE  Served' /\ LogStep
<1>t. ServerTyped
  BY DEF Served
<1>h. \A a \in Attempt : /\ handler[a].answer \in Nat
                         /\ handler[a].pc # "free" => /\ handler[a].request \in Request
                                                      /\ Meant(handler[a].request)
  BY DEF Served, ServerTyped, RequestsMeant
<1>1. ASSUME NEW a \in Attempt, NEW r \in Request, Send(a, r) PROVE Served' /\ LogStep
  <2>1. UNCHANGED <<rows, receipt, applied, answers>>
    BY <1>1 DEF Send
  <2>2. Turns(a, "sent", r, 0)
    BY <1>1, <1>t, HandlerTurns DEF Send, HandlerPc
  <2>3. Bases(r) \subseteq Nat
    BY <1>t, RequestsAssumption DEF Bases, ServerTyped, Row
  <2>4. /\ DOMAIN intent' = Request /\ Meant(r)'
        /\ \A s \in Request \ {r} : intent'[s] = intent[s]
    <3>1. CASE intent[r] # None
      BY <1>1, <1>t, <3>1 DEF Send, ServerTyped, Served, RequestsMeant, Meant, Means
    <3>2. CASE intent[r] = None
      <4>1. PICK base \in Bases(r),
                 state \in IF Kind[r] = "update" THEN {"active", "archived"} ELSE {"none"} :
                intent' = [intent EXCEPT ![r] = [base |-> base, state |-> state]]
        BY <1>1, <3>2 DEF Send
      <4> QED
        BY <1>t, <2>3, <4>1 DEF ServerTyped, Meant, Means
    <3> QED
      BY <3>1, <3>2
  <2>5. ServerTyped'
    BY <1>t, <2>1, <2>2, <2>4 DEF ServerTyped, Turns
  <2>6. RequestsMeant'
    <3>1. \A s \in Request : intent'[s] = None \/ Means(intent'[s], s)
      BY <2>4 DEF Served, RequestsMeant, Meant, Means
    <3>2. \A s \in Request : Means(intent[s], s) => Means(intent'[s], s)
      BY <2>4 DEF Meant, Means
    <3>3. ASSUME NEW b \in Attempt, handler'[b].pc # "free"
          PROVE  handler'[b].request \in Request
                 /\ Means(intent'[handler'[b].request], handler'[b].request)
      <4>1. CASE b = a
        BY <2>2, <2>4, <4>1 DEF Turns, Meant, Means
      <4>2. CASE b # a
        <5>1. handler'[b] = handler[b]
          BY <2>2, <4>2 DEF Turns
        <5> QED
          BY <1>h, <3>2, <3>3, <5>1 DEF Meant, Means
      <4> QED
        BY <4>1, <4>2
    <3> QED
      BY <3>1, <3>3 DEF RequestsMeant, Meant, Means
  <2>7. RevisionsCount' /\ CreationsPending' /\ ReceiptsLogged'
    BY <2>1 DEF Served, RevisionsCount, CreationsPending, ReceiptsLogged, Entries
  <2>8. AnswersReceipts'
    BY <2>1, <2>2 DEF Served, AnswersReceipts, Turns
  <2> QED
    BY <2>1, <2>5, <2>6, <2>7, <2>8 DEF Served, LogStep
<1>2. ASSUME NEW a \in Attempt, Replay(a) PROVE Served' /\ LogStep
  <2> DEFINE stored == receipt[handler[a].request]
  <2>1. stored \in Nat /\ UNCHANGED <<rows, receipt, applied, intent, answers>>
    BY <1>2, <1>t, <1>h DEF Replay, server, ServerTyped
  <2>2. Turns(a, IF stored = 0 THEN "missed" ELSE "done", handler[a].request, stored)
    BY <1>2, <1>t, <1>h, <2>1, HandlerTurns DEF Replay, HandlerPc
  <2> QED
    BY <1>2, <1>t, <1>h, <2>1, <2>2, HandlerServes DEF Replay, ServerTyped, LogStep
<1>3. ASSUME NEW a \in Attempt, Check(a) PROVE Served' /\ LogStep
  <2>1. \/ Turns(a, "checked", handler[a].request, 0)
        \/ Turns(a, "free", "none", 0)
    BY <1>3, <1>t, <1>h, HandlerTurns, HandlerReleased DEF Check, HandlerPc
  <2>2. UNCHANGED <<rows, receipt, applied, intent, answers>> /\ handler[a].pc = "missed"
    BY <1>3 DEF Check, server
  <2> QED
    BY <1>t, <1>h, <2>1, <2>2, HandlerServes DEF ServerTyped, LogStep
<1>4. ASSUME NEW a \in Attempt, Commit(a) PROVE Served' /\ LogStep
  BY <1>4, CommitServes DEF LogStep, Abstract!Next
<1>5. ASSUME NEW a \in Attempt, Refuse(a) \/ Drop(a) PROVE Served' /\ LogStep
  <2>1. Turns(a, "free", "none", 0) /\ UNCHANGED <<rows, receipt, applied, intent, answers>>
    BY <1>5, <1>t, HandlerReleased DEF Refuse, Drop, server
  <2> QED
    BY <1>t, <2>1, HandlerServes DEF ServerTyped, LogStep
<1>6. ASSUME NEW a \in Attempt, Finish(a) PROVE Served' /\ LogStep
  <2>1. Turns(a, "free", "none", 0) /\ UNCHANGED <<rows, receipt, applied, intent>>
    BY <1>6, <1>t, HandlerReleased DEF Finish
  <2>2. PICK r \in Request : r = handler[a].request /\ handler[a].answer = receipt[r]
                              /\ receipt[r] # 0
    BY <1>6, <1>h DEF Finish, Served, AnswersReceipts
  <2>3. answers' \in {answers, [answers EXCEPT ![r] = @ \cup {handler[a].answer}]}
    BY <1>6, <2>2 DEF Finish
  <2>4. Served'
    BY <1>t, <2>1, <2>3, HandlerServes DEF ServerTyped
  <2>5. CASE answers' = answers
    BY <2>1, <2>4, <2>5 DEF LogStep
  <2>6. CASE answers' = [answers EXCEPT ![r] = @ \cup {handler[a].answer}]
    <3>1. PICK i \in DOMAIN applied : applied[i].request = r /\ applied[i].revision = receipt[r]
      BY <2>2 DEF Served, ReceiptsLogged
    <3>2. Abstract!Tell(r)
      BY <2>1, <2>2, <2>6, <3>1 DEF Abstract!Tell
    <3> QED
      BY <2>4, <3>2 DEF LogStep, Abstract!Next
  <2> QED
    BY <2>3, <2>5, <2>6
<1>7. CASE (StreamNext /\ UNCHANGED <<server, handler, sends>>) \/ UNCHANGED vars
  <2>1. UNCHANGED <<rows, receipt, applied, answers, intent, handler>>
    BY <1>7 DEF server, vars
  <2>2. ServerTyped' /\ RequestsMeant'
    BY <2>1 DEF Served, ServerTyped, RequestsMeant, Meant, Means
  <2>3. RevisionsCount' /\ CreationsPending'
    BY <2>1 DEF Served, RevisionsCount, CreationsPending, Entries
  <2>4. ReceiptsLogged' /\ AnswersReceipts'
    BY <2>1 DEF Served, ReceiptsLogged, AnswersReceipts
  <2> QED
    BY <2>1, <2>2, <2>3, <2>4 DEF Served, LogStep
<1> QED
  BY <1>1, <1>2, <1>3, <1>4, <1>5, <1>6, <1>7 DEF Next

-----------------------------------------------------------------------------
(* The page                                                                  *)

Run == {"none", "reading", "read", "left"}
Announcement == {"discovery.run.changed", "monitor.run.changed", "projection.changed",
                 "project_agent.changed"}
Message == [id : Nat, kind : Announcement \cup {"stream.reset"}]
Cursor == {n \in Int : Unavailable <= n /\ n <= Maximum}

StreamTyped ==
  /\ events \in Seq(Announcement) /\ passed \subseteq 1..Maximum
  /\ stream \in [state : {"off", "on", "refused"}, cursor : 0..Maximum, batch : Seq(Message)]
  /\ page \in [last : 0..Maximum, timer : BOOLEAN, run : Run, moved : BOOLEAN,
               pending : BOOLEAN, read : Cursor, shown : Cursor]
  /\ page.pending => page.run \in {"reading", "read"}

\* What is shown, or is about to be, was read when n was the newest cursor.
Shows(n, c) == n = Unavailable \/ c <= n
Due(c) ==
  \/ page.timer \/ page.pending \/ page.run = "reading"
  \/ page.run = "read" /\ Shows(page.read, c)
  \/ page.run \in {"none", "left"} /\ Shows(page.shown, c)

\* An event the page is to be told of.
Telling(c) == c \in DOMAIN events /\ Listens(events[c]) /\ c \notin passed
ToldIsDue == \A c \in 1..page.last : Telling(c) => Due(c)

\* Where the stream goes on from lies before everything that is kept, but for
\* what was passed; so does the id a page comes back with, which is not reset.
PassedBefore(n) == \A c \in 1..Maximum : n < c /\ c < Minimum => c \in passed \cup Sent
NewPageMisses == page.last = 0 => 1..(Minimum - 1) \subseteq passed

\* A connection sends a reset, or the events behind its cursor one by one.
Resetting == stream.batch = <<[id |-> stream.cursor, kind |-> "stream.reset"]>>
Following ==
  /\ stream.cursor = page.last
  /\ \A i \in DOMAIN stream.batch :
       /\ stream.batch[i].id = stream.batch[1].id + i - 1
       /\ stream.batch[i].id \in stream.cursor + 1 .. Maximum
       /\ stream.batch[i].kind = events[stream.batch[i].id]
       /\ \A c \in stream.cursor + 1 .. stream.batch[1].id - 1 : c \in passed
Connected == PassedBefore(stream.cursor) /\ (Resetting \/ Following)

PageInv ==
  /\ StreamTyped /\ ToldIsDue /\ NewPageMisses
  /\ stream.state = "on" => Connected

\* An event that is published is behind what the page and the stream have seen,
\* and the one that is pruned is on its way or counted as passed.
LEMMA PublishKeeps ==
  ASSUME PageInv, NEW kind \in Announcement, Publish(kind), UNCHANGED <<stream, page>>
  PROVE  PageInv'
<1> DEFINE m == Len(events)
           pruned == m + 1 - EventRetention
<1>t. StreamTyped /\ ToldIsDue /\ NewPageMisses /\ (stream.state = "on" => Connected)
  BY DEF PageInv
<1>1. /\ events' \in Seq(Announcement) /\ m \in Nat /\ Len(events') = m + 1
      /\ \A c \in 1..m : events'[c] = events[c]
      /\ DOMAIN events = 1..m /\ DOMAIN events' = 1..(m + 1)
  BY <1>t, AppendProperties DEF StreamTyped, Publish
<1>2. /\ passed \subseteq passed' /\ passed' \subseteq passed \cup {pruned}
      /\ pruned > 0 /\ Unsent(pruned) => pruned \in passed'
      /\ pruned \notin passed /\ pruned \in passed' => pruned > 0
      /\ EventRetention \in Nat \ {0} /\ pruned \in Int /\ pruned <= m
  BY <1>1, RetentionAssumption DEF Publish, Maximum
<1>3. passed' \subseteq 1..(m + 1)
  BY <1>t, <1>1, <1>2 DEF StreamTyped, Maximum
<1> HIDE DEF m, pruned
<1>m. m = Len(events) /\ pruned = m + 1 - EventRetention /\ Maximum = m /\ Maximum' = m + 1
  BY <1>1 DEF m, pruned, Maximum
<1>4. StreamTyped'
  <2>1. 0..m \subseteq 0..(m + 1) /\ Cursor \subseteq Cursor'
    BY <1>1, <1>m DEF Cursor, Unavailable
  <2> QED
    BY <1>t, <1>1, <1>3, <1>m, <2>1 DEF StreamTyped
<1>5. ToldIsDue'
  <2> SUFFICES ASSUME NEW c \in 1..page.last, Telling(c)' PROVE Due(c)
    BY DEF ToldIsDue, Due, Shows
  <2>1. c \in 1..m
    BY <1>t, <1>1, <1>m DEF StreamTyped
  <2>2. Telling(c)
    BY <1>1, <1>2, <2>1 DEF Telling
  <2> QED
    BY <1>t, <2>2 DEF ToldIsDue
<1>6. /\ Minimum' = IF pruned > 0 THEN pruned + 1 ELSE 1
      /\ Minimum = IF m > EventRetention THEN pruned ELSE 1
  BY <1>1, <1>2, <1>m DEF Minimum
<1>7. NewPageMisses'
  <2> SUFFICES ASSUME page.last = 0, NEW c \in 1..(Minimum' - 1) PROVE c \in passed'
    BY DEF NewPageMisses
  <2>1. CASE c = pruned
    BY <1>1, <1>2, <2>1 DEF Unsent
  <2>2. CASE c # pruned
    <3>1. c \in 1..(Minimum - 1)
      BY <1>1, <1>2, <1>m, <1>6, <2>2
    <3> QED
      BY <1>t, <1>2, <3>1 DEF NewPageMisses
  <2> QED
    BY <2>1, <2>2
<1>8. ASSUME stream.state = "on" PROVE Connected'
  <2>1. stream.cursor \in 0..m /\ Connected
    BY <1>t, <1>8, <1>m DEF StreamTyped
  <2>2. PassedBefore(stream.cursor)'
    <3> SUFFICES ASSUME NEW c \in 1..(m + 1), stream.cursor < c, c < Minimum'
                 PROVE  c \in passed' \cup Sent
      BY <1>m DEF PassedBefore, Sent
    <3>1. CASE c = pruned
      BY <1>1, <1>2, <1>8, <3>1 DEF Unsent
    <3>2. CASE c # pruned
      <4>1. c \in 1..m /\ c < Minimum
        BY <1>1, <1>2, <1>m, <1>6, <3>2
      <4> QED
        BY <1>2, <1>m, <2>1, <4>1 DEF Connected, PassedBefore
    <3> QED
      BY <3>1, <3>2
  <2>3. Resetting => Resetting'
    BY DEF Resetting
  <2>4. ASSUME Following PROVE Following'
    BY <1>1, <1>2, <1>m, <2>1, <2>4 DEF Following
  <2> QED
    BY <2>1, <2>2, <2>3, <2>4 DEF Connected
<1> QED
  BY <1>4, <1>5, <1>7, <1>8 DEF PageInv

\* The steps of the page leave the stream alone and give back what is due.
LEMMA PageKeeps ==
  ASSUME PageInv, Fire \/ Read \/ EndRefresh \/ Visit \/ Move
  PROVE  PageInv'
<1>t. StreamTyped /\ ToldIsDue /\ NewPageMisses /\ (stream.state = "on" => Connected)
  BY DEF PageInv
<1>1. UNCHANGED <<events, stream, passed>>
  BY DEF Fire, Read, EndRefresh, Visit, Move
<1>2. /\ Unavailable \in Cursor /\ Maximum \in Cursor /\ 0 \in Cursor /\ Maximum \in Nat
      /\ \A c \in DOMAIN events : Shows(Maximum, c) /\ Shows(Unavailable, c)
  BY <1>t DEF StreamTyped, Cursor, Unavailable, Maximum, Shows
<1>3. /\ page'.last = page.last /\ Maximum' = Maximum /\ Minimum' = Minimum /\ Cursor' = Cursor
      /\ StreamTyped' /\ \A c \in DOMAIN events : Due(c) => Due(c)'
  <2> DEFINE PageType == [last : 0..Maximum, timer : BOOLEAN, run : Run, moved : BOOLEAN,
                          pending : BOOLEAN, read : Cursor, shown : Cursor]
             Kept == /\ page' \in PageType /\ page'.last = page.last
                     /\ page'.pending => page'.run \in {"reading", "read"}
                     /\ \A c \in DOMAIN events : Due(c) => Due(c)'
  <2>1. page \in PageType /\ (page.pending => page.run \in {"reading", "read"})
    BY <1>t DEF StreamTyped
  <2>2. ASSUME Fire PROVE Kept
    BY <2>1, <2>2 DEF Fire, Due, Loading, Run
  <2>3. ASSUME Read PROVE Kept
    <3>1. PICK n \in {Maximum, Unavailable} : page' = [page EXCEPT !.run = "read", !.read = n]
      BY <2>3 DEF Read
    <3>2. page' \in PageType
      BY <1>2, <2>1, <3>1 DEF Run
    <3> QED
      BY <1>2, <2>1, <3>1, <3>2 DEF Due
  <2>4. ASSUME EndRefresh PROVE Kept
    <3> DEFINE run == CASE Current -> "none" [] page.pending -> "reading" [] OTHER -> "left"
    <3>1. /\ page' = [page EXCEPT !.shown = page.read, !.read = 0, !.pending = FALSE,
                                  !.run = run, !.moved = @ /\ page.pending]
          /\ page.run = "read"
      BY <2>4 DEF EndRefresh
    <3>2. /\ page.pending => run = "reading"
          /\ ~page.pending => run \in {"none", "left"}
          /\ run \in Run
      BY <2>1 DEF Current, Run
    <3> HIDE DEF run
    <3>3. page' \in PageType
      BY <1>2, <2>1, <3>1, <3>2
    <3>4. /\ page'.shown = page.read /\ page'.run = run /\ ~page'.pending
          /\ page'.timer = page.timer /\ page'.last = page.last
      BY <2>1, <3>1
    <3> QED
      BY <3>1, <3>2, <3>3, <3>4 DEF Due, Shows
  <2>5. ASSUME Visit PROVE Kept
    BY <2>1, <2>5 DEF Visit, Due, Run
  <2>6. ASSUME Move PROVE Kept
    BY <2>1, <2>6 DEF Move, Due, Run, Shows
  <2>7. Kept
    BY <2>2, <2>3, <2>4, <2>5, <2>6
  <2> HIDE DEF PageType
  <2>8. Maximum' = Maximum /\ Minimum' = Minimum /\ Cursor' = Cursor
    BY <1>1 DEF Maximum, Minimum, Cursor
  <2>9. StreamTyped'
    BY <1>t, <1>1, <2>7, <2>8 DEF StreamTyped, PageType
  <2> QED
    BY <2>7, <2>8, <2>9
<1>4. ToldIsDue'
  BY <1>t, <1>1, <1>3 DEF ToldIsDue, Telling
<1>5. NewPageMisses'
  BY <1>t, <1>1, <1>3 DEF NewPageMisses
<1>6. stream.state = "on" => Connected'
  BY <1>t, <1>1, <1>3 DEF Connected, PassedBefore, Sent, Resetting, Following
<1> QED
  BY <1>1, <1>3, <1>4, <1>5, <1>6 DEF PageInv

\* The stream neither forgets an event it has in hand nor goes on behind a gap.
LEMMA StreamKeeps ==
  ASSUME PageInv, Connect \/ Disconnect \/ Poll \/ Deliver
  PROVE  PageInv'
<1>t. StreamTyped /\ ToldIsDue /\ NewPageMisses /\ (stream.state = "on" => Connected)
  BY DEF PageInv
<1>1. UNCHANGED <<events, passed>>
  BY DEF Connect, Disconnect, Poll, Deliver
<1>2. /\ Maximum' = Maximum /\ Minimum' = Minimum /\ Cursor' = Cursor
      /\ Maximum \in Nat /\ Minimum \in Nat \ {0} /\ Minimum <= Maximum + 1
      /\ DOMAIN events = 1..Maximum
  BY <1>t, <1>1, RetentionAssumption DEF Maximum, Minimum, Cursor, StreamTyped
<1>3. \A c : Telling(c)' <=> Telling(c)
  BY <1>1 DEF Telling
<1>4. CASE Connect
  <2>1. UNCHANGED page /\ stream'.state = "on"
    BY <1>4 DEF Connect
  <2>2. StreamTyped' /\ Connected'
    <3>1. CASE Expired(page.last)
      <4>1. stream' = [state |-> "on", cursor |-> Maximum,
                       batch |-> <<[id |-> Maximum, kind |-> "stream.reset"]>>]
        BY <1>4, <3>1 DEF Connect
      <4>2. [id |-> Maximum, kind |-> "stream.reset"] \in Message
        BY <1>2 DEF Message
      <4>3. StreamTyped'
        <5> DEFINE reset == <<[id |-> Maximum, kind |-> "stream.reset"]>>
        <5>1. reset \in Seq(Message) /\ Maximum \in 0..Maximum
          BY <1>2, <4>2
        <5> HIDE DEF reset
        <5>2. stream' = [state |-> "on", cursor |-> Maximum, batch |-> reset]
          BY <4>1 DEF reset
        <5> QED
          BY <1>t, <1>1, <1>2, <2>1, <5>1, <5>2 DEF StreamTyped
      <4>4. Resetting' /\ PassedBefore(stream.cursor)'
        BY <1>2, <4>1 DEF Resetting, PassedBefore
      <4> QED
        BY <4>3, <4>4 DEF Connected
    <3>2. CASE ~Expired(page.last)
      <4>1. stream' = [state |-> "on", cursor |-> page.last, batch |-> <<>>]
        BY <1>4, <3>2 DEF Connect
      <4>2. StreamTyped' /\ page.last \in 0..Maximum
        BY <1>t, <1>1, <1>2, <2>1, <4>1 DEF StreamTyped
      <4>3. Following'
        BY <2>1, <4>1 DEF Following
      <4>4. PassedBefore(stream.cursor)'
        <5> SUFFICES ASSUME NEW c \in 1..Maximum, page.last < c, c < Minimum
                     PROVE  c \in passed
          BY <1>1, <1>2, <4>1 DEF PassedBefore
        <5>1. page.last = 0
          BY <1>2, <3>2, <4>2 DEF Expired
        <5> QED
          BY <1>t, <1>2, <5>1 DEF NewPageMisses
      <4> QED
        BY <4>2, <4>3, <4>4 DEF Connected
    <3> QED
      BY <3>1, <3>2
  <2>3. ToldIsDue' /\ NewPageMisses'
    BY <1>t, <1>1, <1>2, <1>3, <2>1 DEF ToldIsDue, NewPageMisses, Due, Shows
  <2> QED
    BY <2>2, <2>3 DEF PageInv
<1>5. CASE Disconnect
  <2>1. UNCHANGED page /\ stream' \in {Off, [Off EXCEPT !.state = "refused"]}
    BY <1>5 DEF Disconnect
  <2>2. StreamTyped' /\ stream'.state # "on"
    <3>1. stream' \in [state : {"off", "on", "refused"}, cursor : 0..Maximum, batch : Seq(Message)]
          /\ stream'.state # "on"
      <4> DEFINE nothing == <<>>
      <4>1. nothing \in Seq(Message) /\ 0 \in 0..Maximum
        BY <1>2
      <4>2. \/ stream' = [state |-> "off", cursor |-> 0, batch |-> nothing]
            \/ stream' = [state |-> "refused", cursor |-> 0, batch |-> nothing]
        BY <2>1 DEF Off
      <4> HIDE DEF nothing
      <4> QED
        BY <4>1, <4>2
    <3> QED
      BY <1>t, <1>1, <1>2, <2>1, <3>1 DEF StreamTyped
  <2>3. ToldIsDue' /\ NewPageMisses'
    BY <1>t, <1>1, <1>2, <1>3, <2>1 DEF ToldIsDue, NewPageMisses, Due, Shows
  <2> QED
    BY <2>2, <2>3 DEF PageInv
<1>6. CASE Poll
  <2>1. PICK count : /\ count = IF Maximum - From + 1 < EventBatch THEN Maximum - From + 1
                                                                     ELSE EventBatch
                     /\ stream' = [stream EXCEPT !.batch =
                          [i \in 1..count |-> [id |-> From + i - 1, kind |-> events[From + i - 1]]]]
    BY <1>6 DEF Poll
  <2>2. UNCHANGED page /\ From <= Maximum /\ stream.state = "on" /\ stream.batch = <<>>
    BY <1>6 DEF Poll
  <2>3. /\ stream.cursor \in 0..Maximum /\ From \in Nat /\ From >= 1
        /\ stream.cursor < From /\ Minimum <= From
        /\ \A c \in stream.cursor + 1 .. From - 1 : c < Minimum
    BY <1>t, <1>2 DEF From, StreamTyped
  <2>4. count \in Nat /\ count >= 1 /\ From + count - 1 <= Maximum
    BY <1>2, <2>1, <2>2, <2>3, RetentionAssumption
  <2> DEFINE batch == [i \in 1..count |-> [id |-> From + i - 1, kind |-> events[From + i - 1]]]
  <2>5. batch \in Seq(Message) /\ DOMAIN batch = 1..count
    <3>1. \A i \in 1..count : From + i - 1 \in 1..Maximum
      BY <1>2, <2>3, <2>4
    <3>2. \A c \in 1..Maximum : events[c] \in Announcement
      BY <1>t, <1>2 DEF StreamTyped
    <3>3. \A i \in 1..count : [id |-> From + i - 1, kind |-> events[From + i - 1]] \in Message
      BY <1>2, <3>1, <3>2 DEF Message
    <3> QED
      BY <2>4, <3>3
  <2>6. \A i \in 1..count : batch[i].id = From + i - 1 /\ batch[i].kind = events[From + i - 1]
    OBVIOUS
  <2>7. stream' = [stream EXCEPT !.batch = batch]
    BY <2>1
  <2> HIDE DEF batch
  <2>8. /\ StreamTyped' /\ stream'.batch = batch /\ stream'.cursor = stream.cursor
        /\ stream'.state = "on"
    BY <1>t, <1>1, <1>2, <2>2, <2>5, <2>7 DEF StreamTyped
  <2>9. Connected /\ stream.cursor = page.last /\ Sent = {}
    <3>1. Connected
      BY <1>t, <2>2
    <3>2. ~Resetting
      BY <2>2 DEF Resetting
    <3> QED
      BY <2>2, <3>1, <3>2 DEF Connected, Following, Sent
  <2>10. \A c \in stream.cursor + 1 .. From - 1 : c \in passed
    BY <1>2, <2>2, <2>3, <2>9 DEF Connected, PassedBefore
  <2>11. Following'
    BY <1>1, <1>2, <2>2, <2>3, <2>4, <2>5, <2>6, <2>8, <2>9, <2>10 DEF Following
  <2>12. PassedBefore(stream.cursor)'
    BY <1>1, <1>2, <2>8, <2>9 DEF Connected, PassedBefore
  <2>13. ToldIsDue' /\ NewPageMisses'
    BY <1>t, <1>1, <1>2, <1>3, <2>2 DEF ToldIsDue, NewPageMisses, Due, Shows
  <2> QED
    BY <2>8, <2>11, <2>12, <2>13 DEF PageInv, Connected
<1>7. CASE Deliver
  <2> DEFINE e == Head(stream.batch)
             b == stream.batch
  <2>1. /\ stream' = [stream EXCEPT !.cursor = e.id, !.batch = Tail(@)]
        /\ page' = [page EXCEPT !.last = e.id, !.timer = Refresh(e.kind)]
        /\ stream.state = "on" /\ b # <<>>
    BY <1>7 DEF Deliver
  <2>2. /\ b \in Seq(Message) /\ Len(b) \in Nat \ {0} /\ DOMAIN b = 1..Len(b) /\ e = b[1]
        /\ Tail(b) \in Seq(Message) /\ Len(Tail(b)) = Len(b) - 1
        /\ \A i \in 1..(Len(b) - 1) : Tail(b)[i] = b[i + 1]
        /\ DOMAIN Tail(b) = 1..(Len(b) - 1)
    <3>1. b \in Seq(Message) /\ b # <<>>
      BY <1>t, <2>1 DEF StreamTyped
    <3> QED
      BY <3>1, HeadTailProperties
  <2>3. Connected
    BY <1>t, <2>1
  <2>4. e.id \in 0..Maximum /\ e.id \in Nat
    BY <1>t, <2>2, <2>3 DEF Connected, Resetting, Following, StreamTyped
  <2> HIDE DEF e, b
  <2>5. /\ stream'.state = "on" /\ stream'.cursor = e.id /\ stream'.batch = Tail(b)
        /\ page'.last = e.id /\ page'.timer = Refresh(e.kind)
        /\ UNCHANGED <<page.run, page.pending, page.read, page.shown>>
        /\ page.timer => page'.timer
    BY <1>t, <2>1 DEF StreamTyped, Refresh, b
  <2>6. StreamTyped'
    BY <1>t, <1>1, <1>2, <2>1, <2>2, <2>4 DEF StreamTyped, Refresh, b
  <2>7. CASE b = <<[id |-> stream.cursor, kind |-> "stream.reset"]>>
    <3>1. e.id = stream.cursor /\ e.kind = "stream.reset" /\ Tail(b) = <<>>
      BY <2>2, <2>7
    <3>2. page'.timer
      BY <2>5, <3>1 DEF Refresh, Listens
    <3>3. ToldIsDue'
      BY <3>2 DEF ToldIsDue, Due
    <3>4. NewPageMisses'
      <4> SUFFICES ASSUME e.id = 0, NEW c \in 1..(Minimum - 1) PROVE c \in passed
        BY <1>1, <1>2, <2>5 DEF NewPageMisses
      <4>1. c \in 1..Maximum /\ stream.cursor < c /\ c < Minimum /\ c \notin Sent
        <5>1. \A i \in DOMAIN stream.batch : stream.batch[i].id = 0
          BY <2>7, <3>1 DEF b
        <5> QED
          BY <1>2, <3>1, <5>1 DEF Sent
      <4> QED
        BY <2>3, <4>1 DEF Connected, PassedBefore
    <3>5. Following' /\ PassedBefore(stream.cursor)'
      <4>1. Sent = {stream.cursor}
        BY <2>7 DEF Sent, b
      <4>2. Sent' = {}
        BY <2>5, <3>1 DEF Sent
      <4>3. Following'
        BY <2>5, <3>1 DEF Following
      <4>4. PassedBefore(stream.cursor)'
        BY <1>1, <1>2, <2>3, <2>5, <3>1, <4>1 DEF Connected, PassedBefore
      <4> QED
        BY <4>3, <4>4
    <3> QED
      BY <2>5, <2>6, <3>3, <3>4, <3>5 DEF PageInv, Connected
  <2>8. CASE b # <<[id |-> stream.cursor, kind |-> "stream.reset"]>>
    <3>1. Following
      BY <2>3, <2>8 DEF Connected, Resetting, b
    <3>2. /\ stream.cursor = page.last /\ e.kind = events[e.id] /\ stream.cursor \in Nat
          /\ e.id \in stream.cursor + 1 .. Maximum
          /\ \A i \in 1..Len(b) : /\ b[i].id = e.id + i - 1 /\ b[i].id \in 1..Maximum
                                  /\ b[i].kind = events[b[i].id]
          /\ \A c \in stream.cursor + 1 .. e.id - 1 : c \in passed
      <4>1. stream.cursor \in Nat
        BY <1>t, <1>2 DEF StreamTyped
      <4> QED
        BY <1>2, <2>2, <3>1, <4>1 DEF Following, b
    <3>3. ToldIsDue'
      <4> SUFFICES ASSUME NEW c \in 1..e.id, Telling(c) PROVE Due(c)'
        BY <1>3, <2>5 DEF ToldIsDue
      <4>1. CASE c \in 1..page.last
        <5>1. Due(c)
          BY <1>t, <4>1 DEF ToldIsDue
        <5> QED
          BY <2>5, <5>1 DEF Due, Shows
      <4>2. CASE c = e.id
        BY <2>5, <3>2, <4>2 DEF Telling, Due, Refresh
      <4>3. CASE c \notin 1..page.last /\ c # e.id
        <5>1. c \in stream.cursor + 1 .. e.id - 1
          BY <1>2, <2>4, <3>2, <4>3
        <5> QED
          BY <3>2, <5>1 DEF Telling
      <4> QED
        BY <4>1, <4>2, <4>3
    <3>4. NewPageMisses'
      <4>1. page'.last # 0
        BY <1>t, <1>2, <2>5, <3>2 DEF StreamTyped
      <4> QED
        BY <4>1 DEF NewPageMisses
    <3>5. Following'
      <4> SUFFICES ASSUME NEW i \in 1..(Len(b) - 1)
                   PROVE  /\ Tail(b)[i].id = Tail(b)[1].id + i - 1
                          /\ Tail(b)[i].id \in e.id + 1 .. Maximum
                          /\ Tail(b)[i].kind = events[Tail(b)[i].id]
                          /\ \A c \in e.id + 1 .. Tail(b)[1].id - 1 : c \in passed
        BY <1>1, <1>2, <2>2, <2>5 DEF Following
      <4>1. Tail(b)[i] = b[i + 1] /\ Tail(b)[1] = b[2] /\ i + 1 \in 1..Len(b) /\ 2 \in 1..Len(b)
        BY <2>2
      <4>2. b[i + 1].id = e.id + i /\ b[2].id = e.id + 1
        BY <2>2, <2>4, <3>2, <4>1
      <4>3. e.id + i \in 1..Maximum /\ b[i + 1].kind = events[e.id + i]
        BY <3>2, <4>1, <4>2
      <4>4. e.id + i = e.id + 1 + i - 1 /\ e.id + i \in e.id + 1 .. Maximum
        BY <1>2, <2>2, <2>4, <4>3
      <4>5. e.id + 1 .. (e.id + 1) - 1 = {}
        BY <2>4
      <4> QED
        BY <4>1, <4>2, <4>3, <4>4, <4>5
    <3>6. PassedBefore(stream.cursor)'
      <4> SUFFICES ASSUME NEW c \in 1..Maximum, e.id < c, c < Minimum, c \notin passed
                   PROVE  c \in Sent'
        BY <1>1, <1>2, <2>5 DEF PassedBefore
      <4>1. c \in Sent
        <5>1. stream.cursor < c
          BY <1>t, <1>2, <2>4, <3>2 DEF StreamTyped
        <5> QED
          BY <2>3, <5>1 DEF Connected, PassedBefore
      <4>2. PICK i \in 1..Len(b) : b[i].id = c
        BY <2>2, <4>1 DEF Sent, b
      <4>3. i - 1 \in 1..(Len(b) - 1)
        BY <2>2, <2>4, <3>2, <4>2
      <4>4. Tail(b)[i - 1].id = c
        BY <2>2, <4>2, <4>3
      <4> QED
        BY <2>2, <2>5, <4>3, <4>4 DEF Sent
    <3> QED
      BY <2>5, <2>6, <3>3, <3>4, <3>5, <3>6 DEF PageInv, Connected
  <2> QED
    BY <2>7, <2>8
<1> QED
  BY <1>4, <1>5, <1>6, <1>7

LEMMA PageNext ==
  ASSUME PageInv, [Next]_vars
  PROVE  PageInv'
<1>1. ASSUME UNCHANGED <<events, stream, page, passed>> PROVE PageInv'
  <2>1. Maximum' = Maximum /\ Minimum' = Minimum /\ Cursor' = Cursor /\ Sent' = Sent
    BY <1>1 DEF Maximum, Minimum, Cursor, Sent
  <2>2. StreamTyped'
    BY <1>1, <2>1 DEF PageInv, StreamTyped
  <2>3. ToldIsDue' /\ NewPageMisses'
    BY <1>1, <2>1 DEF PageInv, ToldIsDue, Telling, Due, Shows, NewPageMisses
  <2>4. stream.state = "on" => Connected'
    BY <1>1, <2>1 DEF PageInv, Connected, PassedBefore, Resetting, Following
  <2> QED
    BY <1>1, <2>2, <2>3, <2>4 DEF PageInv
<1>2. ASSUME NEW kind \in Announcement, Publish(kind), UNCHANGED <<stream, page>>
      PROVE  PageInv'
  BY <1>2, PublishKeeps
<1>3. ASSUME NEW a \in Attempt,
             \/ \E r \in Request : Send(a, r)
             \/ Replay(a) \/ Check(a) \/ Commit(a) \/ Refuse(a) \/ Finish(a) \/ Drop(a)
      PROVE  PageInv'
  <2>1. /\ UNCHANGED <<stream, page>>
        /\ \/ UNCHANGED <<events, passed>>
           \/ Publish(Announced(handler[a].request))
    BY <1>3 DEF Send, Replay, Check, Commit, Refuse, Finish, Drop, streamVars
  <2>2. Announced(handler[a].request) \in Announcement
    BY DEF Announced, Announcement
  <2> QED
    BY <1>1, <1>2, <2>1, <2>2
<1>4. CASE StreamNext
  <2>1. CASE Notify
    BY <1>2, <2>1 DEF Notify, Announcement
  <2>2. CASE ~Notify
    BY <1>4, <2>2, StreamKeeps, PageKeeps DEF StreamNext
  <2> QED
    BY <2>1, <2>2
<1>5. CASE UNCHANGED vars
  BY <1>1, <1>5 DEF vars, streamVars
<1> QED
  BY <1>3, <1>4, <1>5 DEF Next

-----------------------------------------------------------------------------
(* The theorems                                                              *)

IInv == Served /\ PageInv

LEMMA InitInv ==
  ASSUME Init
  PROVE  IInv /\ Abstract!Init
<1>1. \A x \in Resource : First(x) \in Row
  BY DEF First, Row, RowState
<1>2. applied = <<>> /\ applied \in Seq(Entry) /\ DOMAIN applied = {}
  BY DEF Init
<1>3. \A x : Entries(x) = {}
  BY <1>2 DEF Entries
<1>4. Cardinality({}) = 0
  BY FS_EmptySet
<1>5. ServerTyped /\ RequestsMeant
  BY <1>1, <1>2 DEF Init, ServerTyped, RequestsMeant, Free, HandlerPc
<1>6. RevisionsCount
  <2>1. ASSUME NEW x \in Resource
        PROVE  /\ rows[x].revision = First(x).revision + Cardinality(Entries(x))
               /\ rows[x].state = "absent" => rows[x].revision = 0
    <3>1. rows[x] = First(x)
      BY DEF Init
    <3>2. Cardinality(Entries(x)) = 0
      BY <1>3, <1>4
    <3>3. First(x).revision \in Nat /\ (First(x).state = "absent" => First(x).revision = 0)
      BY DEF First
    <3> QED
      BY <3>1, <3>2, <3>3
  <2> QED
    BY <2>1 DEF RevisionsCount
<1>7. CreationsPending
  BY CreationsAssumption, RequestsAssumption DEF Init, CreationsPending, First
<1>8. ReceiptsLogged /\ AnswersReceipts
  BY <1>2 DEF Init, ReceiptsLogged, AnswersReceipts, Free
<1>9. PageInv
  <2>1. /\ stream = Off /\ events = <<>> /\ passed = {}
        /\ page = [last |-> 0, timer |-> FALSE, run |-> "none", moved |-> FALSE,
                   pending |-> FALSE, read |-> 0, shown |-> 0]
    BY DEF Init, StreamInit
  <2>2. Maximum = 0 /\ Minimum = 1 /\ 0 \in Cursor
    BY <2>1, RetentionAssumption DEF Maximum, Minimum, Cursor, Unavailable
  <2>3. StreamTyped
    BY <2>1, <2>2 DEF StreamTyped, Off, Run
  <2>4. ToldIsDue /\ NewPageMisses
    BY <2>1, <2>2 DEF ToldIsDue, NewPageMisses
  <2> QED
    BY <2>1, <2>3, <2>4 DEF PageInv, Off
<1>10. Abstract!Init
  BY DEF Init, Abstract!Init
<1> QED
  BY <1>5, <1>6, <1>7, <1>8, <1>9, <1>10 DEF IInv, Served

LEMMA StepInv ==
  ASSUME IInv, [Next]_vars
  PROVE  IInv' /\ [Abstract!Next]_<<applied, answers>>
<1>1. Served' /\ LogStep
  BY ServedNext DEF IInv
<1> QED
  BY <1>1, PageNext DEF IInv, LogStep

\* The handlers are always in order, and nothing the page is to be told of is lost.
THEOREM CatalogInvariant == Spec => []IInv
<1>1. Init => IInv
  BY InitInv
<1>2. IInv /\ [Next]_vars => IInv'
  BY StepInv
<1> QED
  BY <1>1, <1>2, PTL DEF Spec

\* Every variable keeps its type, and the cursor of the stream is that of an event.
THEOREM CatalogTypes == Spec => []TypeOK
<1>1. ASSUME IInv PROVE TypeOK
  <2>1. page.run \in Run /\ page.shown \in Unavailable..Maximum
    BY <1>1 DEF IInv, PageInv, StreamTyped, Cursor, Unavailable
  <2>2. /\ stream.state \in {"off", "on", "refused"} /\ stream.cursor \in 0..Maximum
        /\ passed \subseteq 1..Maximum
    BY <1>1 DEF IInv, PageInv, StreamTyped
  <2>3. /\ rows \in [Resource -> [state : {"absent", "active", "archived"}, revision : Nat]]
        /\ receipt \in [Request -> Nat]
        /\ \A a \in Attempt : handler[a].pc \in {"free", "sent", "missed", "checked", "done"}
    BY <1>1 DEF IInv, Served, ServerTyped, Row, RowState, HandlerPc
  <2>4. \A r \in Request : intent[r] = None \/ intent[r].base \in Nat
    BY <1>1 DEF IInv, Served, RequestsMeant, Meant, Means
  <2> QED
    BY <2>1, <2>2, <2>3, <2>4 DEF TypeOK, Run
<1> QED
  BY <1>1, CatalogInvariant, PTL

\* A mutation takes effect at most once, on the revision it was meant for, and
\* every success answered is that effect (store_mutation_in, replay_mutation).
THEOREM CatalogImplementsMutationLog == Spec => ImplementsMutationLog
<1>1. Init => IInv /\ Abstract!Init
  BY InitInv
<1>2. IInv /\ [Next]_vars => IInv' /\ [Abstract!Next]_(Abstract!vars)
  BY StepInv DEF Abstract!vars
<1> QED
  BY <1>1, <1>2, PTL DEF Spec, ImplementsMutationLog, Abstract!Spec

\* A page that has been sent the last event and has nothing more to read shows
\* what was read after every event it listens to, however events are pruned,
\* batched and lost, and whichever of its requests overtake one another.
THEOREM CaughtUpInvariant == Spec => []CaughtUpIsCurrent
<1>1. ASSUME IInv PROVE CaughtUpIsCurrent
  <2> SUFFICES ASSUME Settled, page.shown # Unavailable,
                      NEW c \in DOMAIN events \ passed, Listens(events[c])
               PROVE  c <= page.shown
    BY DEF CaughtUpIsCurrent, UpToDate
  <2>t. StreamTyped /\ ToldIsDue /\ Connected
    BY <1>1 DEF IInv, PageInv, Settled
  <2>1. page.last = Maximum /\ ~page.timer /\ page.run = "none" /\ ~page.pending
    <3>1. Following
      BY <2>t DEF Settled, Connected, Resetting
    <3> QED
      BY <2>t, <3>1 DEF Settled, Following, StreamTyped, Loading
  <2>2. c \in 1..page.last /\ Telling(c)
    BY <2>t, <2>1 DEF StreamTyped, Maximum, Telling
  <2>3. Due(c)
    BY <2>t, <2>2 DEF ToldIsDue
  <2> QED
    BY <2>1, <2>3 DEF Due, Shows
<1> QED
  BY <1>1, CatalogInvariant, PTL
=============================================================================
