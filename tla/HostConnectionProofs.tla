------------------------ MODULE HostConnectionProofs ------------------------
(***************************************************************************)
(* Proofs about HostConnection for any addresses, credentials, keys, number *)
(* of requests in flight, rotations and restarts.                           *)
(***************************************************************************)
EXTENDS HostConnection, TLAPS

-----------------------------------------------------------------------------
(* The inductive invariant                                                   *)

Creating == {"store", "describe", "undo"}
Confirming == {"write_tmp", "look", "remove", "rename", "verify"}
Pc == {"idle", "cascade", "remove_secret", "edit", "forget", "fetch", "scan", "scanned",
       "probe", "ready", "failed", "admit", "observe", "close"}
      \cup Creating \cup Confirming
RunPc == {"none", "accepted", "session", "succeeded", "unreachable", "interrupted"}

\* What a request carries beside its copy of the row.
Carried == Addr \cup Cred \cup Key \cup {None}
Handler == [pc : Pc, h : Row \cup {None}, x : Carried]
WellTyped(c) ==
  /\ c.pc # "idle" => c.h \in Row
  /\ c.pc \in Creating \cup {"cascade", "remove_secret"} => c.x \in Cred
  /\ c.pc \in Confirming \cup {"scanned"} => c.x \in Key
RequestsTyped ==
  /\ w \in [Worker -> Handler]
  /\ \A p \in Worker : WellTyped(w[p])
RunTyped ==
  /\ run \in [pc : RunPc, target : Target \cup {None}]
  /\ run.pc \notin {"none", "accepted"} => run.target \in Target

\* A confirmation in flight is of a fingerprint that the owner has named, and
\* what it is about to write is the candidate of that fingerprint.
Named(c) ==
  /\ c.pc \in Confirming => c.x \in confirmed
  /\ c.pc = "write_tmp" => c.h.pending # None /\ c.h.pending.key = c.x
ConfirmationsAreNamed == \A p \in Worker : Named(w[p])

\* Every credential the row, a copy of it or an edit names is listed; one that
\* is being created is not, and nobody else creates it.
CredentialsListed ==
  /\ row.cred \in desc
  /\ \A p \in Worker :
       /\ w[p].pc # "idle" => w[p].h.cred \in desc
       /\ w[p].pc = "edit" /\ w[p].x \in Cred => w[p].x \in desc
CreationsAreFresh ==
  /\ \A p \in Worker : w[p].pc \in Creating => w[p].x \notin desc
  /\ \A p, q \in Worker :
       w[p].pc \in Creating /\ w[q].pc \in Creating /\ w[p].x = w[q].x => p = q

\* While the other host is there no secret goes but one that is being undone.
SecretsStay ==
  /\ \A p \in Worker : w[p].pc = "remove_secret" => other = None
  /\ other # None => desc \subseteq secrets
  /\ other # None => \A p \in Worker : w[p].pc = "describe" => w[p].x \in secrets

\* Without overlap there is one request or one run, the copy of the request is
\* what the row still says but for the status, and each pc has done its part.
Copied(h) == /\ TargetOf(h) = TargetOf(row)
             /\ h.fp = row.fp /\ h.keyState = row.keyState /\ h.pending = row.pending
Alone ==
  /\ \A p, q \in Worker : w[p].pc # "idle" /\ w[q].pc # "idle" => p = q
  /\ run.pc # "none" => \A p \in Worker : w[p].pc = "idle"
CandidateOfRow ==
  row.pending # None => row.pending.addr = row.addr /\ row.keyState # "verified"
RequestInOrder(p) ==
  /\ w[p].pc \notin {"idle", "forget"} => Copied(w[p].h)
  /\ w[p].pc = "forget" => row.keyState = "unverified" /\ row.status = "host_registered"
  /\ w[p].pc \in Confirming =>
       w[p].h.pending # None /\ w[p].h.pending.key = w[p].x
  /\ w[p].pc \in {"look", "remove", "rename"} => tmp = w[p].h.pending
  /\ w[p].pc = "verify" => file = w[p].h.pending
  /\ w[p].pc \in {"probe", "ready"} => row.keyState = "verified"
  /\ w[p].pc = "ready" => TargetOf(row) \in tested
  /\ w[p].pc = "admit" => row.status \in Connected
RunInOrder == run.pc # "none" => row.status = "discovery_running"
InOrder == /\ Alone
           /\ CandidateOfRow
           /\ \A p \in Worker : RequestInOrder(p)
           /\ RunInOrder
           /\ Trustworthy
Serial == ~overlapped => InOrder

IInv ==
  /\ TypeOK /\ RequestsTyped /\ RunTyped
  /\ ConfirmationsAreNamed
  /\ TrustIsConfirmed
  /\ RunningHasRun
  /\ CredentialsListed
  /\ CreationsAreFresh
  /\ SecretsStay
  /\ SecretsAccounted
  /\ Serial
-----------------------------------------------------------------------------
(* How a request moves                                                       *)

\* The request of p becomes this one, the others stay as they are.
Settled(p, pc, h, x) ==
  /\ w' \in [Worker -> Handler]
  /\ w'[p].pc = pc /\ w'[p].h = h /\ w'[p].x = x
  /\ \A q \in Worker \ {p} : w'[q] = w[q]

LEMMA Moved ==
  ASSUME RequestsTyped, NEW p \in Worker, NEW pc \in Pc, NEW h \in Row \cup {None},
         NEW x \in Carried, w' = [w EXCEPT ![p] = [pc |-> pc, h |-> h, x |-> x]]
  PROVE  Settled(p, pc, h, x)
BY DEF RequestsTyped, Settled, Handler

\* The four ways in which a step updates its request.
LEMMA CarryMoves ==
  ASSUME RequestsTyped, NEW p \in Worker, NEW pc \in Pc, NEW x \in Carried, Carry(p, pc, x)
  PROVE  Settled(p, pc, w[p].h, x)
<1>1. w[p].h \in Row \cup {None}
  BY DEF RequestsTyped, Handler
<1> QED
  BY <1>1, Moved DEF Carry

LEMMA GotoMoves ==
  ASSUME RequestsTyped, NEW p \in Worker, NEW pc \in Pc, Goto(p, pc)
  PROVE  Settled(p, pc, w[p].h, w[p].x)
<1>1. w[p].x \in Carried
  BY DEF RequestsTyped, Handler
<1> QED
  BY <1>1, CarryMoves DEF Goto

LEMMA DoneMoves ==
  ASSUME RequestsTyped, NEW p \in Worker, Done(p)
  PROVE  Settled(p, "idle", None, None)
<1>1. "idle" \in Pc
  BY DEF Pc
<1>2. None \in Carried /\ None \in Row \cup {None}
  BY DEF Carried
<1> QED
  BY <1>1, <1>2, Moved DEF Done, Idle

LEMMA StartMoves ==
  ASSUME TypeOK, RequestsTyped, NEW p \in Worker, NEW pc \in Pc, NEW x \in Carried,
         Start(p, pc, x)
  PROVE  Settled(p, pc, row, x)
BY Moved DEF Start, TypeOK

-----------------------------------------------------------------------------
(* Types                                                                     *)

Typed == TypeOK /\ RequestsTyped /\ RunTyped

\* The four kinds of update of the row.
LEMMA RowTyped ==
  ASSUME NEW r \in Row, NEW s \in Status
  PROVE  /\ [r EXCEPT !.status = s] \in Row
         /\ \A line \in Line, key \in KeyState :
              [r EXCEPT !.pending = line, !.keyState = key, !.status = s] \in Row
         /\ \A fp \in Key, key \in KeyState :
              [r EXCEPT !.fp = fp, !.pending = None, !.keyState = key, !.status = s] \in Row
         /\ \A addr \in Addr, cred \in Cred : [r EXCEPT !.addr = addr, !.cred = cred] \in Row
BY DEF Row

LEMMA StatusTyped ==
  ASSUME Typed, NEW s \in Status, SetStatus(s)
  PROVE  row' \in Row
BY RowTyped DEF Typed, TypeOK, SetStatus

LEMMA ResetTyped ==
  ASSUME NEW addr \in Addr, NEW cred \in Cred, NEW key \in KeyState, NEW s \in Status
  PROVE  [addr |-> addr, cred |-> cred, fp |-> None, pending |-> None,
          keyState |-> key, status |-> s] \in Row
BY DEF Row

\* A request that begins carries the row, and something that fits its kind.
LEMMA RequestTyped ==
  ASSUME Typed, NEW p \in Worker, Request(p)
  PROVE  Typed'
<1> USE DEF Typed, TypeOK, RequestsTyped, RunTyped, Settled, WellTyped, Pc, Creating,
            Confirming, store
<1>1. ASSUME NEW x \in Addr \cup Cred \cup {None}, Edit(p, x) PROVE Typed'
  BY <1>1, StartMoves DEF Edit, Carried
<1>2. ASSUME NEW c \in Cred, CreateSecret(p, c) PROVE Typed'
  BY <1>2, StartMoves DEF CreateSecret, Carried
<1>3. ASSUME DeleteOther(p) PROVE Typed'
  BY <1>3, StartMoves DEF DeleteOther, Carried
<1>4. ASSUME Test(p) \/ Discover(p) \/ Monitor(p) PROVE Typed'
  BY <1>4, StartMoves DEF Test, Discover, Monitor, Carried
<1>5. ASSUME NEW k \in Key, Confirm(p, k) PROVE Typed'
  BY <1>5, StartMoves DEF Confirm, Carried
<1> QED
  BY <1>1, <1>2, <1>3, <1>4, <1>5 DEF Request

LEMMA StepTyped ==
  ASSUME Typed, NEW p \in Worker, Step(p)
  PROVE  Typed'
<1> USE DEF Typed, TypeOK, RequestsTyped, RunTyped, Settled, WellTyped, Pc, Creating,
            Confirming, store
<1>1. CASE SecretStore(p) \/ SecretDescribe(p) \/ SecretUndo(p)
  BY <1>1, GotoMoves, DoneMoves DEF SecretStore, SecretDescribe, SecretUndo
<1>2. CASE DeleteCascade(p) \/ DeleteSecret(p)
  BY <1>2, GotoMoves, DoneMoves DEF DeleteCascade, DeleteSecret
<1>3. CASE EditCommit(p)
  <2>1. w[p].h \in Row /\ w[p].x \in Carried
    BY <1>3 DEF EditCommit, Handler
  <2>2. NewTarget(p).addr \in Addr /\ NewTarget(p).cred \in Cred
    BY <2>1 DEF NewTarget, Row
  <2>3. row' \in Row
    BY <1>3, <2>2, RowTyped, ResetTyped DEF EditCommit, KeyState, Status
  <2>4. RequestsTyped'
    BY <1>3, GotoMoves, DoneMoves DEF EditCommit
  <2> QED
    BY <1>3, <2>3, <2>4 DEF EditCommit
<1>4. CASE EditForget(p) \/ MonitorClose(p) \/ ConfirmLook(p) \/ ConfirmRemove(p)
  BY <1>4, GotoMoves, DoneMoves DEF EditForget, MonitorClose, ConfirmLook, ConfirmRemove
<1>5. CASE TestFetching(p) \/ TestChecking(p) \/ TestResult(p)
  <2>1. row' \in Row
    BY <1>5, StatusTyped DEF TestFetching, TestChecking, TestResult, Status, Connected
  <2> QED
    BY <1>5, <2>1, GotoMoves, DoneMoves DEF TestFetching, TestChecking, TestResult
<1>6. CASE TestScan(p)
  <2>1. w[p].h.addr \in Addr
    BY <1>6 DEF TestScan, Row
  <2>2. remote[w[p].h.addr] \in Key /\ remote[w[p].h.addr] \in Carried
    BY <2>1 DEF Carried
  <2> QED
    BY <1>6, <2>2, GotoMoves, CarryMoves DEF TestScan
<1>7. CASE TestCandidate(p)
  <2>1. w[p].h \in Row /\ w[p].x \in Key
    BY <1>7 DEF TestCandidate
  <2>2. [addr |-> w[p].h.addr, key |-> w[p].x] \in Line
    BY <2>1 DEF Line, Row
  <2>3. row' \in Row
    BY <1>7, <2>2, RowTyped DEF TestCandidate, KeyState, Status
  <2> QED
    BY <1>7, <2>3, DoneMoves DEF TestCandidate
<1>8. CASE TestProbe(p) \/ MonitorSession(p)
  <2>1. w[p].h \in Row
    BY <1>8 DEF TestProbe, MonitorSession
  <2>2. TargetOf(w[p].h) \in Target
    BY <2>1 DEF TargetOf, Target, Row
  <2> QED
    BY <1>8, <2>2, GotoMoves DEF TestProbe, MonitorSession, LoginStep
<1>9. CASE ConfirmWriteTmp(p)
  <2>1. w[p].h.pending \in Line \cup {None}
    BY <1>9 DEF ConfirmWriteTmp, Row
  <2> QED
    BY <1>9, <2>1, GotoMoves DEF ConfirmWriteTmp
<1>10. CASE ConfirmRename(p)
  BY <1>10, GotoMoves, DoneMoves DEF ConfirmRename
<1>11. CASE ConfirmVerify(p)
  <2>1. row' \in Row
    BY <1>11, RowTyped DEF ConfirmVerify, KeyState, Status
  <2> QED
    BY <1>11, <2>1, DoneMoves DEF ConfirmVerify
<1>12. CASE DiscoverAdmit(p)
  <2>1. row' \in Row
    BY <1>12, StatusTyped DEF DiscoverAdmit, Status, Connected
  <2>2. RunTyped'
    BY <1>12 DEF DiscoverAdmit, RunPc
  <2> QED
    BY <1>12, <2>1, <2>2, DoneMoves DEF DiscoverAdmit
<1> QED
  BY <1>1, <1>2, <1>3, <1>4, <1>5, <1>6, <1>7, <1>8, <1>9, <1>10, <1>11, <1>12 DEF Step

LEMMA NextTyped ==
  ASSUME Typed, [Next]_vars
  PROVE  Typed'
<1> USE DEF Typed, TypeOK, RequestsTyped, RunTyped
<1>1. ASSUME NEW p \in Worker, Drop(p) PROVE Typed'
  <2>1. HalfMade({p}) \subseteq Cred
    BY DEF HalfMade, WellTyped, Creating
  <2> QED
    BY <1>1, <2>1, DoneMoves DEF Drop, Settled, WellTyped, Creating, Confirming
<1>2. CASE RunBegin
  <2>1. TargetOf(row) \in Target
    BY DEF TargetOf, Target, Row
  <2> QED
    BY <1>2, <2>1 DEF RunBegin, store, RunPc
<1>3. CASE RunSession
  BY <1>3 DEF RunSession, store, RunPc
<1>4. CASE RunEnd
  <2>1. row' \in Row
    BY <1>4, StatusTyped DEF RunEnd, Status, Connected
  <2> QED
    BY <1>4, <2>1 DEF RunEnd, NoRun, RunPc, store
<1>5. CASE Restart
  <2>1. HalfMade(Worker) \subseteq Cred
    BY DEF HalfMade, WellTyped, Creating
  <2>2. row' \in Row
    BY <1>5, StatusTyped DEF Restart, Status, Connected
  <2>3. RequestsTyped'
    BY <1>5 DEF Restart, Idle, Handler, Carried, Pc, WellTyped, Creating, Confirming
  <2>4. RunTyped'
    BY <1>5 DEF Restart, NoRun, RunPc
  <2> QED
    BY <1>5, <2>1, <2>2, <2>3, <2>4 DEF Restart, Idle
<1>6. ASSUME NEW a \in Addr, NEW k \in Key, Rotate(a, k) PROVE Typed'
  BY <1>6 DEF Rotate, store
<1>7. CASE UNCHANGED vars
  BY <1>7 DEF vars
<1> QED
  BY <1>1, <1>2, <1>3, <1>4, <1>5, <1>6, <1>7, RequestTyped, StepTyped DEF Next, RunStep

-----------------------------------------------------------------------------
(* Trust                                                                     *)

Trusting == ConfirmationsAreNamed /\ TrustIsConfirmed

\* Only a confirmation writes a key, and it writes the one it was asked for.
LEMMA TrustNext ==
  ASSUME Typed, Trusting, [Next]_vars
  PROVE  Trusting'
<1> USE DEF Trusting, ConfirmationsAreNamed, Named, TrustIsConfirmed, Settled, Confirming
<1>t. RequestsTyped /\ TypeOK /\ row \in Row
  BY DEF Typed, TypeOK
<1>1. ASSUME NEW p \in Worker, Request(p) PROVE Trusting'
  <2>1. ASSUME NEW x \in Addr \cup Cred \cup {None}, Edit(p, x) PROVE Trusting'
    BY <1>t, <2>1, StartMoves DEF Edit, Carried, Pc
  <2>2. ASSUME NEW c \in Cred, CreateSecret(p, c) PROVE Trusting'
    BY <1>t, <2>2, StartMoves DEF CreateSecret, Carried, Pc, Creating
  <2>3. CASE DeleteOther(p)
    <3>1. other \in Carried
      BY <1>t DEF TypeOK, Carried
    <3> QED
      BY <1>t, <2>3, <3>1, StartMoves DEF DeleteOther, Pc
  <2>4. CASE Test(p) \/ Discover(p) \/ Monitor(p)
    <3>1. /\ None \in Carried
          /\ \E pc \in {"fetch", "admit", "observe"} : Start(p, pc, None)
      BY <2>4 DEF Test, Discover, Monitor, Carried
    <3>2. \E pc \in {"fetch", "admit", "observe"} : Settled(p, pc, row, None)
      BY <1>t, <3>1, StartMoves DEF Pc
    <3> QED
      BY <2>4, <3>2 DEF Test, Discover, Monitor
  <2>5. ASSUME NEW k \in Key, Confirm(p, k) PROVE Trusting'
    BY <1>t, <2>5, StartMoves DEF Confirm, Carried, Pc
  <2> QED
    BY <1>1, <2>1, <2>2, <2>3, <2>4, <2>5 DEF Request
<1>2. ASSUME NEW p \in Worker, Step(p) PROVE Trusting'
  <2>1. CASE SecretStore(p) \/ SecretDescribe(p) \/ SecretUndo(p)
    BY <1>t, <2>1, GotoMoves, DoneMoves DEF SecretStore, SecretDescribe, SecretUndo, Pc, Creating
  <2>2. CASE DeleteCascade(p) \/ DeleteSecret(p)
    BY <1>t, <2>2, GotoMoves, DoneMoves DEF DeleteCascade, DeleteSecret, Pc
  <2>3. CASE EditCommit(p)
    <3>1. row'.fp \in {None, row.fp}
      BY <1>t, <2>3 DEF EditCommit, Row
    <3> QED
      BY <1>t, <2>3, <3>1, GotoMoves, DoneMoves DEF EditCommit, Pc
  <2>4. CASE EditForget(p) \/ MonitorClose(p) \/ ConfirmLook(p) \/ ConfirmRemove(p)
    BY <1>t, <2>4, GotoMoves, DoneMoves
       DEF EditForget, MonitorClose, ConfirmLook, ConfirmRemove, Pc
  <2>5. CASE TestFetching(p) \/ TestChecking(p) \/ TestResult(p)
    <3>1. row'.fp = row.fp
      BY <1>t, <2>5 DEF TestFetching, TestChecking, TestResult, SetStatus, Row
    <3> QED
      BY <1>t, <2>5, <3>1, GotoMoves, DoneMoves DEF TestFetching, TestChecking, TestResult, Pc
  <2>6. CASE TestScan(p)
    <3>1. remote[w[p].h.addr] \in Carried
      BY <1>t, <2>6 DEF TestScan, Row, Carried, TypeOK, RequestsTyped, WellTyped
    <3> QED
      BY <1>t, <2>6, <3>1, GotoMoves, CarryMoves DEF TestScan, Pc
  <2>7. CASE TestCandidate(p)
    <3>1. row'.fp = row.fp
      BY <1>t, <2>7 DEF TestCandidate, Row
    <3> QED
      BY <1>t, <2>7, <3>1, DoneMoves DEF TestCandidate
  <2>8. CASE TestProbe(p) \/ MonitorSession(p)
    BY <1>t, <2>8, GotoMoves DEF TestProbe, MonitorSession, LoginStep, Pc
  <2>9. CASE ConfirmWriteTmp(p)
    BY <1>t, <2>9, GotoMoves DEF ConfirmWriteTmp, Pc
  <2>10. CASE ConfirmRename(p)
    BY <1>t, <2>10, GotoMoves, DoneMoves DEF ConfirmRename, Pc
  <2>11. CASE ConfirmVerify(p)
    <3>1. row'.fp = w[p].x
      BY <1>t, <2>11 DEF ConfirmVerify, Row
    <3> QED
      BY <1>t, <2>11, <3>1, DoneMoves DEF ConfirmVerify
  <2>12. CASE DiscoverAdmit(p)
    <3>1. row'.fp = row.fp
      BY <1>t, <2>12 DEF DiscoverAdmit, SetStatus, Row
    <3> QED
      BY <1>t, <2>12, <3>1, DoneMoves DEF DiscoverAdmit
  <2> QED
    BY <1>2, <2>1, <2>2, <2>3, <2>4, <2>5, <2>6, <2>7, <2>8, <2>9, <2>10, <2>11, <2>12 DEF Step
<1>3. ASSUME NEW p \in Worker, Drop(p) PROVE Trusting'
  BY <1>t, <1>3, DoneMoves DEF Drop
<1>4. CASE RunStep \/ Restart
  <2>1. row'.fp = row.fp
    BY <1>t, <1>4 DEF RunStep, RunBegin, RunSession, RunEnd, Restart, SetStatus, Row
  <2> QED
    BY <1>4, <2>1 DEF RunStep, RunBegin, RunSession, RunEnd, Restart, Idle
<1>5. ASSUME NEW a \in Addr, NEW k \in Key, Rotate(a, k) PROVE Trusting'
  BY <1>5 DEF Rotate
<1>6. CASE UNCHANGED vars
  BY <1>6 DEF vars
<1> QED
  BY <1>1, <1>2, <1>3, <1>4, <1>5, <1>6 DEF Next

-----------------------------------------------------------------------------
(* The status of a running discovery                                         *)

\* Whoever else writes the status writes another one, and a run that ends
\* takes it back.
LEMMA RunningNext ==
  ASSUME Typed, RunningHasRun, [Next]_vars
  PROVE  RunningHasRun'
<1> USE DEF RunningHasRun
<1>t. row \in Row
  BY DEF Typed, TypeOK
<1>1. ASSUME NEW p \in Worker, Request(p) PROVE RunningHasRun'
  BY <1>1 DEF Request, Edit, CreateSecret, DeleteOther, Test, Discover, Monitor, Confirm
<1>2. ASSUME NEW p \in Worker, Step(p) PROVE RunningHasRun'
  <2>1. CASE EditCommit(p)
    <3>1. row'.status \in {row.status, "host_registered"}
      BY <1>t, <2>1 DEF EditCommit, Row
    <3> QED
      BY <2>1, <3>1 DEF EditCommit
  <2>2. CASE TestFetching(p) \/ TestChecking(p) \/ TestResult(p)
    BY <1>t, <2>2 DEF TestFetching, TestChecking, TestResult, SetStatus, Row
  <2>3. CASE TestCandidate(p)
    BY <1>t, <2>3 DEF TestCandidate, Row
  <2>4. CASE ConfirmVerify(p)
    BY <1>t, <2>4 DEF ConfirmVerify, Row
  <2>5. CASE DiscoverAdmit(p)
    <3>1. CASE run.pc = "none"
      BY <2>5, <3>1 DEF DiscoverAdmit, Typed, RunTyped
    <3>2. CASE run.pc # "none"
      BY <2>5, <3>2 DEF DiscoverAdmit
    <3> QED
      BY <3>1, <3>2
  <2>6. CASE UNCHANGED <<row, run>>
    BY <2>6
  <2>7. Step(p) => EditCommit(p) \/ TestFetching(p) \/ TestChecking(p) \/ TestResult(p)
                    \/ TestCandidate(p) \/ ConfirmVerify(p) \/ DiscoverAdmit(p)
                    \/ UNCHANGED <<row, run>>
    BY DEF Step, SecretStore, SecretDescribe, SecretUndo, DeleteCascade, DeleteSecret,
           EditForget, TestScan, TestProbe, ConfirmWriteTmp, ConfirmLook, ConfirmRemove,
           ConfirmRename, MonitorSession, MonitorClose
  <2> QED
    BY <1>2, <2>1, <2>2, <2>3, <2>4, <2>5, <2>6, <2>7
<1>3. ASSUME NEW p \in Worker, Drop(p) PROVE RunningHasRun'
  BY <1>3 DEF Drop
<1>4. CASE RunBegin \/ RunSession
  BY <1>4 DEF RunBegin, RunSession, Typed, RunTyped
<1>5. CASE RunEnd
  <2>1. row'.status \in {"discovered", "failed", "connection_ready"}
    BY <1>t, <1>5 DEF RunEnd, SetStatus, Row
  <2> QED
    BY <2>1
<1>6. CASE Restart
  BY <1>t, <1>6 DEF Restart, SetStatus, Row
<1>7. ASSUME NEW a \in Addr, NEW k \in Key, Rotate(a, k) PROVE RunningHasRun'
  BY <1>7 DEF Rotate
<1>8. CASE UNCHANGED vars
  BY <1>8 DEF vars
<1> QED
  BY <1>1, <1>2, <1>3, <1>4, <1>5, <1>6, <1>7, <1>8 DEF Next, RunStep

-----------------------------------------------------------------------------
(* Secrets                                                                   *)

Accounted == CredentialsListed /\ CreationsAreFresh /\ SecretsStay /\ SecretsAccounted

\* A step of a request that creates no secret, edits nothing from here on and
\* leaves the secrets alone.
LEMMA QuietMove ==
  ASSUME Accounted, NEW p \in Worker, NEW pc, NEW h, NEW x, Settled(p, pc, h, x),
         w[p].pc \notin Creating, pc \notin Creating \cup {"edit", "remove_secret"},
         pc = "idle" \/ h.cred \in desc, row'.cred \in desc, UNCHANGED store
  PROVE  Accounted'
<1> USE DEF Settled, store
<1>1. CredentialsListed'
  BY DEF Accounted, CredentialsListed
<1>2. CreationsAreFresh'
  BY DEF Accounted, CreationsAreFresh
<1>3. SecretsStay'
  BY DEF Accounted, SecretsStay, Creating
<1>4. HalfMade(Worker)' = HalfMade(Worker)
  BY DEF HalfMade, Creating
<1>5. SecretsAccounted'
  BY <1>1, <1>3, <1>4 DEF Accounted, SecretsAccounted, CredentialsListed, SecretsStay
<1> QED
  BY <1>1, <1>2, <1>3, <1>5 DEF Accounted

LEMMA SecretsNext ==
  ASSUME Typed, Accounted, [Next]_vars
  PROVE  Accounted'
<1>t. RequestsTyped /\ TypeOK /\ row \in Row
  BY DEF Typed, TypeOK
<1>r. row.cred \in desc
  BY DEF Accounted, CredentialsListed
<1>h. \A p \in Worker : w[p].pc # "idle" => w[p].h \in Row /\ w[p].h.cred \in desc
  BY <1>t DEF RequestsTyped, WellTyped, Accounted, CredentialsListed
<1>1. ASSUME NEW p \in Worker, Request(p) PROVE Accounted'
  <2>1. ASSUME NEW x \in Addr \cup Cred \cup {None}, Edit(p, x) PROVE Accounted'
    <3>1. Settled(p, "edit", row, x) /\ w[p].pc = "idle"
      BY <1>t, <2>1, StartMoves DEF Edit, Start, Carried, Pc
    <3>2. x \in Cred => x \in desc
      BY <2>1, ConnectionAssumption DEF Edit
    <3>3. CredentialsListed'
      BY <1>r, <2>1, <3>1, <3>2 DEF Edit, store, Settled, Accounted, CredentialsListed
    <3>4. CreationsAreFresh' /\ SecretsStay'
      BY <2>1, <3>1
         DEF Edit, store, Settled, Accounted, CreationsAreFresh, SecretsStay, Creating
    <3>5. HalfMade(Worker)' = HalfMade(Worker)
      BY <3>1 DEF HalfMade, Settled
    <3> QED
      BY <2>1, <3>3, <3>4, <3>5 DEF Edit, store, Accounted, SecretsAccounted
  <2>2. ASSUME NEW c \in Cred, CreateSecret(p, c) PROVE Accounted'
    <3>1. Settled(p, "store", row, c) /\ w[p].pc = "idle"
      BY <1>t, <2>2, StartMoves DEF CreateSecret, Start, Carried, Pc, Creating
    <3>2. c \notin desc /\ \A q \in Worker : w[q].x # c
      BY <2>2 DEF CreateSecret
    <3>3. CredentialsListed'
      BY <1>r, <2>2, <3>1 DEF CreateSecret, store, Settled, Accounted, CredentialsListed
    <3>4. CreationsAreFresh' /\ SecretsStay'
      BY <2>2, <3>1, <3>2
         DEF CreateSecret, store, Settled, Accounted, CreationsAreFresh, SecretsStay, Creating
    <3>5. HalfMade(Worker)' = HalfMade(Worker)
      BY <3>1 DEF HalfMade, Settled
    <3> QED
      BY <2>2, <3>3, <3>4, <3>5 DEF CreateSecret, store, Accounted, SecretsAccounted
  <2>3. CASE DeleteOther(p)
    <3>1. other \in Carried
      BY <1>t DEF TypeOK, Carried
    <3>2. Settled(p, "cascade", row, other) /\ w[p].pc = "idle"
      BY <1>t, <2>3, <3>1, StartMoves DEF DeleteOther, Start, Pc
    <3> QED
      BY <1>r, <2>3, <3>2, QuietMove DEF DeleteOther, Creating
  <2>4. CASE Test(p) \/ Discover(p) \/ Monitor(p)
    <3>1. /\ None \in Carried
          /\ \E pc \in {"fetch", "admit", "observe"} : Start(p, pc, None)
      BY <2>4 DEF Test, Discover, Monitor, Carried
    <3>2. w[p].pc = "idle" /\ \E pc \in {"fetch", "admit", "observe"} : Settled(p, pc, row, None)
      BY <1>t, <3>1, StartMoves DEF Start, Pc
    <3> QED
      BY <1>r, <2>4, <3>2, QuietMove DEF Test, Discover, Monitor, Creating
  <2>5. ASSUME NEW k \in Key, Confirm(p, k) PROVE Accounted'
    <3>1. Settled(p, "write_tmp", row, k) /\ w[p].pc = "idle"
      BY <1>t, <2>5, StartMoves DEF Confirm, Start, Carried, Pc, Confirming
    <3> QED
      BY <1>r, <2>5, <3>1, QuietMove DEF Confirm, Creating
  <2> QED
    BY <1>1, <2>1, <2>2, <2>3, <2>4, <2>5 DEF Request
<1>2. ASSUME NEW p \in Worker, Step(p) PROVE Accounted'
  <2>1. CASE SecretStore(p)
    <3>1. Settled(p, "describe", w[p].h, w[p].x) /\ w[p].pc = "store"
      BY <1>t, <2>1, GotoMoves DEF SecretStore, Pc, Creating
    <3>2. CredentialsListed'
      BY <1>r, <1>h, <2>1, <3>1 DEF SecretStore, Settled, Accounted, CredentialsListed
    <3>3. CreationsAreFresh'
      BY <2>1, <3>1 DEF SecretStore, Settled, Accounted, CreationsAreFresh, Creating
    <3>4. SecretsStay'
      BY <2>1, <3>1 DEF SecretStore, Settled, Accounted, SecretsStay
    <3>5. HalfMade(Worker)' = HalfMade(Worker) \cup {w[p].x}
      BY <3>1 DEF HalfMade, Settled
    <3> QED
      BY <2>1, <3>2, <3>3, <3>4, <3>5 DEF SecretStore, Accounted, SecretsAccounted
  <2>2. CASE SecretDescribe(p)
    <3>1. /\ w[p].pc = "describe"
          /\ \/ Settled(p, "idle", None, None) /\ desc' = desc \cup {w[p].x}
             \/ Settled(p, "undo", w[p].h, w[p].x) /\ desc' = desc
      BY <1>t, <2>2, GotoMoves, DoneMoves DEF SecretDescribe, Pc, Creating
    <3>2. CredentialsListed'
      BY <1>r, <1>h, <2>2, <3>1 DEF SecretDescribe, Settled, Accounted, CredentialsListed
    <3>3. CreationsAreFresh'
      BY <2>2, <3>1 DEF SecretDescribe, Settled, Accounted, CreationsAreFresh, Creating
    <3>4. SecretsStay'
      BY <2>2, <3>1 DEF SecretDescribe, Settled, Accounted, SecretsStay
    <3>5. \A c \in HalfMade(Worker) : c \in HalfMade(Worker)' \/ c \in desc'
      BY <3>1 DEF HalfMade, Settled
    <3>6. SecretsAccounted'
      BY <2>2, <3>1, <3>2, <3>4, <3>5
         DEF SecretDescribe, Accounted, SecretsAccounted, SecretsStay, CredentialsListed
    <3> QED
      BY <3>2, <3>3, <3>4, <3>6 DEF Accounted
  <2>3. CASE SecretUndo(p)
    <3>1. Settled(p, "idle", None, None) /\ w[p].pc = "undo"
      BY <1>t, <2>3, DoneMoves DEF SecretUndo
    <3>2. CredentialsListed'
      BY <1>r, <2>3, <3>1 DEF SecretUndo, Settled, Accounted, CredentialsListed
    <3>3. CreationsAreFresh'
      BY <2>3, <3>1 DEF SecretUndo, Settled, Accounted, CreationsAreFresh, Creating
    <3>4. SecretsStay'
      BY <2>3, <3>1
         DEF SecretUndo, Settled, Accounted, SecretsStay, CreationsAreFresh, Creating
    <3>5. HalfMade(Worker) \subseteq HalfMade(Worker)' \cup {w[p].x}
      BY <3>1 DEF HalfMade, Settled
    <3>6. SecretsAccounted'
      BY <2>3, <3>2, <3>4, <3>5
         DEF SecretUndo, Accounted, SecretsAccounted, SecretsStay, CredentialsListed
    <3> QED
      BY <3>2, <3>3, <3>4, <3>6 DEF Accounted
  <2>4. CASE DeleteCascade(p)
    <3>1. /\ w[p].pc = "cascade" /\ other' = None
          /\ \E pc \in {"idle", "remove_secret"} :
               \E h \in {None, w[p].h}, x \in {None, w[p].x} :
                 Settled(p, pc, h, x) /\ (pc # "idle" => h = w[p].h)
      BY <1>t, <2>4, GotoMoves, DoneMoves DEF DeleteCascade, Pc
    <3>2. CredentialsListed' /\ CreationsAreFresh' /\ SecretsStay'
      BY <1>r, <1>h, <2>4, <3>1
         DEF DeleteCascade, Settled, Accounted, CredentialsListed, CreationsAreFresh,
             SecretsStay, Creating
    <3>3. HalfMade(Worker)' = HalfMade(Worker)
      BY <3>1 DEF HalfMade, Settled
    <3> QED
      BY <2>4, <3>1, <3>2, <3>3 DEF DeleteCascade, Accounted, SecretsAccounted
  <2>5. CASE DeleteSecret(p)
    <3>1. Settled(p, "idle", None, None) /\ w[p].pc = "remove_secret" /\ other = None
      BY <1>t, <2>5, DoneMoves DEF DeleteSecret, Accounted, SecretsStay
    <3>2. CredentialsListed' /\ CreationsAreFresh' /\ SecretsStay'
      BY <1>r, <2>5, <3>1
         DEF DeleteSecret, Settled, Accounted, CredentialsListed, CreationsAreFresh,
             SecretsStay, Creating
    <3>3. HalfMade(Worker)' = HalfMade(Worker)
      BY <3>1 DEF HalfMade, Settled
    <3> QED
      BY <2>5, <3>1, <3>2, <3>3 DEF DeleteSecret, Accounted, SecretsAccounted
  <2>6. CASE EditCommit(p)
    <3>1. NewTarget(p).cred \in desc
      BY <1>h, <2>6 DEF EditCommit, NewTarget, Accounted, CredentialsListed
    <3>2. row'.cred \in desc
      BY <1>t, <2>6, <3>1 DEF EditCommit, Row
    <3>3. \/ Settled(p, "idle", None, None)
          \/ Settled(p, "forget", w[p].h, w[p].x)
      BY <1>t, <2>6, GotoMoves, DoneMoves DEF EditCommit, Pc
    <3> QED
      BY <1>h, <2>6, <3>2, <3>3, QuietMove DEF EditCommit, Creating
  <2>7. CASE \/ EditForget(p) \/ MonitorClose(p) \/ MonitorSession(p) \/ TestProbe(p)
             \/ ConfirmWriteTmp(p) \/ ConfirmLook(p) \/ ConfirmRemove(p) \/ ConfirmRename(p)
    <3>1. /\ w[p].pc \notin Creating \cup {"idle"}
          /\ \/ Settled(p, "idle", None, None)
             \/ \E pc \in {"close", "ready", "failed", "look", "remove", "rename", "verify"} :
                  Settled(p, pc, w[p].h, w[p].x)
      BY <1>t, <2>7, GotoMoves, DoneMoves
         DEF EditForget, MonitorClose, MonitorSession, TestProbe, LoginStep, ConfirmWriteTmp,
             ConfirmLook, ConfirmRemove, ConfirmRename, Pc, Creating, Confirming
    <3>2. UNCHANGED row /\ UNCHANGED store
      BY <2>7 DEF EditForget, MonitorClose, MonitorSession, TestProbe, ConfirmWriteTmp,
                  ConfirmLook, ConfirmRemove, ConfirmRename
    <3> QED
      BY <1>r, <1>h, <3>1, <3>2, QuietMove DEF Creating
  <2>8. CASE TestFetching(p) \/ TestChecking(p) \/ TestResult(p) \/ ConfirmVerify(p)
             \/ TestCandidate(p) \/ DiscoverAdmit(p)
    <3>1. /\ w[p].pc \notin Creating \cup {"idle"}
          /\ \/ Settled(p, "idle", None, None)
             \/ \E pc \in {"scan", "probe"} : Settled(p, pc, w[p].h, w[p].x)
      BY <1>t, <2>8, GotoMoves, DoneMoves
         DEF TestFetching, TestChecking, TestResult, ConfirmVerify, TestCandidate,
             DiscoverAdmit, Pc, Creating
    <3>2. row'.cred = row.cred
      BY <1>t, <2>8 DEF TestFetching, TestChecking, TestResult, ConfirmVerify, TestCandidate,
                        DiscoverAdmit, SetStatus, Row
    <3>3. UNCHANGED store
      BY <2>8 DEF TestFetching, TestChecking, TestResult, ConfirmVerify, TestCandidate,
                  DiscoverAdmit
    <3> QED
      BY <1>r, <1>h, <3>1, <3>2, <3>3, QuietMove DEF Creating
  <2>9. CASE TestScan(p)
    <3>1. remote[w[p].h.addr] \in Carried
      BY <1>t, <2>9 DEF TestScan, Row, Carried, TypeOK, RequestsTyped, WellTyped
    <3>2. \/ Settled(p, "failed", w[p].h, w[p].x)
          \/ Settled(p, "scanned", w[p].h, remote[w[p].h.addr])
      BY <1>t, <2>9, <3>1, GotoMoves, CarryMoves DEF TestScan, Pc
    <3> QED
      BY <1>r, <1>h, <2>9, <3>2, QuietMove DEF TestScan, Creating
  <2> QED
    BY <1>2, <2>1, <2>2, <2>3, <2>4, <2>5, <2>6, <2>7, <2>8, <2>9 DEF Step
<1>3. ASSUME NEW p \in Worker, Drop(p) PROVE Accounted'
  <2>1. Settled(p, "idle", None, None)
    BY <1>t, <1>3, DoneMoves DEF Drop
  <2>2. CredentialsListed' /\ CreationsAreFresh' /\ SecretsStay'
    BY <1>r, <1>3, <2>1
       DEF Drop, Settled, Accounted, CredentialsListed, CreationsAreFresh, SecretsStay, Creating
  <2>3. HalfMade(Worker) \subseteq HalfMade(Worker)' \cup HalfMade({p})
    BY <2>1 DEF HalfMade, Settled
  <2> QED
    BY <1>3, <2>2, <2>3 DEF Drop, Accounted, SecretsAccounted
<1>4. CASE RunStep
  <2>1. row'.cred = row.cred /\ UNCHANGED <<w, store>>
    BY <1>t, <1>4 DEF RunStep, RunBegin, RunSession, RunEnd, SetStatus, Row
  <2> QED
    BY <2>1 DEF store, Accounted, CredentialsListed, CreationsAreFresh, SecretsStay,
                SecretsAccounted, HalfMade
<1>5. CASE Restart
  <2>1. row'.cred = row.cred /\ UNCHANGED <<secrets, desc, other>>
    BY <1>t, <1>5 DEF Restart, SetStatus, Row
  <2>2. \A p \in Worker : w'[p].pc = "idle"
    BY <1>5 DEF Restart, Idle
  <2>3. CredentialsListed' /\ CreationsAreFresh' /\ SecretsStay'
    BY <1>r, <2>1, <2>2
       DEF Accounted, CredentialsListed, CreationsAreFresh, SecretsStay, Creating
  <2>4. abandoned' = abandoned \cup HalfMade(Worker)
    BY <1>5 DEF Restart
  <2> QED
    BY <2>1, <2>3, <2>4 DEF Accounted, SecretsAccounted
<1>6. ASSUME NEW a \in Addr, NEW k \in Key, Rotate(a, k) PROVE Accounted'
  BY <1>6 DEF Rotate, store, Accounted, CredentialsListed, CreationsAreFresh, SecretsStay,
              SecretsAccounted, HalfMade
<1>7. CASE UNCHANGED vars
  BY <1>7 DEF vars, Accounted, CredentialsListed, CreationsAreFresh, SecretsStay,
              SecretsAccounted, HalfMade
<1> QED
  BY <1>1, <1>2, <1>3, <1>4, <1>5, <1>6, <1>7 DEF Next

-----------------------------------------------------------------------------
(* Requests that do not overlap                                              *)

\* A write of the status leaves the rest of the row alone.
SameButStatus == /\ row'.addr = row.addr /\ row'.cred = row.cred /\ row'.fp = row.fp
                 /\ row'.keyState = row.keyState /\ row'.pending = row.pending

LEMMA StatusOnly ==
  ASSUME Typed, NEW s \in Status, SetStatus(s)
  PROVE  SameButStatus /\ row'.status = s
BY DEF Typed, TypeOK, SetStatus, Row, SameButStatus

\* A request that begins when nothing else is going on.
LEMMA AloneStarts ==
  ASSUME InOrder, ~Busy, NEW p \in Worker, NEW pc, NEW x, Settled(p, pc, row, x),
         UNCHANGED <<row, file, tmp, run, tested>>,
         pc \notin {"forget", "look", "remove", "rename", "verify", "probe", "ready"},
         pc = "admit" => row.status \in Connected,
         pc = "write_tmp" => row.pending # None /\ row.pending.key = x
  PROVE  InOrder'
<1>1. run.pc = "none" /\ \A q \in Worker : w[q].pc = "idle"
  BY DEF Busy
<1>2. Alone' /\ RunInOrder' /\ CandidateOfRow' /\ Trustworthy'
  BY <1>1 DEF InOrder, Alone, RunInOrder, CandidateOfRow, Trustworthy, Settled, TargetOf
<1>3. ASSUME NEW q \in Worker PROVE RequestInOrder(q)'
  <2>1. CASE q # p
    BY <1>1, <2>1 DEF RequestInOrder, Settled, Confirming
  <2>2. CASE q = p
    BY <2>2 DEF RequestInOrder, Settled, Confirming, Copied, TargetOf
  <2> QED
    BY <2>1, <2>2
<1> QED
  BY <1>2, <1>3 DEF InOrder

\* A request that moves is the only one, and no run is active.
LEMMA AloneMoves ==
  ASSUME InOrder, NEW p \in Worker, w[p].pc # "idle"
  PROVE  /\ run.pc = "none" /\ \A q \in Worker \ {p} : w[q].pc = "idle"
         /\ \A pc, h, x :
              Settled(p, pc, h, x) /\ (run' = run \/ pc = "idle") =>
                /\ Alone'
                /\ \A q \in Worker \ {p} : RequestInOrder(q)'
                /\ pc = "idle" => RequestInOrder(p)'
BY DEF InOrder, Alone, RequestInOrder, Settled, Confirming

\* It moves without a write of the row or the file.
LEMMA QuietStep ==
  ASSUME InOrder, NEW p \in Worker, w[p].pc # "idle", NEW pc, NEW h, NEW x,
         Settled(p, pc, h, x), UNCHANGED <<row, file, run>>, tested \subseteq tested',
         RequestInOrder(p)' \/ pc = "idle"
  PROVE  InOrder'
<1>1. /\ run.pc = "none" /\ Alone' /\ \A q \in Worker \ {p} : RequestInOrder(q)'
      /\ RequestInOrder(p)'
  BY AloneMoves
<1>2. RunInOrder' /\ CandidateOfRow' /\ Trustworthy'
  BY <1>1 DEF InOrder, RunInOrder, CandidateOfRow, Trustworthy, TargetOf
<1> QED
  BY <1>1, <1>2 DEF InOrder

LEMMA SerialRequest ==
  ASSUME Typed, Serial, NEW p \in Worker, Request(p)
  PROVE  Serial'
<1> SUFFICES ASSUME ~overlapped' PROVE InOrder'
  BY DEF Serial
<1>t. RequestsTyped /\ TypeOK
  BY DEF Typed
<1>s. ASSUME NEW pc, NEW x, Start(p, pc, x) PROVE InOrder /\ ~Busy
  BY <1>s DEF Start, Serial
<1>1. ASSUME NEW x \in Addr \cup Cred \cup {None}, Edit(p, x) PROVE InOrder'
  <2>1. Start(p, "edit", x) /\ Settled(p, "edit", row, x)
    BY <1>t, <1>1, StartMoves DEF Edit, Carried, Pc
  <2> QED
    BY <1>1, <1>s, <2>1, AloneStarts DEF Edit
<1>2. ASSUME NEW c \in Cred, CreateSecret(p, c) PROVE InOrder'
  <2>1. Start(p, "store", c) /\ Settled(p, "store", row, c)
    BY <1>t, <1>2, StartMoves DEF CreateSecret, Carried, Pc, Creating
  <2> QED
    BY <1>2, <1>s, <2>1, AloneStarts DEF CreateSecret
<1>3. CASE DeleteOther(p)
  <2>1. other \in Carried
    BY <1>t DEF TypeOK, Carried
  <2>2. Start(p, "cascade", other) /\ Settled(p, "cascade", row, other)
    BY <1>t, <1>3, <2>1, StartMoves DEF DeleteOther, Pc
  <2> QED
    BY <1>3, <1>s, <2>2, AloneStarts DEF DeleteOther
<1>4. CASE Test(p) \/ Monitor(p)
  <2>1. /\ None \in Carried
        /\ \E pc \in {"fetch", "observe"} : Start(p, pc, None)
    BY <1>4 DEF Test, Monitor, Carried
  <2>2. InOrder /\ ~Busy
    BY <1>s, <2>1
  <2>3. \E pc \in {"fetch", "observe"} : Settled(p, pc, row, None)
    BY <1>t, <2>1, StartMoves DEF Pc
  <2>4. UNCHANGED <<row, file, tmp, run, tested>>
    BY <1>4 DEF Test, Monitor
  <2> QED
    BY <2>2, <2>3, <2>4, AloneStarts
<1>5. CASE Discover(p)
  <2>1. Start(p, "admit", None) /\ Settled(p, "admit", row, None)
    BY <1>t, <1>5, StartMoves DEF Discover, Carried, Pc
  <2> QED
    BY <1>5, <1>s, <2>1, AloneStarts DEF Discover, Connected
<1>6. ASSUME NEW k \in Key, Confirm(p, k) PROVE InOrder'
  <2>1. Start(p, "write_tmp", k) /\ Settled(p, "write_tmp", row, k)
    BY <1>t, <1>6, StartMoves DEF Confirm, Carried, Pc, Confirming
  <2> QED
    BY <1>6, <1>s, <2>1, AloneStarts DEF Confirm
<1> QED
  BY <1>1, <1>2, <1>3, <1>4, <1>5, <1>6 DEF Request

LEMMA SerialStep ==
  ASSUME Typed, Serial, NEW p \in Worker, Step(p)
  PROVE  Serial'
<1>0. w[p].pc # "idle" /\ overlapped' = overlapped
  BY DEF Step, SecretStore, SecretDescribe, SecretUndo, DeleteCascade, DeleteSecret,
         EditCommit, EditForget, TestFetching, TestScan, TestCandidate, TestChecking,
         TestProbe, TestResult, ConfirmWriteTmp, ConfirmLook, ConfirmRemove, ConfirmRename,
         ConfirmVerify, DiscoverAdmit, MonitorSession, MonitorClose
<1> SUFFICES ASSUME InOrder PROVE InOrder'
  BY <1>0 DEF Serial
<1>t. RequestsTyped /\ TypeOK /\ row \in Row /\ w[p].h \in Row
  BY <1>0 DEF Typed, TypeOK, RequestsTyped, WellTyped
<1>o. RequestInOrder(p)
  BY DEF InOrder
<1>a. /\ run.pc = "none"
      /\ \A pc, h, x : Settled(p, pc, h, x) /\ (run' = run \/ pc = "idle") =>
           /\ Alone' /\ \A q \in Worker \ {p} : RequestInOrder(q)'
           /\ pc = "idle" => RequestInOrder(p)'
  BY <1>0, AloneMoves
<1>1. CASE SecretStore(p) \/ SecretDescribe(p) \/ SecretUndo(p)
  <2>1. \/ Settled(p, "idle", None, None)
        \/ \E pc \in {"describe", "undo"} : /\ w[p].pc \in Creating
                                            /\ Settled(p, pc, w[p].h, w[p].x)
    BY <1>t, <1>1, GotoMoves, DoneMoves
       DEF SecretStore, SecretDescribe, SecretUndo, Pc, Creating
  <2>2. UNCHANGED <<row, file, tmp, run, tested>>
    BY <1>1 DEF SecretStore, SecretDescribe, SecretUndo
  <2>3. RequestInOrder(p)' \/ Settled(p, "idle", None, None)
    BY <1>o, <2>1, <2>2 DEF RequestInOrder, Settled, Copied, TargetOf, Creating, Confirming
  <2> QED
    BY <1>0, <2>1, <2>2, <2>3, QuietStep
<1>2. CASE DeleteCascade(p) \/ DeleteSecret(p)
  <2>1. \/ Settled(p, "idle", None, None)
        \/ Settled(p, "remove_secret", w[p].h, w[p].x) /\ w[p].pc = "cascade"
    BY <1>t, <1>2, GotoMoves, DoneMoves DEF DeleteCascade, DeleteSecret, Pc
  <2>2. UNCHANGED <<row, file, tmp, run, tested>>
    BY <1>2 DEF DeleteCascade, DeleteSecret
  <2>3. RequestInOrder(p)' \/ Settled(p, "idle", None, None)
    BY <1>o, <2>1, <2>2 DEF RequestInOrder, Settled, Copied, TargetOf, Confirming
  <2> QED
    BY <1>0, <2>1, <2>2, <2>3, QuietStep
<1>3. CASE EditCommit(p)
  <2>1. w[p].pc = "edit" /\ TargetOf(w[p].h) = TargetOf(row) /\ UNCHANGED <<file, run>>
    BY <1>3, <1>o DEF EditCommit, RequestInOrder, Copied
  <2>2. CASE Changed(p)
    <3>1. /\ row'.keyState = "unverified" /\ row'.status = "host_registered"
          /\ row'.pending = None
      BY <1>3, <2>2 DEF EditCommit
    <3>2. Settled(p, "forget", w[p].h, w[p].x)
      BY <1>t, <1>3, <2>2, GotoMoves DEF EditCommit, Pc
    <3>3. RequestInOrder(p)'
      BY <3>1, <3>2 DEF RequestInOrder, Settled, Confirming
    <3>4. CandidateOfRow' /\ Trustworthy' /\ RunInOrder'
      BY <1>a, <2>1, <3>1 DEF CandidateOfRow, Trustworthy, RunInOrder, Connected
    <3> QED
      BY <1>a, <2>1, <3>2, <3>3, <3>4 DEF InOrder
  <2>3. CASE ~Changed(p)
    <3>1. NewTarget(p) = TargetOf(row)
      BY <2>1, <2>3 DEF Changed
    <3>2. NewTarget(p).addr = row.addr /\ NewTarget(p).cred = row.cred
      BY <3>1 DEF TargetOf
    <3>3. SameButStatus /\ row'.status = row.status /\ tested' = tested
      BY <1>t, <1>3, <2>3, <3>1, <3>2 DEF EditCommit, SameButStatus, Row
    <3>4. Settled(p, "idle", None, None)
      BY <1>t, <1>3, <2>3, DoneMoves DEF EditCommit
    <3>5. CandidateOfRow' /\ Trustworthy' /\ RunInOrder'
      BY <1>a, <2>1, <3>3
         DEF InOrder, CandidateOfRow, Trustworthy, RunInOrder, SameButStatus, TargetOf
    <3> QED
      BY <1>a, <2>1, <3>4, <3>5 DEF InOrder
  <2> QED
    BY <2>2, <2>3
<1>4. CASE EditForget(p)
  <2>1. row.keyState = "unverified" /\ row.status = "host_registered" /\ UNCHANGED <<row, run>>
    BY <1>4, <1>o DEF EditForget, RequestInOrder
  <2>2. Settled(p, "idle", None, None)
    BY <1>t, <1>4, DoneMoves DEF EditForget
  <2>3. CandidateOfRow' /\ Trustworthy' /\ RunInOrder'
    BY <1>a, <2>1 DEF InOrder, CandidateOfRow, Trustworthy, RunInOrder, Connected
  <2> QED
    BY <1>a, <2>1, <2>2, <2>3 DEF InOrder
<1>5. CASE TestFetching(p)
  <2>1. SameButStatus /\ row'.status = "fingerprint_fetching" /\ UNCHANGED <<file, tested, run>>
    BY <1>5, StatusOnly DEF TestFetching, Status
  <2>2. Settled(p, "scan", w[p].h, w[p].x)
    BY <1>t, <1>5, GotoMoves DEF TestFetching, Pc
  <2>3. RequestInOrder(p)'
    BY <1>5, <1>o, <2>1, <2>2
       DEF TestFetching, RequestInOrder, Settled, Copied, TargetOf, SameButStatus, Confirming
  <2>4. CandidateOfRow' /\ Trustworthy' /\ RunInOrder'
    BY <1>a, <2>1
       DEF InOrder, CandidateOfRow, Trustworthy, RunInOrder, SameButStatus, Connected
  <2> QED
    BY <1>a, <2>1, <2>2, <2>3, <2>4 DEF InOrder
<1>6. CASE TestScan(p)
  <2>1. remote[w[p].h.addr] \in Carried
    BY <1>t DEF Row, Carried, TypeOK
  <2>2. \/ Settled(p, "failed", w[p].h, w[p].x)
        \/ Settled(p, "scanned", w[p].h, remote[w[p].h.addr])
    BY <1>t, <1>6, <2>1, GotoMoves, CarryMoves DEF TestScan, Pc
  <2>3. RequestInOrder(p)'
    BY <1>6, <1>o, <2>2
       DEF TestScan, RequestInOrder, Settled, Copied, TargetOf, Confirming
  <2> QED
    BY <1>0, <1>6, <2>2, <2>3, QuietStep DEF TestScan
<1>7. CASE TestCandidate(p)
  <2>1. w[p].h.addr = row.addr
    BY <1>7, <1>o DEF TestCandidate, RequestInOrder, Copied, TargetOf
  <2>2. /\ row'.pending.addr = row'.addr /\ row'.keyState \in {"changed", "unverified"}
        /\ row'.status \in {"host_key_changed", "host_key_unverified"}
    BY <1>t, <1>7, <2>1 DEF TestCandidate, Row
  <2>3. Settled(p, "idle", None, None) /\ UNCHANGED run
    BY <1>t, <1>7, DoneMoves DEF TestCandidate
  <2>4. CandidateOfRow' /\ Trustworthy' /\ RunInOrder'
    BY <1>a, <2>2, <2>3 DEF CandidateOfRow, Trustworthy, RunInOrder, Connected
  <2> QED
    BY <1>a, <2>3, <2>4 DEF InOrder
<1>8. CASE TestChecking(p)
  <2>1. SameButStatus /\ row'.status = "connection_checking" /\ UNCHANGED <<file, tested, run>>
    BY <1>8, StatusOnly DEF TestChecking, Status
  <2>2. Settled(p, "probe", w[p].h, w[p].x)
    BY <1>t, <1>8, GotoMoves DEF TestChecking, Pc
  <2>3. Copied(w[p].h) /\ w[p].h.keyState = "verified"
    BY <1>8, <1>o DEF TestChecking, SameVerifiedKey, RequestInOrder
  <2>4. RequestInOrder(p)'
    BY <2>1, <2>2, <2>3
       DEF RequestInOrder, Settled, Copied, TargetOf, SameButStatus, Confirming
  <2>5. CandidateOfRow' /\ Trustworthy' /\ RunInOrder'
    BY <1>a, <2>1
       DEF InOrder, CandidateOfRow, Trustworthy, RunInOrder, SameButStatus, Connected
  <2> QED
    BY <1>a, <2>1, <2>2, <2>4, <2>5 DEF InOrder
<1>9. CASE TestProbe(p)
  <2>1. Copied(w[p].h) /\ row.keyState = "verified" /\ UNCHANGED <<row, file, tmp, run>>
    BY <1>9, <1>o DEF TestProbe, RequestInOrder
  <2>2. \/ Settled(p, "failed", w[p].h, w[p].x) /\ tested' = tested
        \/ /\ Settled(p, "ready", w[p].h, w[p].x)
           /\ tested' = tested \cup {TargetOf(w[p].h)}
    BY <1>t, <1>9, GotoMoves DEF TestProbe, LoginStep, Pc
  <2>3. RequestInOrder(p)'
    BY <2>1, <2>2 DEF RequestInOrder, Settled, Copied, TargetOf, Confirming
  <2>4. tested \subseteq tested'
    BY <2>2
  <2> QED
    BY <1>0, <2>1, <2>2, <2>3, <2>4, QuietStep
<1>10. CASE TestResult(p)
  <2>1. SameButStatus /\ row'.status = (IF w[p].pc = "ready" THEN "connection_ready" ELSE "failed")
    BY <1>10, StatusOnly DEF TestResult, Status, Connected
  <2>2. w[p].pc = "ready" => row.keyState = "verified" /\ TargetOf(row) \in tested
    BY <1>o DEF RequestInOrder
  <2>3. Settled(p, "idle", None, None) /\ UNCHANGED <<file, tested, run>>
    BY <1>t, <1>10, DoneMoves DEF TestResult
  <2>4. CandidateOfRow' /\ RunInOrder'
    BY <1>a, <2>1, <2>3 DEF InOrder, CandidateOfRow, RunInOrder, SameButStatus
  <2>5. Trustworthy'
    BY <2>1, <2>2, <2>3 DEF InOrder, Trustworthy, SameButStatus, TargetOf, Connected
  <2> QED
    BY <1>a, <2>3, <2>4, <2>5 DEF InOrder
<1>11. CASE ConfirmWriteTmp(p) \/ ConfirmLook(p)
  <2>1. \/ w[p].pc = "write_tmp" /\ Settled(p, "look", w[p].h, w[p].x) /\ tmp' = w[p].h.pending
        \/ /\ w[p].pc = "look" /\ tmp' = tmp
           /\ \E pc \in {"remove", "rename"} : Settled(p, pc, w[p].h, w[p].x)
    BY <1>t, <1>11, GotoMoves DEF ConfirmWriteTmp, ConfirmLook, Pc, Confirming
  <2>2. UNCHANGED <<row, file, run, tested>>
    BY <1>11 DEF ConfirmWriteTmp, ConfirmLook
  <2>3. RequestInOrder(p)'
    BY <1>o, <2>1, <2>2 DEF RequestInOrder, Settled, Copied, TargetOf, Confirming
  <2> QED
    BY <1>0, <2>1, <2>2, <2>3, QuietStep
<1>12. CASE ConfirmRemove(p) \/ ConfirmRename(p) \/ ConfirmVerify(p)
  <2>1. /\ Copied(w[p].h) /\ w[p].h.pending # None /\ w[p].h.pending.key = w[p].x
        /\ row.keyState # "verified" /\ row.status \notin Connected
        /\ row.pending.addr = row.addr
    BY <1>12, <1>o DEF ConfirmRemove, ConfirmRename, ConfirmVerify, RequestInOrder,
                       Confirming, Copied, InOrder, CandidateOfRow, Trustworthy
  <2>2. CASE ConfirmRemove(p)
    <3>1. \/ Settled(p, "idle", None, None)
          \/ Settled(p, "rename", w[p].h, w[p].x)
      BY <1>t, <2>2, GotoMoves, DoneMoves DEF ConfirmRemove, Pc, Confirming
    <3>2. UNCHANGED <<row, tmp, run>>
      BY <2>2 DEF ConfirmRemove
    <3>3. RequestInOrder(p)'
      BY <1>o, <2>1, <2>2, <3>1, <3>2
         DEF ConfirmRemove, RequestInOrder, Settled, Copied, TargetOf, Confirming
    <3>4. CandidateOfRow' /\ Trustworthy' /\ RunInOrder'
      BY <1>a, <2>1, <3>2 DEF InOrder, CandidateOfRow, Trustworthy, RunInOrder
    <3> QED
      BY <1>a, <3>1, <3>2, <3>3, <3>4 DEF InOrder
  <2>3. CASE ConfirmRename(p)
    <3>1. tmp = w[p].h.pending
      BY <1>o, <2>3 DEF ConfirmRename, RequestInOrder
    <3>2. /\ Settled(p, "verify", w[p].h, w[p].x) /\ file' = w[p].h.pending
          /\ UNCHANGED <<row, run>>
      BY <1>t, <2>1, <2>3, <3>1, GotoMoves DEF ConfirmRename, Pc, Confirming
    <3>3. RequestInOrder(p)'
      BY <2>1, <3>2 DEF RequestInOrder, Settled, Copied, TargetOf, Confirming
    <3>4. CandidateOfRow' /\ Trustworthy' /\ RunInOrder'
      BY <1>a, <2>1, <3>2 DEF InOrder, CandidateOfRow, Trustworthy, RunInOrder
    <3> QED
      BY <1>a, <3>2, <3>3, <3>4 DEF InOrder
  <2>4. CASE ConfirmVerify(p)
    <3>1. /\ row'.fp = w[p].x /\ row'.pending = None /\ row'.status = "host_key_verified"
          /\ row'.addr = row.addr /\ UNCHANGED <<file, run>>
      BY <1>t, <2>4 DEF ConfirmVerify, Row
    <3>2. file = row.pending /\ row.pending \in Line /\ row.pending.key = w[p].x
      BY <1>o, <1>t, <2>1, <2>4 DEF ConfirmVerify, RequestInOrder, Copied, Row
    <3>3. file = [addr |-> row.addr, key |-> w[p].x]
      BY <2>1, <3>2 DEF Line
    <3>4. Settled(p, "idle", None, None)
      BY <1>t, <2>4, DoneMoves DEF ConfirmVerify
    <3>5. CandidateOfRow' /\ Trustworthy' /\ RunInOrder'
      BY <1>a, <3>1, <3>3 DEF CandidateOfRow, Trustworthy, RunInOrder, Connected
    <3> QED
      BY <1>a, <3>1, <3>4, <3>5 DEF InOrder
  <2> QED
    BY <1>12, <2>2, <2>3, <2>4
<1>13. CASE DiscoverAdmit(p)
  <2>1. row.status \in Connected
    BY <1>13, <1>o DEF DiscoverAdmit, RequestInOrder
  <2>2. /\ SameButStatus /\ row'.status = "discovery_running"
        /\ UNCHANGED <<file, tested>>
    BY <1>13, <1>a, StatusOnly DEF DiscoverAdmit, Status, Connected
  <2>3. Settled(p, "idle", None, None)
    BY <1>t, <1>13, DoneMoves DEF DiscoverAdmit
  <2>4. Trustworthy' /\ CandidateOfRow' /\ RunInOrder'
    BY <2>1, <2>2
       DEF InOrder, Trustworthy, CandidateOfRow, RunInOrder, SameButStatus, TargetOf
  <2> QED
    BY <1>a, <2>3, <2>4 DEF InOrder
<1>14. CASE MonitorSession(p) \/ MonitorClose(p)
  <2>1. \/ Settled(p, "idle", None, None)
        \/ Settled(p, "close", w[p].h, w[p].x) /\ w[p].pc = "observe"
    BY <1>t, <1>14, GotoMoves, DoneMoves DEF MonitorSession, MonitorClose, LoginStep, Pc
  <2>2. UNCHANGED <<row, file, tmp, run>> /\ tested \subseteq tested'
    BY <1>14 DEF MonitorSession, MonitorClose, LoginStep
  <2>3. RequestInOrder(p)' \/ Settled(p, "idle", None, None)
    BY <1>o, <2>1, <2>2 DEF RequestInOrder, Settled, Copied, TargetOf, Confirming
  <2> QED
    BY <1>0, <2>1, <2>2, <2>3, QuietStep
<1> QED
  BY <1>1, <1>2, <1>3, <1>4, <1>5, <1>6, <1>7, <1>8, <1>9, <1>10, <1>11, <1>12, <1>13, <1>14
     DEF Step

LEMMA SerialNext ==
  ASSUME Typed, Serial, [Next]_vars
  PROVE  Serial'
<1>1. ASSUME NEW p \in Worker, Drop(p) PROVE Serial'
  <2>1. UNCHANGED <<row, file, tmp, run, tested, overlapped>> /\ w[p].pc # "idle"
    BY <1>1 DEF Drop
  <2>2. Settled(p, "idle", None, None)
    BY <1>1, DoneMoves DEF Drop, Typed
  <2> QED
    BY <2>1, <2>2, QuietStep DEF Serial
<1>2. CASE RunStep \/ Restart
  <2>1. overlapped' = overlapped
    BY <1>2 DEF RunStep, RunBegin, RunSession, RunEnd, Restart
  <2> SUFFICES ASSUME InOrder PROVE InOrder'
    BY <2>1 DEF Serial
  <2>2. /\ UNCHANGED file /\ tested \subseteq tested'
        /\ \/ w' = w /\ run.pc # "none"
           \/ \A p \in Worker : w'[p].pc = "idle"
    BY <1>2 DEF RunStep, RunBegin, RunSession, RunEnd, Restart, Idle
  <2>3. \A p \in Worker : w'[p].pc = "idle"
    BY <2>2 DEF InOrder, Alone
  <2>4. Alone' /\ \A p \in Worker : RequestInOrder(p)'
    BY <2>3 DEF Alone, RequestInOrder, Confirming
  <2>5. /\ SameButStatus
        /\ row'.status = row.status \/ run.pc # "none"
        /\ run'.pc # "none" => row'.status = row.status /\ run.pc # "none"
    BY <1>2, StatusOnly
       DEF RunStep, RunBegin, RunSession, RunEnd, Restart, NoRun, Status, Connected,
           SameButStatus, SetStatus
  <2>6. RunInOrder' /\ CandidateOfRow'
    BY <2>5 DEF InOrder, RunInOrder, CandidateOfRow, SameButStatus
  <2>7. Trustworthy'
    BY <2>2, <2>5 DEF InOrder, RunInOrder, Trustworthy, SameButStatus, TargetOf, Connected
  <2> QED
    BY <2>4, <2>6, <2>7 DEF InOrder
<1>3. CASE UNCHANGED vars \/ \E a \in Addr, k \in Key : Rotate(a, k)
  <2>1. UNCHANGED <<row, file, tmp, w, run, tested, overlapped>>
    BY <1>3 DEF vars, Rotate
  <2> QED
    BY <2>1 DEF Serial, InOrder, Alone, CandidateOfRow, RequestInOrder, RunInOrder,
                Trustworthy, Copied, TargetOf
<1> QED
  BY <1>1, <1>2, <1>3, SerialRequest, SerialStep DEF Next

-----------------------------------------------------------------------------
(* The theorems                                                              *)

LEMMA InitIInv == ASSUME Init PROVE IInv
<1> USE ConnectionAssumption DEF Init
<1>1. row \in Row
  BY ResetTyped DEF KeyState, Status
<1>2. Typed
  BY <1>1 DEF Typed, TypeOK, RequestsTyped, RunTyped, WellTyped, Idle, NoRun, Handler, Pc,
              RunPc, Carried, Creating, Confirming
<1>3. Trusting
  BY DEF Trusting, ConfirmationsAreNamed, Named, TrustIsConfirmed, Idle, Confirming
<1>4. Accounted
  BY DEF Accounted, CredentialsListed, CreationsAreFresh, SecretsStay, SecretsAccounted,
         Creating, Idle
<1>5. InOrder
  BY DEF InOrder, Alone, CandidateOfRow, RequestInOrder, RunInOrder, Trustworthy, Connected,
         Idle, NoRun, Confirming
<1> QED
  BY <1>2, <1>3, <1>4, <1>5 DEF IInv, Typed, Trusting, Accounted, RunningHasRun, Serial

LEMMA NextIInv == ASSUME IInv, [Next]_vars PROVE IInv'
<1>1. Typed /\ Trusting /\ RunningHasRun /\ Accounted /\ Serial
  BY DEF IInv, Typed, Trusting, Accounted
<1>2. (Typed /\ Trusting /\ RunningHasRun /\ Accounted /\ Serial)'
  BY <1>1, NextTyped, TrustNext, RunningNext, SecretsNext, SerialNext
<1> QED
  BY <1>2 DEF IInv, Typed, Trusting, Accounted

\* The invariant that all below rests on is kept by every step.
THEOREM HostInvariant == Spec => []IInv
<1> QED
  BY InitIInv, NextIInv, PTL DEF Spec

\* However requests interleave, the controlled file and the row only ever name
\* a key the owner has confirmed.
THEOREM TrustInvariant == Spec => []TrustIsConfirmed
<1>1. IInv => TrustIsConfirmed
  BY DEF IInv
<1> QED
  BY <1>1, HostInvariant, PTL

\* A row that shows a running discovery has an active run, however requests
\* interleave.
THEOREM RunningInvariant == Spec => []RunningHasRun
<1>1. IInv => RunningHasRun
  BY DEF IInv
<1> QED
  BY <1>1, HostInvariant, PTL

\* Secret files and their descriptors agree but for creations cut short, as
\* long as no host is deleted.
THEOREM SecretsInvariant == Spec => []SecretsAccounted
<1>1. IInv => SecretsAccounted
  BY DEF IInv
<1> QED
  BY <1>1, HostInvariant, PTL

\* As long as its requests do not overlap, a host shown as verified or connected
\* is so at its present address with its present credential.
THEOREM SerialInvariant == Spec => []SerialIsTrustworthy
<1>1. IInv => SerialIsTrustworthy
  BY DEF IInv, Serial, InOrder, SerialIsTrustworthy
<1> QED
  BY <1>1, HostInvariant, PTL
=============================================================================
