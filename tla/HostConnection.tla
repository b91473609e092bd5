--------------------------- MODULE HostConnection ---------------------------
(***************************************************************************)
(* The connection of one registered host: its row in table hosts, its       *)
(* controlled known_hosts file, the secret files credentials name, and the  *)
(* requests that read and write them -- new secrets, PATCH of the host,     *)
(* connection tests, host key confirmations, discovery runs, monitoring     *)
(* sessions, and the deletion of another host (m1.rs, ssh.rs, secrets.rs).  *)
(*                                                                          *)
(* No handler holds a transaction or a lock from its load of the row to its *)
(* last write, so every statement and every file operation is a step of its *)
(* own and any two requests interleave.  Receipts that replay a request     *)
(* leave this state alone and are not modelled here.                        *)
(***************************************************************************)
EXTENDS Naturals

CONSTANTS
  Addr,          \* <<address, port>> pairs a host may be registered at
  Cred,          \* credential references, secret://ssh...
  Key,           \* SSH host keys, named by their fingerprint
  Worker,        \* requests that may be in flight at once
  KeyAt,         \* the key each address presents at first
  Home,          \* the address the host was registered with
  Given,         \* the credential it and another host were registered with
  Password,      \* the credentials that are passwords (russh), not key files (OpenSSH)
  MaxRequests,   \* bound: requests served
  MaxRotations,  \* bound: host keys replaced on the remote side
  MaxRestarts,   \* bound: process restarts
  None

ASSUME ConnectionAssumption ==
  /\ KeyAt \in [Addr -> Key] /\ Home \in Addr /\ Given \in Cred
  /\ Password \subseteq Cred
  /\ MaxRequests \in Nat /\ MaxRotations \in Nat /\ MaxRestarts \in Nat
  /\ None \notin Addr \cup Key \cup Cred /\ Addr \cap Cred = {}

\* host_connection_state: what discovery leaves behind counts as connected.
Connected == {"connection_ready", "discovery_running", "discovered"}
Status == Connected \cup {"host_registered", "fingerprint_fetching",
            "host_key_unverified", "host_key_changed", "host_key_verified",
            "connection_checking", "failed"}

Line == [addr : Addr, key : Key]           \* a line of a known_hosts file
Target == [addr : Addr, cred : Cred]
KeyState == {"unverified", "verified", "changed"}
Row == [addr : Addr, cred : Cred, fp : Key \cup {None}, pending : Line \cup {None},
        keyState : KeyState, status : Status]

VARIABLES
  row,         \* the row of table hosts
  file,        \* <host_id>.known_hosts
  secrets,     \* the credentials whose secret file exists
  desc,        \* the credentials table secret_ref_descriptors lists
  other,       \* the credential of another registered host, None once deleted
  tmp,         \* <host_id>.known_hosts.tmp, one name for every confirmation
  w,           \* the requests in flight
  run,         \* the discovery run of the host
  remote,      \* the key each address presents
  confirmed,   \* the fingerprints the owner confirmed
  tested,      \* the targets a login has succeeded at since they were set
  abandoned,   \* secrets whose creation was cut short
  overlapped,  \* some request started while another was still in flight
  bounds       \* how much of each bound is used

vars == <<row, file, tmp, secrets, desc, other, w, run, remote,
          confirmed, tested, abandoned, overlapped, bounds>>
store == <<secrets, desc, other, abandoned>>

Idle == [pc |-> "idle", h |-> None, x |-> None]
NoRun == [pc |-> "none", target |-> None]

Init ==
  /\ row = [addr |-> Home, cred |-> Given, fp |-> None, pending |-> None,
            keyState |-> "unverified", status |-> "host_registered"]
  /\ file = None /\ tmp = None
  /\ secrets = {Given} /\ desc = {Given} /\ other = Given
  /\ w = [p \in Worker |-> Idle]
  /\ run = NoRun
  /\ remote = KeyAt
  /\ confirmed = {} /\ tested = {} /\ abandoned = {} /\ overlapped = FALSE
  /\ bounds = [requests |-> 0, rotations |-> 0, restarts |-> 0]

Carry(p, pc, x) == w' = [w EXCEPT ![p] = [pc |-> pc, h |-> w[p].h, x |-> x]]
Goto(p, pc) == Carry(p, pc, w[p].x)
Done(p) == w' = [w EXCEPT ![p] = Idle]
SetStatus(s) == row' = [row EXCEPT !.status = s]

Busy == run.pc # "none" \/ \E p \in Worker : w[p].pc # "idle"

\* Every request starts by loading the row (load_host) and keeps the copy.
Start(p, pc, x) ==
  /\ w[p].pc = "idle"
  /\ bounds.requests < MaxRequests
  /\ bounds' = [bounds EXCEPT !.requests = @ + 1]
  /\ w' = [w EXCEPT ![p] = [pc |-> pc, h |-> row, x |-> x]]
  /\ overlapped' = (overlapped \/ Busy)

\* An SSH login with strict host key checking against the controlled file: the
\* OpenSSH client looks the address up in it, the russh client for passwords
\* compares the fingerprint of the server with that of the line.
OpenSshAccepts(addr) == file.addr = addr /\ file.key = remote[addr]
RusshAccepts(addr) == file.key = remote[addr]
CanLogin(t) ==
  /\ t.cred \in secrets                       \* resolve_ssh_credential
  /\ file # None
  /\ IF t.cred \in Password THEN RusshAccepts(t.addr) ELSE OpenSshAccepts(t.addr)
TargetOf(r) == [addr |-> r.addr, cred |-> r.cred]
LoginStep(p, ok, failed) ==
  \/ /\ CanLogin(TargetOf(w[p].h))
     /\ Goto(p, ok)
     /\ tested' = tested \cup {TargetOf(w[p].h)}
  \/ Goto(p, failed) /\ UNCHANGED tested       \* refused, unreachable, timed out

-----------------------------------------------------------------------------
(* POST /secret-refs: a file under a fresh name, then its descriptor.        *)

CreateSecret(p, c) ==
  /\ c \notin secrets \cup desc \cup {row.cred, other}
  /\ \A q \in Worker : w[q].x # c
  /\ Start(p, "store", c)
  /\ UNCHANGED <<row, file, tmp, run, remote, confirmed, tested, store>>

SecretStore(p) ==
  /\ w[p].pc = "store"
  /\ secrets' = secrets \cup {w[p].x}
  /\ Goto(p, "describe")
  /\ UNCHANGED <<row, file, tmp, desc, other, run, remote, confirmed, tested,
                 abandoned, overlapped, bounds>>

\* A descriptor that cannot be stored takes the file back with it.
SecretDescribe_NoUndo(p) ==
  /\ w[p].pc = "describe"
  /\ Done(p)
  /\ desc' \in {desc, desc \cup {w[p].x}}
  /\ UNCHANGED <<row, file, tmp, secrets, other, run, remote, confirmed, tested,
                 abandoned, overlapped, bounds>>
SecretDescribe(p) ==
  /\ w[p].pc = "describe"
  /\ \/ desc' = desc \cup {w[p].x} /\ Done(p)
     \/ Goto(p, "undo") /\ UNCHANGED desc
  /\ UNCHANGED <<row, file, tmp, secrets, other, run, remote, confirmed, tested,
                 abandoned, overlapped, bounds>>

SecretUndo(p) ==
  /\ w[p].pc = "undo"
  /\ secrets' = secrets \ {w[p].x}
  /\ Done(p)
  /\ UNCHANGED <<row, file, tmp, desc, other, run, remote, confirmed, tested,
                 abandoned, overlapped, bounds>>

-----------------------------------------------------------------------------
(* DELETE of the other host: the cascade, then the secret its row named.     *)

DeleteOther(p) ==
  /\ other # None
  /\ Start(p, "cascade", other)
  /\ UNCHANGED <<row, file, tmp, run, remote, confirmed, tested, store>>

DeleteCascade(p) ==
  /\ w[p].pc = "cascade"
  /\ IF other = None THEN Done(p) ELSE Goto(p, "remove_secret")
  /\ other' = None
  /\ UNCHANGED <<row, file, tmp, secrets, desc, run, remote, confirmed, tested,
                 abandoned, overlapped, bounds>>

DeleteSecret(p) ==
  /\ w[p].pc = "remove_secret"
  /\ secrets' \in {secrets, secrets \ {w[p].x}}
  /\ Done(p)
  /\ UNCHANGED <<row, file, tmp, desc, other, run, remote, confirmed, tested,
                 abandoned, overlapped, bounds>>

-----------------------------------------------------------------------------
(* PATCH /hosts/{id}: a new address, a stored credential, or only the name.  *)

\* A client only knows the references it was answered with.
Edit(p, x) ==
  /\ x \in Addr \cup (secrets \cap desc) \cup {None}
  /\ Start(p, "edit", x)
  /\ UNCHANGED <<row, file, tmp, run, remote, confirmed, tested, store>>

NewTarget(p) == [addr |-> IF w[p].x \in Addr THEN w[p].x ELSE w[p].h.addr,
                 cred |-> IF w[p].x \in Cred THEN w[p].x ELSE w[p].h.cred]
Changed_Never(p) == FALSE
Changed(p) == TargetOf(w[p].h) # NewTarget(p)

\* All fields are written, the ones the request left out from the loaded copy.
EditCommit(p) ==
  /\ w[p].pc = "edit"
  /\ LET new == NewTarget(p) IN
     /\ row' = IF Changed(p)
               THEN [addr |-> new.addr, cred |-> new.cred, fp |-> None, pending |-> None,
                     keyState |-> "unverified", status |-> "host_registered"]
               ELSE [row EXCEPT !.addr = new.addr, !.cred = new.cred]
     /\ tested' = IF new = TargetOf(row) /\ ~Changed(p) THEN tested ELSE tested \ {new}
  /\ IF Changed(p) THEN Goto(p, "forget") ELSE Done(p)
  /\ UNCHANGED <<file, tmp, run, remote, confirmed, overlapped, bounds, store>>

EditForget(p) ==
  /\ w[p].pc = "forget"
  /\ file' = None
  /\ Done(p)
  /\ UNCHANGED <<row, tmp, run, remote, confirmed, tested, overlapped, bounds, store>>

-----------------------------------------------------------------------------
(* POST /hosts/{id}/connection-tests                                         *)

Test(p) ==
  /\ Start(p, "fetch", None)
  /\ UNCHANGED <<row, file, tmp, run, remote, confirmed, tested, store>>

TestFetching(p) ==
  /\ w[p].pc = "fetch"
  /\ SetStatus("fingerprint_fetching")
  /\ Goto(p, "scan")
  /\ UNCHANGED <<file, tmp, run, remote, confirmed, tested, overlapped, bounds, store>>

\* scan_host_key asks the address of the loaded copy; it may not answer.
TestScan(p) ==
  /\ w[p].pc = "scan"
  /\ Carry(p, "scanned", remote[w[p].h.addr]) \/ Goto(p, "failed")
  /\ UNCHANGED <<row, file, tmp, run, remote, confirmed, tested, overlapped, bounds, store>>

SameVerifiedKey(p) == w[p].h.keyState = "verified" /\ w[p].h.fp = w[p].x
KeyChanged(p) == w[p].h.fp # None /\ w[p].h.fp # w[p].x

TestCandidate(p) ==
  /\ w[p].pc = "scanned" /\ ~SameVerifiedKey(p)
  /\ row' = [row EXCEPT
       !.pending = [addr |-> w[p].h.addr, key |-> w[p].x],
       !.keyState = IF KeyChanged(p) THEN "changed" ELSE "unverified",
       !.status = IF KeyChanged(p) THEN "host_key_changed" ELSE "host_key_unverified"]
  /\ Done(p)
  /\ UNCHANGED <<file, tmp, run, remote, confirmed, tested, overlapped, bounds, store>>

TestChecking(p) ==
  /\ w[p].pc = "scanned" /\ SameVerifiedKey(p)
  /\ SetStatus("connection_checking")
  /\ Goto(p, "probe")
  /\ UNCHANGED <<file, tmp, run, remote, confirmed, tested, overlapped, bounds, store>>

TestProbe(p) ==
  /\ w[p].pc = "probe"
  /\ LoginStep(p, "ready", "failed")
  /\ UNCHANGED <<row, file, tmp, run, remote, confirmed, overlapped, bounds, store>>

TestResult(p) ==
  /\ w[p].pc \in {"ready", "failed"}
  /\ SetStatus(IF w[p].pc = "ready" THEN "connection_ready" ELSE "failed")
  /\ Done(p)
  /\ UNCHANGED <<file, tmp, run, remote, confirmed, tested, overlapped, bounds, store>>

-----------------------------------------------------------------------------
(* POST /hosts/{id}/host-key-confirmations: the owner names a fingerprint.   *)

\* Anything but the candidate of the loaded copy is refused; the fingerprint
\* that is already verified needs no write.
Confirm(p, k) ==
  /\ row.pending # None /\ row.pending.key = k
  /\ Start(p, "write_tmp", k)
  /\ confirmed' = confirmed \cup {k}
  /\ UNCHANGED <<row, file, tmp, run, remote, tested, store>>

ConfirmWriteTmp_Current(p) ==
  /\ w[p].pc = "write_tmp" /\ row.pending # None
  /\ tmp' = row.pending
  /\ Goto(p, "look")
  /\ UNCHANGED <<row, file, run, remote, confirmed, tested, overlapped, bounds, store>>
ConfirmWriteTmp(p) ==
  /\ w[p].pc = "write_tmp"
  /\ tmp' = w[p].h.pending
  /\ Goto(p, "look")
  /\ UNCHANGED <<row, file, run, remote, confirmed, tested, overlapped, bounds, store>>

\* metadata(path), then remove_file(path) when it was there
ConfirmLook(p) ==
  /\ w[p].pc = "look"
  /\ Goto(p, IF file = None THEN "rename" ELSE "remove")
  /\ UNCHANGED <<row, file, tmp, run, remote, confirmed, tested, overlapped, bounds, store>>

ConfirmRemove(p) ==
  /\ w[p].pc = "remove"
  /\ IF file = None THEN Done(p) ELSE Goto(p, "rename")
  /\ file' = None
  /\ UNCHANGED <<row, tmp, run, remote, confirmed, tested, overlapped, bounds, store>>

ConfirmRename(p) ==
  /\ w[p].pc = "rename"
  /\ IF tmp = None
     THEN Done(p) /\ UNCHANGED <<file, tmp>>
     ELSE Goto(p, "verify") /\ file' = tmp /\ tmp' = None
  /\ UNCHANGED <<row, run, remote, confirmed, tested, overlapped, bounds, store>>

ConfirmVerify(p) ==
  /\ w[p].pc = "verify"
  /\ row' = [row EXCEPT !.fp = w[p].x, !.pending = None,
                        !.keyState = "verified", !.status = "host_key_verified"]
  /\ Done(p)
  /\ UNCHANGED <<file, tmp, run, remote, confirmed, tested, overlapped, bounds, store>>

-----------------------------------------------------------------------------
(* POST /hosts/{id}/discovery-runs and its background worker                 *)

Discover(p) ==
  /\ row.keyState = "verified"
  /\ row.status \in {"connection_ready", "discovered"}
  /\ Start(p, "admit", None)
  /\ UNCHANGED <<row, file, tmp, run, remote, confirmed, tested, store>>

\* One transaction; the unique index refuses a second active run.
DiscoverAdmit(p) ==
  /\ w[p].pc = "admit"
  /\ IF run.pc = "none"
     THEN run' = [run EXCEPT !.pc = "accepted"] /\ SetStatus("discovery_running")
     ELSE UNCHANGED <<row, run>>
  /\ Done(p)
  /\ UNCHANGED <<file, tmp, remote, confirmed, tested, overlapped, bounds, store>>

\* set_run_running, then a fresh load of the row names the target.
RunBegin ==
  /\ run.pc = "accepted"
  /\ run' = [pc |-> "session", target |-> TargetOf(row)]
  /\ UNCHANGED <<row, file, tmp, w, remote, confirmed, tested, overlapped, bounds, store>>

RunSession ==
  /\ run.pc = "session"
  /\ \/ /\ CanLogin(run.target)
        /\ run' = [run EXCEPT !.pc = "succeeded"]
        /\ tested' = tested \cup {run.target}
     \/ \E pc \in {"unreachable", "interrupted"} :
          run' = [run EXCEPT !.pc = pc] /\ UNCHANGED tested
  /\ UNCHANGED <<row, file, tmp, w, remote, confirmed, overlapped, bounds, store>>

\* persist_discovery_success and persist_discovery_failure: run and host in
\* one transaction, the host by its id alone.
RunEnd_RunOnly ==
  /\ run.pc \in {"succeeded", "unreachable", "interrupted"}
  /\ run' = NoRun
  /\ UNCHANGED <<row, file, tmp, w, remote, confirmed, tested, overlapped, bounds, store>>
RunEnd ==
  /\ run.pc \in {"succeeded", "unreachable", "interrupted"}
  /\ SetStatus(CASE run.pc = "succeeded" -> "discovered"
                 [] run.pc = "unreachable" -> "failed"
                 [] run.pc = "interrupted" -> "connection_ready")
  /\ run' = NoRun
  /\ UNCHANGED <<file, tmp, w, remote, confirmed, tested, overlapped, bounds, store>>

-----------------------------------------------------------------------------
(* A monitoring run resolves its target and opens a session.                 *)

Monitor(p) ==
  /\ row.keyState = "verified" /\ row.status \in Connected
  /\ Start(p, "observe", None)
  /\ UNCHANGED <<row, file, tmp, run, remote, confirmed, tested, store>>

MonitorSession(p) ==
  /\ w[p].pc = "observe"
  /\ LoginStep(p, "close", "close")
  /\ UNCHANGED <<row, file, tmp, run, remote, confirmed, overlapped, bounds, store>>

MonitorClose(p) ==
  /\ w[p].pc = "close"
  /\ Done(p)
  /\ UNCHANGED <<row, file, tmp, run, remote, confirmed, tested, overlapped, bounds, store>>

-----------------------------------------------------------------------------
(* The environment                                                           *)

\* A storage error, or the client hangs up and the handler future is dropped.
HalfMade(P) == {w[p].x : p \in {q \in P : w[q].pc \in {"describe", "undo"}}}
Drop(p) ==
  /\ w[p].pc # "idle"
  /\ Done(p)
  /\ abandoned' = abandoned \cup HalfMade({p})
  /\ UNCHANGED <<row, file, tmp, secrets, desc, other, run, remote, confirmed, tested,
                 overlapped, bounds>>

\* recover_interrupted_discoveries runs before the process serves again.
Restart ==
  /\ bounds.restarts < MaxRestarts
  /\ bounds' = [bounds EXCEPT !.restarts = @ + 1]
  /\ w' = [p \in Worker |-> Idle]
  /\ IF run.pc = "none" THEN UNCHANGED row ELSE SetStatus("connection_ready")
  /\ run' = NoRun
  /\ abandoned' = abandoned \cup HalfMade(Worker)
  /\ UNCHANGED <<file, tmp, secrets, desc, other, remote, confirmed, tested, overlapped>>

Rotate(a, k) ==
  /\ bounds.rotations < MaxRotations
  /\ k # remote[a]
  /\ bounds' = [bounds EXCEPT !.rotations = @ + 1]
  /\ remote' = [remote EXCEPT ![a] = k]
  /\ UNCHANGED <<row, file, tmp, w, run, confirmed, tested, overlapped, store>>

Request(p) ==
  \/ \E x \in Addr \cup Cred \cup {None} : Edit(p, x)
  \/ \E c \in Cred : CreateSecret(p, c)
  \/ DeleteOther(p)
  \/ Test(p) \/ Discover(p) \/ Monitor(p)
  \/ \E k \in Key : Confirm(p, k)

Step(p) ==
  \/ SecretStore(p) \/ SecretDescribe(p) \/ SecretUndo(p)
  \/ DeleteCascade(p) \/ DeleteSecret(p)
  \/ EditCommit(p) \/ EditForget(p)
  \/ TestFetching(p) \/ TestScan(p) \/ TestCandidate(p)
  \/ TestChecking(p) \/ TestProbe(p) \/ TestResult(p)
  \/ ConfirmWriteTmp(p) \/ ConfirmLook(p) \/ ConfirmRemove(p)
  \/ ConfirmRename(p) \/ ConfirmVerify(p)
  \/ DiscoverAdmit(p) \/ MonitorSession(p) \/ MonitorClose(p)

RunStep == RunBegin \/ RunSession \/ RunEnd

Next ==
  \/ \E p \in Worker : Request(p) \/ Step(p) \/ Drop(p)
  \/ RunStep \/ Restart
  \/ \E a \in Addr, k \in Key : Rotate(a, k)

Spec == Init /\ [][Next]_vars
-----------------------------------------------------------------------------
(* Correctness                                                               *)

\* Every variable keeps its shape; a copy is only held by a request in flight.
TypeOK ==
  /\ row \in Row
  /\ file \in Line \cup {None} /\ tmp \in Line \cup {None}
  /\ \A p \in Worker : w[p].pc = "idle" \/ w[p].h \in Row
  /\ run.target \in Target \cup {None}
  /\ remote \in [Addr -> Key]
  /\ confirmed \subseteq Key /\ tested \subseteq Target
  /\ secrets \cup desc \cup abandoned \subseteq Cred /\ other \in Cred \cup {None}

\* However edits, tests, confirmations, rotations and restarts interleave, the
\* controlled file only ever trusts a key the owner confirmed, so no login is
\* made to a server whose key the owner has not seen (ssh.rs confirm_host_key,
\* StrictHostKeyChecking).
TrustIsConfirmed ==
  /\ \A l \in {file, tmp} \ {None} : l.key \in confirmed
  /\ row.fp # None => row.fp \in confirmed

\* The status discovery_running is never left behind: while the row shows it
\* there is an active run that will replace it.
RunningHasRun == row.status = "discovery_running" => run.pc # "none"

\* As long as requests for the host do not overlap -- with any rotation,
\* dropped handler and restart in between -- a verified row has the line of
\* its address and fingerprint in the controlled file, and a host shown as
\* connected is verified and has been logged in to at its present address with its present credential.
Trustworthy ==
  /\ row.keyState = "verified" =>
       file = [addr |-> row.addr, key |-> row.fp]
  /\ row.status \in Connected =>
       row.keyState = "verified" /\ TargetOf(row) \in tested
SerialIsTrustworthy == ~overlapped => Trustworthy

\* A secret file is listed by a descriptor unless its creation is going on or
\* was cut short, and as long as no host is deleted every credential that is
\* listed, or that the row names, still has its file (create_secret_ref stores
\* before it describes and takes back what it cannot describe).
SecretsAccounted ==
  /\ secrets \ desc \subseteq abandoned \cup HalfMade(Worker)
  /\ other # None => desc \cup {row.cred} \subseteq secrets
=============================================================================
