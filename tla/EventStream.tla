------------------------------ MODULE EventStream ------------------------------
(***************************************************************************)
(* The change events (events.rs), the stream that sends them, and the page *)
(* that reads its snapshots again when it is told of a change              *)
(* (frontend/app.js, the coordinator of frontend/data-source.js).          *)
(*                                                                         *)
(* An event is published with or after the commit it is about, so a        *)
(* snapshot read while n is the newest cursor shows whatever the events up *)
(* to n tell of: the model keeps that n and not what the snapshots say.    *)
(***************************************************************************)
EXTENDS Integers, Sequences

CONSTANTS
  EventRetention,        \* 2000
  EventBatch,            \* 100
  MaxEvents,             \* events up to which others than a catalog handler publish
  MaxDrops,              \* connections of the stream that break or are refused
  MaxMoves               \* changes of the page's route while it follows the stream

ASSUME RetentionAssumption == EventRetention \in Nat \ {0} /\ EventBatch \in Nat \ {0}

VARIABLES
  events,    \* change_events: their kinds in the order of their cursors, of which
             \* the newest EventRetention are kept
  stream,    \* the connection of the page: the server's cursor, and what is sent
  page,      \* the page: the last id it has seen, and its refresh
  passed,    \* history: the cursors that were pruned before a reader was sent them
  bound      \* the counters behind the bounds

streamVars == <<events, stream, page, passed, bound>>

Off == [state |-> "off", cursor |-> 0, batch |-> <<>>]
Unavailable == -1        \* a snapshot that could not be read

StreamInit ==
  /\ events = <<>>
  /\ stream = Off
  /\ page = [last |-> 0, timer |-> FALSE, run |-> "none", moved |-> FALSE, pending |-> FALSE,
             read |-> 0, shown |-> 0]
  /\ passed = {}
  /\ bound = [drops |-> 0, moves |-> 0]

(***************************************************************************)
(* The events.                                                             *)
(***************************************************************************)
(* The page has listeners for these kinds, and for a reset. *)
Listens(kind) ==
  kind \in {"host.connection.changed", "discovery.run.changed", "projection.changed",
            "onboarding.changed", "stream.reset"}

Maximum == Len(events)
Minimum == IF Maximum > EventRetention THEN Maximum - EventRetention + 1 ELSE 1

Sent == {stream.batch[i].id : i \in DOMAIN stream.batch}

(* Nobody will tell the reader of an event that is pruned now: the connection
   has yet to load it, or the page has no id of an event to come back with. *)
Unsent(c) == page.last = 0 \/ (stream.state = "on" /\ c > stream.cursor /\ c \notin Sent)

(* publish_in_transaction inserts the event and prunes the one that is too old. *)
Publish(kind) ==
  LET pruned == Maximum + 1 - EventRetention
  IN /\ events' = Append(events, kind)
     /\ passed' = IF pruned > 0 /\ Unsent(pruned) THEN passed \cup {pruned} ELSE passed

(* Discovery, connection tests, the monitoring scheduler and the requests this
   model does not have publish what they have committed (m1.rs,
   monitoring_scheduler.rs, protect_business_api). *)
Notify ==
  /\ Maximum < MaxEvents
  /\ \E kind \in {"discovery.run.changed", "monitor.run.changed"} : Publish(kind)
  /\ UNCHANGED <<stream, page, bound>>

(***************************************************************************)
(* The stream.                                                             *)
(***************************************************************************)
Expired_Never(requested) == FALSE          \* the stream goes on from any cursor
Expired(requested) == requested > 0 /\ requested < Minimum - 1

(* The browser connects, with the last id it has seen. *)
Connect ==
  /\ stream.state = "off"
  /\ stream' = IF Expired(page.last)
                 THEN [state |-> "on", cursor |-> Maximum,
                       batch |-> <<[id |-> Maximum, kind |-> "stream.reset"]>>]
                 ELSE [state |-> "on", cursor |-> page.last, batch |-> <<>>]
  /\ UNCHANGED <<events, page, passed, bound>>

(* What is on its way is lost with the connection.  The browser comes back by
   itself when a stream ends, and does not when its request is refused. *)
Disconnect ==
  /\ bound.drops < MaxDrops
  /\ \/ stream.state = "on" /\ stream' = Off
     \/ stream.state = "off" /\ stream' = [Off EXCEPT !.state = "refused"]
  /\ bound' = [bound EXCEPT !.drops = @ + 1]
  /\ UNCHANGED <<events, page, passed>>

From == IF stream.cursor + 1 > Minimum THEN stream.cursor + 1 ELSE Minimum

Poll ==
  /\ stream.state = "on" /\ stream.batch = <<>>
  /\ From <= Maximum
  /\ LET count == IF Maximum - From + 1 < EventBatch THEN Maximum - From + 1 ELSE EventBatch
     IN stream' = [stream EXCEPT !.batch =
                     [i \in 1..count |-> [id |-> From + i - 1, kind |-> events[From + i - 1]]]]
  /\ UNCHANGED <<events, page, passed, bound>>

(***************************************************************************)
(* The page.                                                               *)
(***************************************************************************)
Refresh_WhenIdle(kind) ==      \* an event is ignored while the page is loading
  page.timer \/ (Listens(kind) /\ page.run = "none")

(* scheduleEventRefresh: the timer is set, or set again. *)
Refresh(kind) == page.timer \/ Listens(kind)

(* An event reaches the page; its id counts for the browser whatever its kind. *)
Deliver ==
  /\ stream.state = "on" /\ stream.batch # <<>>
  /\ LET event == Head(stream.batch)
     IN /\ stream' = [stream EXCEPT !.cursor = event.id, !.batch = Tail(@)]
        /\ page' = [page EXCEPT !.last = event.id, !.timer = Refresh(event.kind)]
  /\ UNCHANGED <<events, passed, bound>>

(* The timer runs out; while the page is loading it is only set again. *)
Loading == page.run # "none"

Fire ==
  /\ page.timer /\ ~Loading
  /\ page' = [page EXCEPT !.timer = FALSE, !.run = "reading", !.moved = FALSE]
  /\ UNCHANGED <<events, stream, passed, bound>>

(* readM0RouteBundle reads the snapshots beside one another, and each may fail:
   this is the one that the view on show is drawn from. *)
Read ==
  /\ page.run = "reading"
  /\ \E n \in {Maximum, Unavailable} : page' = [page EXCEPT !.run = "read", !.read = n]
  /\ UNCHANGED <<events, stream, passed, bound>>

(* What was read is shown in any case.  A refresh that is not of the newest
   request and the present route returns and leaves the page loading; a request
   that has come meanwhile is next (createRouteRefreshCoordinator). *)
Current == ~page.pending /\ ~page.moved

EndRefresh ==
  /\ page.run = "read"
  /\ page' = [page EXCEPT !.shown = page.read, !.read = 0, !.pending = FALSE,
                          !.run = CASE Current -> "none"
                                    [] page.pending -> "reading"
                                    [] OTHER -> "left",
                          !.moved = @ /\ page.pending]
  /\ UNCHANGED <<events, stream, passed, bound>>

(* The owner enters a global view, which requests a refresh; or goes anywhere
   else, or is taken elsewhere as the project on show is gone: that requests none. *)
Visit ==
  /\ bound.moves < MaxMoves
  /\ \/ /\ page.run \in {"none", "left"}
        /\ page' = [page EXCEPT !.run = "reading", !.moved = FALSE]
     \/ /\ page.run \in {"reading", "read"}
        /\ page' = [page EXCEPT !.pending = TRUE, !.moved = FALSE]
  /\ bound' = [bound EXCEPT !.moves = @ + 1]
  /\ UNCHANGED <<events, stream, passed>>

Move ==
  /\ bound.moves < MaxMoves
  /\ page.run \in {"reading", "read"}
  /\ page' = [page EXCEPT !.moved = ~@]
  /\ bound' = [bound EXCEPT !.moves = @ + 1]
  /\ UNCHANGED <<events, stream, passed>>

StreamNext ==
  \/ Notify \/ Connect \/ Disconnect \/ Poll \/ Deliver
  \/ Fire \/ Read \/ EndRefresh \/ Visit \/ Move

(***************************************************************************)
(* What the page owes its owner.                                           *)
(***************************************************************************)
(* What the page shows was read after the commit of each event it listens to,
   unless it says that it could not be read. *)
UpToDate ==
  \/ page.shown = Unavailable
  \/ \A c \in DOMAIN events \ passed : Listens(events[c]) => c <= page.shown

Settled ==
  /\ stream.state = "on" /\ stream.batch = <<>> /\ stream.cursor = Maximum
  /\ ~page.timer /\ ~Loading

=============================================================================
