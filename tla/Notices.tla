------------------------------ MODULE Notices ------------------------------
(***************************************************************************)
(* The notices of api/reminders.py, composed with the handlers of Booking  *)
(* that write the history they are read from.  due_reminders computes the  *)
(* list of a user at each poll; acknowledge_notice leaves a receipt, and   *)
(* removes the old receipts of everybody while it is there.                *)
(*                                                                         *)
(* The scale of time is Booking's; the two ages of the code are constants  *)
(* of the same scale, in the same order.                                   *)
(***************************************************************************)
EXTENDS Booking

CONSTANTS MaxAge,       \* CHANGE_NOTICE_MAX_AGE_DAYS
          Retention,    \* RECEIPT_RETENTION_DAYS
          MaxSwitches   \* bound: changes of the preference

ASSUME AgesAssumption ==
    MaxAge \in Nat /\ Retention \in Nat /\ MaxAge < Retention /\ MaxRevision > 0

VARIABLES occurred_at,      \* reservation_events.occurred_at
          notice_receipts,  \* notice_receipts
          notifications,    \* user_preferences.booking_change_notifications
          switched,         \* how often it was changed
          acked             \* who ever acknowledged what: no receipt is needed for it

noticeVars == <<notice_receipts, notifications, switched, acked>>
allVars == <<vars, occurred_at, noticeVars>>

Key(e) == <<e.resv, e.revision>>
Keys == Reservations \X (1 .. MaxRevision)

NoticesTypeOK ==
    /\ TypeOK
    /\ occurred_at \in [Keys -> Nat]
    /\ notice_receipts \subseteq [event : Keys, user : Users, at : Nat]
    /\ notifications \in [Users -> BOOLEAN]
    /\ acked \subseteq Keys \X Users

\* After the first-run setup: a room, all accounts, and the hours of one slot.
NoticesInit ==
    /\ now = 0
    /\ system_settings = [work_start |-> LastSlot, work_end |-> LastSlot + 1]
    /\ rooms = [m \in Rooms |-> "active"]
    /\ users = [u \in Users |-> [role |-> IF u = Founder THEN "admin" ELSE "employee",
                                 is_active |-> TRUE]]
    /\ reservations = [r \in Reservations |-> None]
    /\ reservation_slots = {} /\ reservation_events = {}
    /\ handover_requests = [q \in Requests |-> None] /\ expiring = {}
    /\ occurred_at = [k \in Keys |-> 0]
    /\ notice_receipts = {} /\ acked = {}
    /\ notifications = [u \in Users |-> TRUE] /\ switched = 0

-----------------------------------------------------------------------------
(* What a poll answers *)

HasReceipt(e, u) == \E n \in notice_receipts : n.event = Key(e) /\ n.user = u

Recent(e) == occurred_at[Key(e)] >= now - MaxAge

\* A mutant: the notice follows the booking instead of the event.
ToldOf_current(e) == reservations[e.resv].owner

\* Who is told of a change: the owner of the moment before it.
ToldOf(e) == IF e.before = None THEN e.after.owner ELSE e.before.owner

change_notices(u) ==
    {e \in reservation_events :
        /\ notifications[u]
        /\ ToldOf(e) = u /\ e.actor # u /\ e.type \in {"updated", "cancelled"}
        /\ Recent(e) /\ ~HasReceipt(e, u)}

reservation_details_allowed(u, r) ==
    \/ reservations[r].status # "cancelled"
    \/ users[u].role = "admin"
    \/ reservations[r].owner = u

\* The booking a notice shows: today's, or that of its event.
Shown(u, e) ==
    IF reservation_details_allowed(u, e.resv) THEN reservations[e.resv] ELSE e.after

Handovers(r) == {e \in reservation_events : e.resv = r /\ e.type = "handover"}

\* A mutant: every assignment to u counts, not the last handover only.
Latest_any(e) == TRUE

\* occurred_at, then rowid: both in the order of the revisions.
Latest(e) ==
    \A f \in Handovers(e.resv) :
        ~(\/ occurred_at[Key(f)] > occurred_at[Key(e)]
          \/ occurred_at[Key(f)] = occurred_at[Key(e)] /\ f.revision > e.revision)

assignment_notices(u) ==
    {e \in reservation_events :
        /\ e.type = "handover" /\ reservations[e.resv].owner = u /\ e.actor # u
        /\ Recent(e) /\ ~HasReceipt(e, u) /\ Latest(e)
        /\ e.after.owner = u}

due_reminders(u) == change_notices(u) \cup assignment_notices(u)

-----------------------------------------------------------------------------
(* Receipts *)

MayAcknowledge(u, e) ==
    IF e.type = "handover" THEN e.after.owner = u /\ e.actor # u
    ELSE /\ ToldOf(e) = u
         /\ e.type \in {"updated", "cancelled"} /\ e.actor # u
         /\ notifications[u]

\* A mutant: a receipt goes when the event could not be shown any more, less one.
Kept_shorter(receipts) == {n \in receipts : n.at > now - MaxAge}

Kept(receipts) == {n \in receipts : n.at >= now - Retention}

\* A page that still shows an old list may acknowledge what is not due.
acknowledge_notice(u, e) ==
    /\ locked_actor(u) /\ e \in reservation_events
    /\ MayAcknowledge(u, e)
    /\ notice_receipts' =
          Kept({n \in notice_receipts : ~(n.event = Key(e) /\ n.user = u)}
               \cup {[event |-> Key(e), user |-> u, at |-> now]})
    /\ acked' = acked \cup {<<Key(e), u>>}
    /\ UNCHANGED <<vars, occurred_at, notifications, switched>>

update_preferences(u) ==
    /\ locked_actor(u) /\ switched < MaxSwitches
    /\ switched' = switched + 1
    /\ notifications' = [notifications EXCEPT ![u] = ~@]
    /\ UNCHANGED <<vars, occurred_at, notice_receipts, acked>>

\* Every event is stamped by the database.
Stamped ==
    occurred_at' = [k \in Keys |->
        IF \E e \in reservation_events' \ reservation_events : Key(e) = k
        THEN now ELSE occurred_at[k]]

\* The handlers that write events, and what they need; declining, withdrawing
\* and expiring a request writes none.
HistorySteps ==
    \/ Tick
    \/ \E u \in Users : \/ \E r \in Reservations : ReservationStep(u, r)
                        \/ \E q \in Requests : accept_handover(u, q)

NoticesNext ==
    \/ HistorySteps /\ Stamped /\ UNCHANGED noticeVars
    \/ \E u \in Users : \/ update_preferences(u)
                        \/ \E e \in reservation_events : acknowledge_notice(u, e)

NoticesSpec == NoticesInit /\ [][NoticesNext]_allVars

-----------------------------------------------------------------------------
(* Properties *)

\* What a user has acknowledged never comes back, although receipts are removed
\* by whoever acknowledges something later.
AckedStaysGone ==
    \A u \in Users : \A e \in due_reminders(u) : <<Key(e), u>> \notin acked

\* A notice of a change is taken from its reader by nothing but his own receipt,
\* its age or his switch: neither handovers nor further changes nor the
\* receipts of others withdraw it.
NoticeStays ==
    [][\A u \in Users : \A e \in change_notices(u) :
          \/ e \in change_notices(u)'
          \/ <<Key(e), u>> \in acked' \/ ~Recent(e)' \/ ~notifications'[u]]_allVars

\* Who owns a booking by the hand of another is told so, and once: the only
\* assignment in the list is the one that made the reader the owner of today, or
\* there is none because he took it himself, has acknowledged it or it is old.
AssignmentIsTrue ==
    \A u \in Users, r \in Reservations :
        {e \in assignment_notices(u) : e.resv = r} =
        {e \in Handovers(r) :
            /\ reservations[r].owner = u /\ e.after.owner = u /\ e.actor # u
            /\ \A f \in reservation_events : f.resv = r /\ f.revision > e.revision =>
                  f.before.owner = u /\ f.after.owner = u
            /\ Recent(e) /\ <<Key(e), u>> \notin acked}

\* A cancelled booking is shown to a former owner as it was when it was his.
CancelledIsPrivate ==
    \A u \in Users : \A e \in change_notices(u) :
        Shown(u, e).status = "cancelled" /\ users[u].role # "admin" =>
            Shown(u, e).owner = u

\* What a notice says is true of its reader, and his to see.
NoticesAreTrue == AssignmentIsTrue /\ CancelledIsPrivate
=============================================================================
