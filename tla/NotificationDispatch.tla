------------------------ MODULE NotificationDispatch ------------------------
(***************************************************************************)
(* The job notification.dispatch mails what users have not yet read.  The  *)
(* queue is the table user_notifications itself: a row waits while it is   *)
(* neither read nor marked delivered.  Every statement is a transaction of *)
(* its own, the mail server takes part in none.                            *)
(*                                                                         *)
(* Jobs of consecutive slots may overlap, and a job whose lease has run    *)
(* out is run again beside its first run.  A run that dies, or whose       *)
(* statement throws, is one that ends early; the queue of jobs sees to it  *)
(* that another follows.                                                   *)
(***************************************************************************)
EXTENDS Integers, FiniteSets

CONSTANTS
    MaxNotifications,  \* bound: notifications, numbered as they are created
    Users,
    Runs,              \* runs of the job at a time
    BatchLimits,       \* rows a run takes, which the payload of its job may say
    UserLimit,         \* rows in one mail
    MaxAttempts,       \* failures after which a row is given up
    MaxCrashes,        \* bound: runs cut short
    NoUser

Notifications == 1 .. MaxNotifications

ASSUME DispatchAssumption ==
    /\ MaxNotifications \in Nat /\ MaxCrashes \in Nat
    /\ BatchLimits \subseteq Nat \ {0} /\ UserLimit \in Nat \ {0} /\ MaxAttempts \in Nat \ {0}
    /\ NoUser \notin Users

VARIABLES
    note,       \* user_notifications
    run,        \* per run: what it has read and has still to do
    crashes,    \* runs cut short
    mailed,     \* (not in the code) notifications that were part of a mail
    unwanted,   \* (not in the code) notifications a run found not to be wanted by mail
    torn        \* (not in the code) notifications mailed by a run that then died

vars == <<note, run, crashes, mailed, unwanted, torn>>

\* read stands for archived, too
Notes == [user: Users \cup {NoUser}, read: BOOLEAN, delivered: BOOLEAN,
          attempts: 0 .. MaxAttempts]

RunStages == {"idle", "skipping", "sending", "marking"}

RunStates == [stage: RunStages, skip: SUBSET Notifications,
              fail: SUBSET Notifications, items: SUBSET Notifications, user: Users \cup {NoUser}]

Idle == [stage |-> "idle", skip |-> {}, fail |-> {}, items |-> {}, user |-> NoUser]

Init ==
    /\ note = [n \in Notifications |->
                  [user |-> NoUser, read |-> FALSE, delivered |-> FALSE, attempts |-> 0]]
    /\ run = [r \in Runs |-> Idle]
    /\ crashes = 0
    /\ mailed = {}
    /\ unwanted = {}
    /\ torn = {}

-----------------------------------------------------------------------------
(* The users.                                                              *)

Created(n) == note[n].user # NoUser

Create(n, u) ==
    /\ ~ Created(n)
    /\ \A k \in 1 .. n - 1 : Created(k)
    /\ note' = [note EXCEPT ![n].user = u]
    /\ UNCHANGED <<run, crashes, mailed, unwanted, torn>>

\* markUserNotificationRead, in the application
Read(n) ==
    /\ Created(n)
    /\ ~ note[n].read
    /\ note' = [note EXCEPT ![n].read = TRUE]
    /\ UNCHANGED <<run, crashes, mailed, unwanted, torn>>

-----------------------------------------------------------------------------
(* A run of the job.                                                       *)

Pending(n) == Created(n) /\ ~ note[n].read /\ ~ note[n].delivered

\* The first k of a set of notifications, oldest first
First(k, ns) == {n \in ns : Cardinality({m \in ns : m < n}) < k}

\* listPendingNotificationDeliveries; then the users, their preferences and their
\* access, read one after the other and changing all the while, decide what becomes
\* of each row: skipped for good, failed (the access cannot be resolved), part of
\* its user's mail, or left for the next run because the mail is full.
List(r) ==
    /\ run[r].stage = "idle"
    /\ \E n \in Notifications : Pending(n)
    /\ \E k \in BatchLimits :
       LET batch == First(k, {n \in Notifications : Pending(n)}) IN
       \E skip \in SUBSET batch : \E fail \in SUBSET (batch \ skip) :
           LET rest == batch \ (skip \cup fail)
               mail(u) == First(UserLimit, {n \in rest : note[n].user = u})
           IN run' = [run EXCEPT ![r] =
                         [stage |-> IF skip = {} THEN "sending" ELSE "skipping",
                          skip |-> skip, fail |-> fail,
                          items |-> UNION {mail(u) : u \in Users}, user |-> NoUser]]
    /\ UNCHANGED <<note, crashes, mailed, unwanted, torn>>

\* markUserNotificationsDelivered: WHERE delivered_at IS NULL
Delivered(ns) == [n \in Notifications |-> IF n \in ns THEN [note[n] EXCEPT !.delivered = TRUE]
                                          ELSE note[n]]

MarkSkipped_All(r) ==    \* mutated: whatever is not mailed is marked, failures included
    /\ run[r].stage = "skipping"
    /\ note' = Delivered(run[r].skip \cup run[r].fail)
    /\ unwanted' = unwanted \cup run[r].skip
    /\ run' = [run EXCEPT ![r].stage = "sending", ![r].skip = {}]
    /\ UNCHANGED <<crashes, mailed, torn>>

MarkSkipped(r) ==
    /\ run[r].stage = "skipping"
    /\ note' = Delivered(run[r].skip)
    /\ unwanted' = unwanted \cup run[r].skip
    /\ run' = [run EXCEPT ![r].stage = "sending", ![r].skip = {}]
    /\ UNCHANGED <<crashes, mailed, torn>>

ItemsOf(r, u) == {n \in run[r].items : note[n].user = u}

\* sendNotificationDigest to one recipient; a refusal does not stop the others.
Send_MarkLater(r) ==    \* mutated: the marks are left for the end of the loop
    /\ run[r].stage = "sending"
    /\ \E u \in Users :
           /\ ItemsOf(r, u) # {}
           /\ mailed' = mailed \cup ItemsOf(r, u)
           /\ run' = [run EXCEPT ![r].items = @ \ ItemsOf(r, u), ![r].skip = @ \cup ItemsOf(r, u)]
    /\ UNCHANGED <<note, crashes, unwanted, torn>>

Send(r) ==
    /\ run[r].stage = "sending"
    /\ \E u \in Users :
           /\ ItemsOf(r, u) # {}
           /\ \/ /\ mailed' = mailed \cup ItemsOf(r, u)
                 /\ run' = [run EXCEPT ![r].stage = "marking", ![r].user = u]
              \/ /\ run' = [run EXCEPT ![r].items = @ \ ItemsOf(r, u),
                                       ![r].fail = @ \cup ItemsOf(r, u)]
                 /\ UNCHANGED mailed
    /\ UNCHANGED <<note, crashes, unwanted, torn>>

\* The mark follows the mail at once, before the next recipient.
MarkSent(r) ==
    LET sent == ItemsOf(r, run[r].user) IN
    /\ run[r].stage = "marking"
    /\ note' = Delivered(sent)
    /\ run' = [run EXCEPT ![r].stage = "sending", ![r].user = NoUser, ![r].items = @ \ sent]
    /\ UNCHANGED <<crashes, mailed, unwanted, torn>>

\* recordFailedNotificationDeliveries: one UPDATE that counts the attempt and
\* marks the rows that have used up theirs, WHERE delivered_at IS NULL.
Failed_Late(x) ==    \* mutated: one attempt too many
    [x EXCEPT !.attempts = @ + 1, !.delivered = (x.attempts + 1 > MaxAttempts)]

Failed(x) == [x EXCEPT !.attempts = @ + 1, !.delivered = (x.attempts + 1 >= MaxAttempts)]

RecordFailures_Any(r) ==    \* mutated: rows delivered meanwhile are counted, too
    /\ run[r].stage = "sending"
    /\ run[r].items = {}
    /\ note' = [n \in Notifications |->
                   IF n \in run[r].fail /\ note[n].attempts < MaxAttempts THEN Failed(note[n]) ELSE note[n]]
    /\ run' = [run EXCEPT ![r] = Idle]
    /\ UNCHANGED <<crashes, mailed, unwanted, torn>>

RecordFailures_Uncounted(r) ==    \* mutated: failures are retried without being counted
    /\ run[r].stage = "sending"
    /\ run[r].items = {}
    /\ run' = [run EXCEPT ![r] = Idle]
    /\ UNCHANGED <<note, crashes, mailed, unwanted, torn>>

RecordFailures(r) ==
    /\ run[r].stage = "sending"
    /\ run[r].items = {}
    /\ note' = [n \in Notifications |->
                   IF n \in run[r].fail /\ ~ note[n].delivered THEN Failed(note[n]) ELSE note[n]]
    /\ run' = [run EXCEPT ![r] = Idle]
    /\ UNCHANGED <<crashes, mailed, unwanted, torn>>

\* The process dies or a statement throws: the run ends where it is.
Crash(r) ==
    /\ run[r].stage # "idle"
    /\ crashes < MaxCrashes
    /\ crashes' = crashes + 1
    /\ torn' = IF run[r].stage = "marking" THEN torn \cup ItemsOf(r, run[r].user) ELSE torn
    /\ run' = [run EXCEPT ![r] = Idle]
    /\ UNCHANGED <<note, mailed, unwanted>>

Step(r) == List(r) \/ MarkSkipped(r) \/ Send(r) \/ MarkSent(r) \/ RecordFailures(r)

Next ==
    \/ \E n \in Notifications : Read(n) \/ \E u \in Users : Create(n, u)
    \/ \E r \in Runs : Step(r) \/ Crash(r)

Spec == Init /\ [][Next]_vars

\* The schedule runs the job again and again, and each run gets to its end.
Fairness == \A r \in Runs : WF_vars(Step(r))

FairSpec == Spec /\ Fairness

-----------------------------------------------------------------------------
(* Properties.                                                             *)

\* Every variable has its type; in particular no row is tried more often than
\* maxAttempts, although overlapping runs count failures of the same row.
TypeOK ==
    /\ note \in [Notifications -> Notes]
    /\ run \in [Runs -> RunStates]
    /\ crashes \in 0 .. MaxCrashes
    /\ mailed \subseteq Notifications
    /\ unwanted \subseteq Notifications
    /\ torn \subseteq Notifications

\* A row leaves the queue unread only when it was mailed, when its user did not
\* want the mail, or when it has used up its attempts: none is lost silently.
NothingLost ==
    \A n \in Notifications :
        note[n].delivered => n \in mailed \cup unwanted \/ note[n].attempts = MaxAttempts

\* What was mailed is marked, or its mark is the very next thing its run does:
\* only a run that dies right there mails anything twice on its own account.
MailedIsMarked ==
    \A n \in mailed :
        \/ note[n].delivered
        \/ n \in torn
        \/ \E r \in Runs : run[r].stage = "marking" /\ n \in ItemsOf(r, run[r].user)

\* The mark is final: a run that failed to mail a row which another run has
\* delivered in the meantime neither counts an attempt nor takes the mark back.
MarkIsFinal ==
    [][\A n \in Notifications :
           note[n].delivered => /\ note'[n].delivered
                                /\ note'[n].attempts = note[n].attempts]_note

\* Every notification is read or delivered in the end, or given up: a recipient
\* whose mail is always refused does not keep the others waiting.
QueueDrains == \A n \in Notifications : Pending(n) ~> ~ Pending(n)
=============================================================================
