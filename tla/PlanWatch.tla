------------------------------ MODULE PlanWatch ------------------------------
(***************************************************************************)
(* A browser's copy of a plan against the plan itself: what the schedule   *)
(* shows (usePlanning), the writes it sends (edits, staged batches, undo), *)
(* its reloads, and the banner "updated by another user"                   *)
(* (usePlanVersionWatch), which rests on events that a process emits after *)
(* its COMMIT and never repeats.                                           *)
(*                                                                         *)
(* The plan is its version, and a write is decided in one step: PlanWrites *)
(* has the details.  One client is modelled; all others are the writes of  *)
(* OtherWrite and WorkWrite, for clients share nothing but the version and *)
(* the events.  Requests of the client overlap, and answers and events     *)
(* overtake each other.  Left out: leaving the page, a denied read, and    *)
(* the key that an import of a table keeps across other writes.            *)
(***************************************************************************)
EXTENDS Integers, FiniteSets

CONSTANTS
    Gets,         \* bound: read-model requests the client has in flight, by id
    NoGet,
    EditKeys,     \* bound: where an edit keeps its key, see Edit
    MaxVersion    \* bound on the plan versions

\* apply keeps one key for a retry, applyBatch another.
Keys == {"apply", "batch"}

ASSUME GetsAssumption == Gets # {} /\ NoGet \notin Gets
ASSUME KeysAssumption == EditKeys \subseteq Keys
ASSUME VersionsAssumption == MaxVersion \in Nat \ {0}

VARIABLES
    version,      \* plan_versions.version
    unannounced,  \* versions whose handler has committed and not emitted yet
    shown,        \* readModel.planVersion, 0 before the first answer
    banner,       \* remotePlanVersion, 0 for null
    status,       \* of usePlanning
    get,          \* the client's read-model requests
    op,           \* its write in progress (operationRef) and the answer to it
    pending,      \* applyRequestRef and applyBatchRequestRef, and what the
                  \* server knows of their keys
    last,         \* lastCommitRef.afterVersion, 0 unless it can be undone
    base,         \* version of batchBaseRef, 0 when nothing is staged
    inbox,        \* versions sent down its EventSource and not delivered yet
    missed,       \* (not in the code) the event of the newest version did not get
                  \* through, or did before the client fell back behind it
    raced         \* (not in the code) requests of its own are under way that
                  \* may undo one another: see Load and Begin

server == <<version, unannounced>>
view == <<shown, banner, missed>>
writes == <<op, pending>>
refs == <<last, base>>
vars == <<server, view, status, get, writes, refs, inbox, raced>>

Versions == 0 .. MaxVersion

GetRequests == [stage: {"none", "sent", "read"}, version: Versions]

NoRequest == [stage |-> "none", version |-> 0]

NewRequest == [stage |-> "sent", version |-> 0]

Stages == {"idle", "sent", "committed", "answered", "reloading"}

Ops ==
    [stage: Stages, kind: {"edit", "staged", "undo"}, key: Keys, cv: Versions,
     outcome: {"none", "ok", "conflict", "failed", "cancelled"}, get: Gets \cup {NoGet}]

Idle ==
    [stage |-> "idle", kind |-> "edit", key |-> "apply", cv |-> 0, outcome |-> "none",
     get |-> NoGet]

\* The key of a write is kept, until it is answered, with the version it was
\* sent for; version is that of its commit.  A key that the server has not
\* stored is as good as a new one, and is not kept here.
Pending == [cv: Versions, version: Versions]

NoPending == [cv |-> 0, version |-> 0]

Init ==
    /\ version = 1
    /\ unannounced = {}
    /\ shown = 0
    /\ banner = 0
    /\ status = "loading"
    /\ \E g \in Gets :    \* the effect that loads on mount
           get = [h \in Gets |-> IF h = g THEN NewRequest ELSE NoRequest]
    /\ op = Idle
    /\ pending = [k \in Keys |-> NoPending]
    /\ last = 0
    /\ base = 0
    /\ inbox = {}
    /\ missed = FALSE
    /\ raced = FALSE

-----------------------------------------------------------------------------
(* What the client shows.                                                  *)

CaughtUp_Late(v) == v > banner    \* mutated: only a version beyond the banner's drops it

\* The effect of the watch that drops the banner.
CaughtUp(v) == v >= banner

\* setReadModel, and the effects of the render that follows.
Show(v) ==
    /\ shown' = v
    /\ banner' = IF CaughtUp(v) THEN 0 ELSE banner
    /\ missed' = (v < version /\ (missed \/ shown = version))

InFlight == {g \in Gets : get[g].stage # "none"}

\* The write in progress has an outcome that the surface has yet to show.
Writing == op.stage \notin {"idle", "reloading"}

\* load() sends a request; the surface shows its loading state meanwhile.
\* Nothing keeps it apart from another load, nor from a write in progress,
\* which only a banner tells to be late.
Load(g) ==
    /\ g \notin InFlight
    /\ get' = [get EXCEPT ![g] = NewRequest]
    /\ status' = "loading"
    /\ raced' = (raced \/ InFlight # {} \/ (Writing' /\ banner = 0))

\* The API reads the version ...
ReadVersion(g) ==
    /\ get[g].stage = "sent"
    /\ get' = [get EXCEPT ![g] = [stage |-> "read", version |-> version]]
    /\ UNCHANGED <<server, view, status, writes, refs, inbox, raced>>

\* A write that waits for this reload is over: applyStaged and undo drop what
\* they were about, and reload once more.
Ends(g, kind) == op.get = g /\ op.kind = kind

ReloadsAgain(g) == Ends(g, "staged") \/ Ends(g, "undo")

\* ... and its answer replaces what is shown, whichever request it answers.
Loaded(g) ==
    /\ get[g].stage # "none"
    /\ get' = [get EXCEPT ![g] = IF ReloadsAgain(g) THEN NewRequest ELSE NoRequest]
    /\ op' = IF op.get = g THEN Idle ELSE op
    /\ last' = IF Ends(g, "undo") THEN 0 ELSE last
    /\ base' = IF Ends(g, "staged") THEN 0 ELSE base
    /\ \E answered \in {"ready", "error"} :    \* error: it failed, anywhere
           /\ status' = IF ReloadsAgain(g) THEN "loading" ELSE answered
           /\ IF answered = "ready"
              THEN get[g].stage = "read" /\ Show(get[g].version)
              ELSE UNCHANGED view
    /\ raced' = (raced /\ (InFlight # {g} \/ op'.stage # "idle"))
    /\ UNCHANGED <<server, pending, inbox>>

\* The banner's button, and the retry of a surface that could not load.
Reload ==
    /\ status = "error" \/ (status = "ready" /\ banner # 0)
    /\ UNCHANGED <<server, view, writes, refs, inbox>>
    /\ \E g \in Gets : Load(g)

\* Undo of a commit that is not the one shown: it is forgotten, and the plan
\* is loaded.  The shortcut does this during a write as well.
UndoStale ==
    /\ status = "ready"
    /\ last # 0
    /\ shown # last
    /\ last' = 0
    /\ UNCHANGED <<server, view, writes, base, inbox>>
    /\ \E g \in Gets : Load(g)

-----------------------------------------------------------------------------
(* Staging.                                                                *)

\* A command needs a read model and no more: a bar that is held may be dropped
\* after the surface has given way to its loading state, for the listeners are
\* the window's.
CanCommand == shown # 0

\* The first command of a batch keeps the read model it was made on, also while
\* an operation is in progress.
Stage ==
    /\ base = 0
    /\ CanCommand
    /\ base' = shown
    /\ UNCHANGED <<server, view, status, get, writes, last, inbox, raced>>

\* Discarding the batch puts that read model back, and reloads.
Discard ==
    /\ base # 0
    /\ status = "ready"
    /\ op.stage = "idle"
    /\ Show(base)
    /\ base' = 0
    /\ UNCHANGED <<server, writes, last, inbox>>
    /\ \E g \in Gets : Load(g)

-----------------------------------------------------------------------------
(* A write of the schedule: mutateCommands, applyStaged or undo.           *)

\* beginOperation: one operation at a time.
Begin(kind, key) ==
    /\ op.stage = "idle"
    /\ op' = [Idle EXCEPT !.stage = "sent", !.kind = kind, !.key = key, !.cv = shown]
    /\ raced' = (raced \/ InFlight # {})
    /\ UNCHANGED <<server, view, status, get, pending, last, base, inbox>>

\* Outside a batch, one command is applied alone and several as a batch.
Edit ==
    /\ base = 0
    /\ CanCommand
    /\ \E key \in EditKeys : Begin("edit", key)

ApplyStaged ==
    /\ base # 0
    /\ status = "ready"
    /\ Begin("staged", "batch")

\* The inverses of the commit that is shown.
Undo ==
    /\ last # 0
    /\ shown = last
    /\ status = "ready"
    /\ Begin("undo", "batch")

Answered(outcome) == op' = [op EXCEPT !.stage = "answered", !.outcome = outcome]

KeptKey_AnyVersion == pending[op.key] # NoPending    \* mutated: the signature leaves the plan version out

\* The command and the version may be those of the key that is kept.
KeptKey == pending[op.key] # NoPending /\ pending[op.key].cv = op.cv

NewVersion == version < MaxVersion /\ version' = version + 1

\* A handler whose transaction has ended well is about to emit version v, the
\* stored one of a replay included.
Committed(v) ==
    /\ op' = [op EXCEPT !.stage = "committed"]
    /\ pending' = [pending EXCEPT ![op.key] = [cv |-> op.cv, version |-> v]]
    /\ unannounced' = unannounced \cup {v}

\* The kept key is given up for a new one, which the server does not store.
GiveUpKey == pending' = [pending EXCEPT ![op.key] = NoPending]

\* The route decides, in its transaction: by the stored answer to the key, or by
\* the version.  (What the preview before the write refuses, the write refuses.)
Decide ==
    /\ op.stage = "sent"
    /\ \/ /\ KeptKey
          /\ Committed(pending[op.key].version)
          /\ UNCHANGED <<version, missed>>
       \/ /\ op.cv = version
          /\ NewVersion
          /\ missed' = FALSE
          /\ Committed(version + 1)
       \/ /\ Answered(IF op.cv = version THEN "failed" ELSE "conflict")
          /\ GiveUpKey
          /\ UNCHANGED <<server, missed>>
    /\ UNCHANGED <<shown, banner, status, get, refs, inbox, raced>>

\* The user does not confirm the preview, or a request is lost before the route
\* decides, with its key or before there was one; or the answer is lost.
Lose ==
    /\ \/ /\ op.stage = "sent"
          /\ \/ Answered("cancelled") /\ UNCHANGED pending
             \/ Answered("failed") /\ (GiveUpKey \/ UNCHANGED pending)
       \/ /\ op.stage = "answered"
          /\ Answered("failed")
          /\ UNCHANGED pending
    /\ UNCHANGED <<server, view, status, get, refs, inbox, raced>>

-----------------------------------------------------------------------------
(* The answer reaches the client.                                          *)

Over ==
    /\ op' = Idle
    /\ raced' = (raced /\ InFlight # {})

\* A commit can be undone if its commands have inverses; that of undo is not.
Succeed ==
    /\ op.outcome = "ok"
    /\ Show(pending[op.key].version)
    /\ Over
    /\ pending' = [pending EXCEPT ![op.key] = NoPending]
    /\ last' \in IF op.kind = "undo" THEN {0} ELSE {0, pending[op.key].version}
    /\ base' = IF op.kind = "staged" THEN 0 ELSE base
    /\ UNCHANGED <<status, get>>

\* apply reloads, and waits for that.
Conflict ==
    /\ op.outcome = "conflict"
    /\ \E g \in Gets :
           /\ op' = [Idle EXCEPT !.stage = "reloading", !.kind = op.kind, !.get = g]
           /\ Load(g)
    /\ UNCHANGED <<view, pending, last, base>>

\* mutateCommands puts back what was shown before.
PutBack ==
    /\ op.outcome \in {"failed", "cancelled"}
    /\ op.kind = "edit"
    /\ Show(op.cv)
    /\ Over
    /\ UNCHANGED <<status, get, pending, last, base>>

\* applyStaged drops the batch and reloads.
DropStaged ==
    /\ op.outcome = "failed"
    /\ op.kind = "staged"
    /\ base' = 0
    /\ op' = Idle
    /\ \E g \in Gets : Load(g)
    /\ UNCHANGED <<view, pending, last>>

\* A cancelled batch stays staged; an undo that was refused may be tried again.
Stay ==
    /\ op.outcome \in IF op.kind = "staged" THEN {"cancelled"} ELSE {"failed", "cancelled"}
    /\ op.kind # "edit"
    /\ Over
    /\ UNCHANGED <<view, status, get, pending, last, base>>

Answer ==
    /\ op.stage = "answered"
    /\ Succeed \/ Conflict \/ PutBack \/ DropStaged \/ Stay
    /\ UNCHANGED <<server, inbox>>

-----------------------------------------------------------------------------
(* Writes of others, and the events.                                       *)

\* A planning route commits a write of another client.
OtherWrite ==
    /\ NewVersion
    /\ unannounced' = unannounced \cup {version + 1}
    /\ missed' = FALSE
    /\ UNCHANGED <<shown, banner, status, get, writes, refs, inbox, raced>>

\* The project-work routes (create, update, transition, archive a task) take a
\* plan version and announce nothing.
WorkWrite ==
    /\ NewVersion
    /\ missed' = TRUE
    /\ UNCHANGED <<unannounced, shown, banner, status, get, writes, refs, inbox, raced>>

MissUnlessShown(vs) == missed' = (missed \/ (version \in vs /\ shown < version))

OwnHandler(v) == op.stage = "committed" /\ pending[op.key].version = v

\* emitPlanVersionFromBody, after the transaction and before the answer: every
\* stream that is open is sent the version, directly or by way of Redis.  The
\* client's may be connecting again at that moment.
Announce(v) ==
    /\ v \in unannounced
    /\ unannounced' = unannounced \ {v}
    /\ IF OwnHandler(v) THEN Answered("ok") ELSE UNCHANGED op
    /\ \/ inbox' = inbox \cup {v} /\ UNCHANGED missed
       \/ MissUnlessShown({v}) /\ UNCHANGED inbox
    /\ UNCHANGED <<version, shown, banner, status, get, pending, refs, raced>>

\* The process dies in between: nobody is told.
Crash(v) ==
    /\ v \in unannounced
    /\ unannounced' = unannounced \ {v}
    /\ IF OwnHandler(v) THEN Answered("failed") ELSE UNCHANGED op
    /\ MissUnlessShown({v})
    /\ UNCHANGED <<version, shown, banner, status, get, pending, refs, inbox, raced>>

\* The connection breaks, or the route ends it after an hour.  EventSource
\* connects again; nothing is repeated.
Break ==
    /\ inbox # {}
    /\ inbox' = {}
    /\ MissUnlessShown(inbox)
    /\ UNCHANGED <<server, shown, banner, status, get, writes, refs, raced>>

Noticed_Latest(v) == shown # 0 /\ v > shown    \* mutated: the last event, not the highest

\* The watch's listener compares with the version that is shown and with the
\* one in the banner.
Noticed(v) == shown # 0 /\ v > shown /\ v > banner

\* Before the first answer there is nothing to compare with, and the event is
\* dropped.  Redis repeats an event to the process that emitted it.
Deliver ==
    \E v \in inbox, repeated \in BOOLEAN :
        /\ inbox' = IF repeated THEN inbox ELSE inbox \ {v}
        /\ banner' = IF Noticed(v) THEN v ELSE banner
        /\ missed' = (missed \/ (shown = 0 /\ v = version))
        /\ UNCHANGED <<server, shown, status, get, writes, refs, raced>>

-----------------------------------------------------------------------------
Next ==
    \/ \E g \in Gets : ReadVersion(g) \/ Loaded(g)
    \/ Reload
    \/ UndoStale
    \/ Stage
    \/ Discard
    \/ Edit
    \/ ApplyStaged
    \/ Undo
    \/ Decide
    \/ Answer
    \/ Lose
    \/ OtherWrite
    \/ WorkWrite
    \/ \E v \in Versions : Announce(v) \/ Crash(v)
    \/ Break
    \/ Deliver

Spec == Init /\ [][Next]_vars

-----------------------------------------------------------------------------
(* Properties.                                                             *)

\* Every variable has its type; and the version that the key of a write stands
\* for, and is answered with, directly follows the one the write was sent for.
TypeOK ==
    /\ version \in Versions \ {0}
    /\ unannounced \subseteq Versions
    /\ shown \in Versions
    /\ banner \in Versions
    /\ status \in {"loading", "ready", "error"}
    /\ get \in [Gets -> GetRequests]
    /\ op \in Ops
    /\ pending \in [Keys -> Pending]
    /\ \A k \in Keys : pending[k].version \in {0, pending[k].cv + 1}
    /\ last \in Versions
    /\ base \in Versions
    /\ inbox \subseteq Versions
    /\ missed \in BOOLEAN
    /\ raced \in BOOLEAN

\* A client that is behind, and to which the event of the newest version was
\* not lost, has the banner with exactly that version, in whatever order
\* answers and events arrived; and no banner names a version that does not
\* exist or that is shown already.
BannerTellsNewest ==
    /\ banner # 0 => shown < banner /\ banner <= version
    /\ shown \in 1 .. version - 1 /\ version \notin unannounced \cup inbox /\ ~ missed
           => banner = version

\* A reload never takes the client back to an older plan, the answers to its
\* own writes meanwhile included: whoever reloads because of a banner has
\* written too late.  It may only do so when two reloads overlap, or a write
\* and a reload that no banner gave rise to.
ReloadsAdvance ==
    [][\A g \in Gets : get[g].stage = "read" /\ get'[g].stage # "read" /\ ~ raced
           => shown' >= shown]_<<shown, get>>
=============================================================================
