-------------------------- MODULE PlanWatch_proofs ---------------------------
(***************************************************************************)
(* Proofs about PlanWatch, for any number of requests in flight and of     *)
(* versions.                                                               *)
(*                                                                         *)
(* BannerTellsNewest is inductive once nothing that is under way is ahead  *)
(* of the plan (IBehind).  ReloadsAdvance rests on what a banner says of a *)
(* write in progress: it is too late already, so that nothing it can still *)
(* be answered with is ahead of what a reload reads then (ILate).          *)
(***************************************************************************)
EXTENDS PlanWatch, TLAPS

\* Whatever is shown, kept, announced, read or answered is a version that exists.
IBehind ==
    /\ shown <= version
    /\ \A v \in unannounced \cup inbox : v <= version
    /\ op.cv <= version
    /\ \A k \in Keys : pending[k].version <= version
    /\ last <= version
    /\ base <= version
    /\ \A g \in Gets : get[g].version <= version

\* A key is kept with the version of its commit ...
IKept == \A k \in Keys : pending[k].version = 0 => pending[k] = NoPending

\* ... and a write that has gone well has one, for the version it was sent for.
IAnswer ==
    op.stage = "committed" \/ (op.stage = "answered" /\ op.outcome = "ok")
        => pending[op.key].version # 0 /\ pending[op.key].cv = op.cv

\* A surface that is ready shows a version, and a client that shows none has not
\* been told of any.
IShown ==
    /\ status = "ready" => shown # 0
    /\ Writing => op.cv # 0
    /\ \A g \in Gets : get[g].stage = "read" => get[g].version # 0
    /\ shown = 0 /\ version > 1 => version \in unannounced \cup inbox \/ missed

Rest == IBehind /\ IKept /\ IAnswer /\ IShown /\ BannerTellsNewest

WInv == TypeOK /\ Rest

-----------------------------------------------------------------------------
(* Types.                                                                  *)

\* A version is a number, and one more is one as long as the bound allows.
LEMMA VersionFacts ==
    /\ Versions \subseteq Nat
    /\ 0 \in Versions /\ 1 \in Versions
    /\ \A v \in Versions : v < MaxVersion => v + 1 \in Versions \ {0}
BY VersionsAssumption DEF Versions

\* The records a step may put in place are well typed.
LEMMA RecordFacts ==
    /\ Idle \in Ops
    /\ NoRequest \in GetRequests /\ NewRequest \in GetRequests
    /\ NoPending \in Pending /\ NoPending.version = 0
BY VersionFacts DEF Idle, Ops, Keys, Stages, NoRequest, NewRequest, GetRequests, NoPending, Pending

\* The client starts with nothing that could be ahead of the plan.
LEMMA InitInv == Init => WInv
<1> SUFFICES ASSUME Init PROVE WInv
    OBVIOUS
<1>1. PICK g \in Gets : get = [h \in Gets |-> IF h = g THEN NewRequest ELSE NoRequest]
    BY DEF Init
<1>2. \A h \in Gets : get[h].stage # "read" /\ get[h].version = 0
    BY <1>1 DEF NewRequest, NoRequest
<1>3. get \in [Gets -> GetRequests]
    BY <1>1, RecordFacts
<1>4. op = Idle /\ pending \in [Keys -> Pending] /\ \A k \in Keys : pending[k] = NoPending
    BY RecordFacts DEF Init
<1>5. TypeOK
    <2>1. \A k \in Keys : pending[k].version = 0
        BY <1>4, RecordFacts
    <2>2. op \in Ops
        BY <1>4, RecordFacts
    <2>3. version \in Versions \ {0} /\ shown \in Versions /\ banner \in Versions
          /\ last \in Versions /\ base \in Versions
        BY VersionFacts DEF Init
    <2>4. pending \in [Keys -> Pending] /\ \A k \in Keys : pending[k].version \in {0, pending[k].cv + 1}
        BY <1>4, <2>1
    <2> QED
        BY <1>3, <2>2, <2>3, <2>4 DEF Init, TypeOK
<1>6. IBehind /\ IKept
    BY <1>2, <1>4, RecordFacts DEF Init, IBehind, IKept, Idle
<1>7. IAnswer /\ IShown /\ BannerTellsNewest
    BY <1>2, <1>4 DEF Init, IAnswer, IShown, BannerTellsNewest, Idle, Writing
<1> QED
    BY <1>5, <1>6, <1>7 DEF WInv, Rest

\* What a read-model answer, or that of a write, leaves on the surface.
LEMMA ShowType ==
    ASSUME TypeOK, NEW v \in Versions, Show(v)
    PROVE  shown' \in Versions /\ banner' \in Versions /\ missed' \in BOOLEAN
BY VersionFacts DEF Show, TypeOK

\* A request that is sent is well typed.
LEMMA LoadType ==
    ASSUME TypeOK, NEW g \in Gets, Load(g)
    PROVE  get' \in [Gets -> GetRequests] /\ status' = "loading"
BY RecordFacts DEF Load, TypeOK

\* The history variable raced is a Boolean throughout.
LEMMA RacedType == TypeOK /\ [Next]_vars => raced' \in BOOLEAN
<1> SUFFICES ASSUME TypeOK, [Next]_vars PROVE raced' \in BOOLEAN
    OBVIOUS
<1>1. ASSUME NEW g \in Gets, Load(g) PROVE raced' \in BOOLEAN
    BY <1>1 DEF Load, TypeOK
<1>2. ASSUME NEW k, NEW key, Begin(k, key) PROVE raced' \in BOOLEAN
    BY <1>2 DEF Begin, TypeOK
<1>3. CASE Answer
    BY <1>1, <1>3 DEF Answer, Succeed, Conflict, PutBack, DropStaged, Stay, Over, TypeOK
<1>4. CASE Reload \/ UndoStale \/ Discard
    BY <1>1, <1>4 DEF Reload, UndoStale, Discard
<1>5. CASE Edit \/ ApplyStaged \/ Undo
    BY <1>2, <1>5 DEF Edit, ApplyStaged, Undo
<1>6. ASSUME NEW g \in Gets, Loaded(g) PROVE raced' \in BOOLEAN
    BY <1>6 DEF Loaded, TypeOK
<1>7. CASE UNCHANGED raced
    BY <1>7 DEF TypeOK
<1> QED
    BY <1>3, <1>4, <1>5, <1>6, <1>7 DEF Next, ReadVersion, Stage, Decide, Lose, OtherWrite, WorkWrite,
       Announce, Crash, Break, Deliver, vars

\* Every step keeps the variables typed.
LEMMA NextType == TypeOK /\ Rest /\ [Next]_vars => TypeOK'
<1> SUFFICES ASSUME TypeOK, Rest, [Next]_vars PROVE TypeOK'
    OBVIOUS
<1>0. raced' \in BOOLEAN
    BY RacedType
<1> USE VersionFacts DEF TypeOK, server, view, writes, refs
<1>a. ASSUME NEW outcome \in {"none", "ok", "conflict", "failed", "cancelled"}, Answered(outcome)
      PROVE  op' \in Ops
    BY <1>a DEF Answered, Ops, Stages
<1>b. ASSUME GiveUpKey
      PROVE  /\ pending' \in [Keys -> Pending]
             /\ \A k \in Keys : pending'[k].version \in {0, pending'[k].cv + 1}
    BY <1>b, RecordFacts DEF GiveUpKey
<1>c. ASSUME NEW k \in {"edit", "staged", "undo"}, NEW key \in Keys, Begin(k, key)
      PROVE  TypeOK'
    <2>1. op' \in Ops
        BY <1>c, RecordFacts DEF Begin, Idle, Ops, Stages
    <2> QED
        BY <1>0, <1>c, <2>1 DEF Begin
<1>1. ASSUME NEW g \in Gets, ReadVersion(g) PROVE TypeOK'
    BY <1>0, <1>1 DEF ReadVersion, GetRequests
<1>2. ASSUME NEW g \in Gets, Loaded(g) PROVE TypeOK'
    <2>1. op' \in Ops /\ get' \in [Gets -> GetRequests] /\ last' \in Versions /\ base' \in Versions
        BY <1>2, RecordFacts DEF Loaded
    <2>2. get[g].version \in Versions
        BY DEF GetRequests
    <2>3. shown' \in Versions /\ banner' \in Versions /\ missed' \in BOOLEAN
        BY <1>2, <2>2, ShowType DEF Loaded
    <2> QED
        BY <1>0, <1>2, <2>1, <2>3 DEF Loaded
<1>3. CASE Reload \/ UndoStale
    BY <1>0, <1>3, LoadType DEF Reload, UndoStale
<1>4. CASE Stage
    BY <1>0, <1>4 DEF Stage
<1>5. CASE Discard
    BY <1>0, <1>5, LoadType, ShowType DEF Discard
<1>6. CASE Edit
    BY <1>6, <1>c, KeysAssumption DEF Edit
<1>7. CASE ApplyStaged \/ Undo
    BY <1>7, <1>c DEF ApplyStaged, Undo, Keys
<1>8. CASE Decide
    <2>1. op.key \in Keys /\ op.cv \in Versions
        BY DEF Ops
    <2>2. ASSUME NEW v \in Versions, v = op.cv + 1, Committed(v)
          PROVE  /\ op' \in Ops /\ unannounced' \subseteq Versions
                 /\ pending' \in [Keys -> Pending]
                 /\ \A k \in Keys : pending'[k].version \in {0, pending'[k].cv + 1}
        <3>1. op' \in Ops
            BY <2>2 DEF Committed, Ops, Stages
        <3>2. [cv |-> op.cv, version |-> v] \in Pending
            BY <2>1 DEF Pending
        <3> QED
            BY <2>2, <3>1, <3>2 DEF Committed
    <2>3. CASE KeptKey /\ Committed(pending[op.key].version) /\ UNCHANGED <<version, missed>>
        <3>1. pending[op.key].version \in Versions /\ pending[op.key].version = op.cv + 1
            BY <2>1, <2>3 DEF KeptKey, Rest, IKept, Pending
        <3> QED
            BY <1>0, <1>8, <2>2, <2>3, <3>1 DEF Decide
    <2>4. CASE op.cv = version /\ NewVersion /\ missed' = FALSE /\ Committed(version + 1)
        <3>1. version + 1 \in Versions \ {0} /\ version' = version + 1
            BY <2>4 DEF NewVersion
        <3> QED
            BY <1>0, <1>8, <2>2, <2>4, <3>1 DEF Decide
    <2>5. CASE /\ Answered(IF op.cv = version THEN "failed" ELSE "conflict")
               /\ GiveUpKey /\ UNCHANGED <<server, missed>>
        BY <1>0, <1>8, <1>a, <1>b, <2>5 DEF Decide
    <2> QED
        BY <1>8, <2>3, <2>4, <2>5 DEF Decide
<1>9. CASE Answer
    <2>1. op.key \in Keys /\ op.cv \in Versions /\ op.kind \in {"edit", "staged", "undo"}
        BY DEF Ops
    <2>2. pending[op.key].version \in Versions
        BY <2>1 DEF Pending
    <2>3. CASE Succeed
        <3>1. /\ pending' \in [Keys -> Pending]
              /\ \A k \in Keys : pending'[k].version \in {0, pending'[k].cv + 1}
            BY <2>3, RecordFacts DEF Succeed
        <3>2. last' \in Versions /\ base' \in Versions /\ op' \in Ops
            BY <2>2, <2>3, RecordFacts DEF Succeed, Over
        <3> QED
            BY <1>0, <1>9, <2>2, <2>3, <3>1, <3>2, ShowType DEF Answer, Succeed
    <2>4. CASE Conflict
        <3>1. PICK g \in Gets : Load(g) /\ op' = [Idle EXCEPT !.stage = "reloading", !.kind = op.kind, !.get = g]
            BY <2>4 DEF Conflict
        <3>2. op' \in Ops
            BY <2>1, <3>1, RecordFacts DEF Idle, Ops, Stages
        <3> QED
            BY <1>0, <1>9, <2>4, <3>1, <3>2, LoadType DEF Answer, Conflict
    <2>5. CASE PutBack
        BY <1>0, <1>9, <2>1, <2>5, RecordFacts, ShowType DEF Answer, PutBack, Over
    <2>6. CASE DropStaged
        BY <1>0, <1>9, <2>6, RecordFacts, LoadType DEF Answer, DropStaged
    <2>7. CASE Stay
        BY <1>0, <1>9, <2>7, RecordFacts DEF Answer, Stay, Over
    <2> QED
        BY <1>9, <2>3, <2>4, <2>5, <2>6, <2>7 DEF Answer
<1>10. CASE Lose
    BY <1>0, <1>10, <1>a, <1>b DEF Lose
<1>11. CASE OtherWrite
    BY <1>0, <1>11 DEF OtherWrite, NewVersion
<1>12. CASE WorkWrite
    BY <1>0, <1>12 DEF WorkWrite, NewVersion
<1>13. ASSUME NEW v \in Versions, Announce(v) \/ Crash(v) PROVE TypeOK'
    <2>1. op' \in Ops
        BY <1>13, <1>a DEF Announce, Crash
    <2> QED
        BY <1>0, <1>13, <2>1 DEF Announce, Crash, MissUnlessShown
<1>14. CASE Break
    BY <1>0, <1>14 DEF Break, MissUnlessShown
<1>15. CASE Deliver
    BY <1>0, <1>15 DEF Deliver
<1>16. CASE UNCHANGED vars
    BY <1>16 DEF vars
<1> QED
    BY <1>1, <1>2, <1>3, <1>4, <1>5, <1>6, <1>7, <1>8, <1>9, <1>10, <1>11, <1>12, <1>13, <1>14, <1>15, <1>16 DEF Next

-----------------------------------------------------------------------------
(* The banner.                                                             *)

\* Showing a version keeps the banner right: what is dropped with the banner is
\* shown, and what a step back uncovers is missed.
LEMMA ShowKeeps ==
    ASSUME TypeOK, Rest, UNCHANGED <<server, inbox>>,
           NEW v \in Nat \ {0}, v <= version, Show(v)
    PROVE  shown' = v /\ BannerTellsNewest'
<1>1. version \in Nat /\ shown \in Nat /\ banner \in Nat
    BY VersionFacts DEF TypeOK
<1>2. /\ shown' = v
      /\ banner' = IF v >= banner THEN 0 ELSE banner
      /\ missed' = (v < version /\ (missed \/ shown = version))
      /\ version' = version /\ unannounced' = unannounced /\ inbox' = inbox
    BY DEF Show, CaughtUp, server
<1>3. banner' # 0 => v < banner' /\ banner' <= version
    BY <1>1, <1>2 DEF Rest, BannerTellsNewest
<1>4. ASSUME v < version, version \notin unannounced \cup inbox, ~ missed'
      PROVE  banner' = version
    <2>1. ~ missed /\ shown # version
        BY <1>2, <1>4
    <2>2. shown \in 1 .. version - 1
        BY <1>1, <1>4, <2>1 DEF Rest, IShown, IBehind
    <2>3. banner = version
        BY <1>4, <2>1, <2>2 DEF Rest, BannerTellsNewest
    <2> QED
        BY <1>1, <1>2, <1>4, <2>3
<1> QED
    BY <1>1, <1>2, <1>3, <1>4 DEF BannerTellsNewest

\* Sending a request tells nothing, and leaves nothing read.
LEMMA LoadKeeps ==
    ASSUME TypeOK, NEW g \in Gets, Load(g)
    PROVE  /\ status' = "loading"
           /\ \A h \in Gets : get'[h].stage = "read" => get[h].stage = "read"
           /\ \A h \in Gets : get'[h].version \in {0, get[h].version}
           /\ \A h \in Gets : get'[h].stage = "read" => get'[h].version = get[h].version
BY DEF Load, NewRequest, TypeOK

\* Every step keeps the rest of WInv: only a write makes a version, every other
\* step passes on what is there, and a banner is left alone only by a view that
\* has not reached it.
LEMMA NextInv == TypeOK /\ Rest /\ [Next]_vars => Rest'
<1> SUFFICES ASSUME TypeOK, Rest, [Next]_vars PROVE Rest'
    OBVIOUS
<1> USE DEF Rest, server, view, writes, refs
<1>0. /\ version \in Nat \ {0} /\ shown \in Nat /\ banner \in Nat /\ last \in Nat /\ base \in Nat
      /\ op.cv \in Nat /\ op.key \in Keys
      /\ \A k \in Keys : /\ pending[k].version \in Nat /\ pending[k].cv \in Nat
                         /\ pending[k].version \in {0, pending[k].cv + 1}
      /\ \A g \in Gets : get[g].version \in Nat
      /\ \A v \in unannounced \cup inbox : v \in Nat
    BY VersionFacts DEF TypeOK, Ops, Pending, GetRequests
<1>a. ASSUME NEW outcome \in {"none", "ok", "conflict", "failed", "cancelled"}, Answered(outcome)
      PROVE  /\ op'.stage = "answered" /\ op'.outcome = outcome
             /\ op'.key = op.key /\ op'.cv = op.cv
    BY <1>a DEF Answered, TypeOK, Ops
<1>b. Idle.cv = 0 /\ Idle.stage = "idle"
    BY DEF Idle
<1>1. ASSUME NEW g \in Gets, ReadVersion(g) PROVE Rest'
    BY <1>0, <1>1 DEF ReadVersion, TypeOK, IBehind, IKept, IAnswer, IShown, BannerTellsNewest, Writing
<1>2. ASSUME NEW g \in Gets, Loaded(g) PROVE Rest'
    <2>1. \A h \in Gets : /\ get'[h].version \in {0, get[h].version}
                          /\ get'[h].stage = "read" => get'[h] = get[h]
        BY <1>2 DEF Loaded, NewRequest, NoRequest, TypeOK
    <2>2. /\ op' \in {op, Idle} /\ last' \in {last, 0} /\ base' \in {base, 0}
          /\ UNCHANGED <<version, unannounced, inbox, pending>>
        BY <1>2 DEF Loaded
    <2>3. op'.cv <= version /\ (Writing' => op'.cv # 0) /\ IAnswer' /\ IKept'
        BY <1>0, <1>b, <2>2 DEF IBehind, IShown, IAnswer, IKept, Writing
    <2>4. shown' <= version' /\ BannerTellsNewest'
          /\ (status' = "ready" => shown' # 0)
          /\ (shown' = 0 /\ version' > 1 => version' \in unannounced' \cup inbox' \/ missed')
        <3>1. CASE Show(get[g].version) /\ get[g].stage = "read"
            <4>1. get[g].version \in Nat \ {0} /\ get[g].version <= version
                BY <1>0, <3>1 DEF IShown, IBehind
            <4>2. shown' = get[g].version /\ BannerTellsNewest'
                BY <2>2, <3>1, <4>1, ShowKeeps
            <4> QED
                BY <2>2, <4>1, <4>2
        <3>2. CASE UNCHANGED view /\ status' # "ready"
            BY <1>0, <2>2, <3>2 DEF IBehind, IShown, BannerTellsNewest
        <3> QED
            BY <1>2, <3>1, <3>2 DEF Loaded
    <2> QED
        BY <1>0, <2>1, <2>2, <2>3, <2>4 DEF IBehind, IShown
<1>3. CASE Reload \/ UndoStale
    <2>1. PICK g \in Gets : Load(g)
        BY <1>3 DEF Reload, UndoStale
    <2>2. last' \in {last, 0} /\ UNCHANGED <<version, unannounced, shown, banner, missed, op, pending, base, inbox>>
        BY <1>3 DEF Reload, UndoStale
    <2> QED
        BY <1>0, <2>1, <2>2, LoadKeeps DEF IBehind, IKept, IAnswer, IShown, BannerTellsNewest, Writing
<1>4. CASE Stage
    BY <1>0, <1>4 DEF Stage, IBehind, IKept, IAnswer, IShown, BannerTellsNewest, Writing
<1>5. CASE Discard
    <2>1. PICK g \in Gets : Load(g)
        BY <1>5 DEF Discard
    <2>2. base' = 0 /\ UNCHANGED <<version, unannounced, op, pending, last, inbox>>
        BY <1>5 DEF Discard
    <2>3. base \in Nat \ {0} /\ base <= version
        BY <1>0, <1>5 DEF Discard, IBehind
    <2>4. shown' = base /\ BannerTellsNewest'
        BY <1>5, <2>3, ShowKeeps DEF Discard
    <2> QED
        BY <1>0, <2>1, <2>2, <2>3, <2>4, LoadKeeps DEF IBehind, IKept, IAnswer, IShown, Writing
<1>6. CASE Edit \/ ApplyStaged \/ Undo
    <2>1. PICK k \in {"edit", "staged", "undo"}, key \in Keys : Begin(k, key)
        BY <1>6, KeysAssumption DEF Edit, ApplyStaged, Undo, Keys
    <2>2. shown # 0
        BY <1>6 DEF Edit, CanCommand, ApplyStaged, Undo, IShown
    <2>3. op'.stage = "sent" /\ op'.cv = shown
        BY <2>1 DEF Begin, Idle
    <2>4. UNCHANGED <<version, unannounced, shown, banner, missed, status, get, pending, last, base, inbox>>
        BY <2>1 DEF Begin
    <2> QED
        BY <1>0, <2>2, <2>3, <2>4 DEF IBehind, IKept, IAnswer, IShown, BannerTellsNewest, Writing
<1>7. CASE Decide
    <2>1. op \in Ops /\ Writing /\ UNCHANGED <<shown, banner, status, get, last, base, inbox>>
        BY <1>7 DEF Decide, Writing, TypeOK
    <2>2. ASSUME NEW v \in Nat \ {0}, v <= version', Committed(v)
          PROVE  /\ op'.stage = "committed" /\ op'.key = op.key /\ op'.cv = op.cv
                 /\ pending'[op.key] = [cv |-> op.cv, version |-> v]
                 /\ \A k \in Keys \ {op.key} : pending'[k] = pending[k]
                 /\ unannounced' = unannounced \cup {v}
        BY <1>0, <2>1, <2>2 DEF Committed, Ops, TypeOK
    <2>3. CASE KeptKey /\ Committed(pending[op.key].version) /\ UNCHANGED <<version, missed>>
        <3>1. pending[op.key].version \in Nat \ {0} /\ pending[op.key].version <= version'
            BY <1>0, <2>3 DEF KeptKey, IKept, IBehind
        <3>2. /\ op'.stage = "committed" /\ op'.key = op.key /\ op'.cv = op.cv
              /\ \A k \in Keys : pending'[k] = pending[k]
              /\ unannounced' = unannounced \cup {pending[op.key].version}
            <4>1. pending[op.key] = [cv |-> op.cv, version |-> pending[op.key].version]
                BY <1>0, <2>3 DEF KeptKey, TypeOK, Pending
            <4> QED
                BY <2>2, <2>3, <3>1, <4>1
        <3>3. UNCHANGED <<version, shown, banner, missed, status, get, last, base, inbox>>
            BY <2>1, <2>3
        <3>4. IBehind' /\ IKept'
            BY <1>0, <3>1, <3>2, <3>3 DEF IBehind, IKept
        <3>5. IAnswer' /\ BannerTellsNewest'
            BY <1>0, <2>3, <3>1, <3>2, <3>3 DEF KeptKey, IAnswer, BannerTellsNewest
        <3>6. IShown'
            BY <1>0, <2>1, <3>2, <3>3 DEF IShown
        <3> QED
            BY <3>4, <3>5, <3>6
    <2>4. CASE op.cv = version /\ NewVersion /\ missed' = FALSE /\ Committed(version + 1)
        <3>1. version + 1 \in Nat \ {0} /\ version' = version + 1
            BY <1>0, <2>4 DEF NewVersion
        <3>2. /\ op'.stage = "committed" /\ op'.key = op.key /\ op'.cv = op.cv
              /\ pending'[op.key] = [cv |-> op.cv, version |-> version + 1]
              /\ \A k \in Keys \ {op.key} : pending'[k] = pending[k]
              /\ unannounced' = unannounced \cup {version + 1}
            BY <1>0, <2>2, <2>4, <3>1
        <3>3. IBehind' /\ IKept'
            BY <1>0, <2>1, <3>1, <3>2 DEF IBehind, IKept
        <3>4. IAnswer' /\ BannerTellsNewest'
            BY <1>0, <2>1, <3>1, <3>2 DEF IAnswer, BannerTellsNewest, IBehind
        <3>5. IShown'
            BY <1>0, <2>1, <3>1, <3>2 DEF IShown
        <3> QED
            BY <3>3, <3>4, <3>5
    <2>5. CASE /\ Answered(IF op.cv = version THEN "failed" ELSE "conflict")
               /\ GiveUpKey /\ UNCHANGED <<server, missed>>
        <3>1. op'.stage = "answered" /\ op'.outcome # "ok" /\ op'.cv = op.cv
            BY <1>a, <2>5
        <3>2. \A k \in Keys : pending'[k] \in {NoPending, pending[k]}
            BY <2>5 DEF GiveUpKey, TypeOK
        <3> QED
            BY <1>0, <2>1, <2>5, <3>1, <3>2, RecordFacts DEF IBehind, IKept, IAnswer, IShown, BannerTellsNewest
    <2> QED
        BY <1>7, <2>3, <2>4, <2>5 DEF Decide
<1>8. CASE Answer
    <2>1. op.stage = "answered" /\ Writing /\ UNCHANGED <<version, unannounced, inbox>>
        BY <1>8 DEF Answer, Writing
    <2>2. CASE Succeed
        <3>1. pending[op.key].version \in Nat \ {0} /\ pending[op.key].version <= version
            BY <1>0, <2>1, <2>2 DEF Succeed, IAnswer, IBehind
        <3>2. shown' = pending[op.key].version /\ BannerTellsNewest'
            BY <2>1, <2>2, <3>1, ShowKeeps DEF Succeed
        <3>3. \A k \in Keys : pending'[k] \in {NoPending, pending[k]}
            BY <2>2 DEF Succeed, TypeOK
        <3>4. last' \in {0, pending[op.key].version} /\ base' \in {0, base} /\ op' = Idle /\ UNCHANGED <<status, get>>
            BY <2>2 DEF Succeed, Over
        <3> QED
            BY <1>0, <1>b, <2>1, <3>1, <3>2, <3>3, <3>4, RecordFacts DEF IBehind, IKept, IAnswer, IShown, Writing
    <2>3. CASE Conflict
        <3>1. PICK g \in Gets : Load(g) /\ op' = [Idle EXCEPT !.stage = "reloading", !.kind = op.kind, !.get = g]
            BY <2>3 DEF Conflict
        <3>2. op'.stage = "reloading" /\ op'.cv = 0
            BY <3>1 DEF Idle
        <3>3. UNCHANGED <<shown, banner, missed, pending, last, base>>
            BY <2>3 DEF Conflict
        <3> QED
            BY <1>0, <2>1, <3>1, <3>2, <3>3, LoadKeeps DEF IBehind, IKept, IAnswer, IShown, BannerTellsNewest, Writing
    <2>4. CASE PutBack
        <3>1. op.cv \in Nat \ {0} /\ op.cv <= version
            BY <1>0, <2>1 DEF IShown, IBehind
        <3>2. shown' = op.cv /\ BannerTellsNewest'
            BY <2>1, <2>4, <3>1, ShowKeeps DEF PutBack
        <3>3. op' = Idle /\ UNCHANGED <<status, get, pending, last, base>>
            BY <2>4 DEF PutBack, Over
        <3> QED
            BY <1>0, <1>b, <2>1, <3>1, <3>2, <3>3 DEF IBehind, IKept, IAnswer, IShown, Writing
    <2>5. CASE DropStaged
        <3>1. PICK g \in Gets : Load(g)
            BY <2>5 DEF DropStaged
        <3>2. op' = Idle /\ base' = 0 /\ UNCHANGED <<shown, banner, missed, pending, last>>
            BY <2>5 DEF DropStaged
        <3> QED
            BY <1>0, <1>b, <2>1, <3>1, <3>2, LoadKeeps DEF IBehind, IKept, IAnswer, IShown, BannerTellsNewest, Writing
    <2>6. CASE Stay
        <3>1. op' = Idle /\ UNCHANGED <<shown, banner, missed, status, get, pending, last, base>>
            BY <2>6 DEF Stay, Over
        <3> QED
            BY <1>0, <1>b, <2>1, <3>1 DEF IBehind, IKept, IAnswer, IShown, BannerTellsNewest, Writing
    <2> QED
        BY <1>8, <2>2, <2>3, <2>4, <2>5, <2>6 DEF Answer
<1>9. CASE Lose
    <2>1. /\ op'.stage = "answered" /\ op'.outcome # "ok" /\ op'.cv = op.cv /\ Writing
          /\ UNCHANGED <<version, unannounced, shown, banner, missed, status, get, last, base, inbox>>
        BY <1>9, <1>a DEF Lose, Writing
    <2>2. \A k \in Keys : pending'[k] \in {NoPending, pending[k]}
        BY <1>9 DEF Lose, GiveUpKey, TypeOK
    <2> QED
        BY <1>0, <2>1, <2>2, RecordFacts DEF IBehind, IKept, IAnswer, IShown, BannerTellsNewest
<1>10. CASE OtherWrite
    BY <1>0, <1>10 DEF OtherWrite, NewVersion, IBehind, IKept, IAnswer, IShown, BannerTellsNewest, Writing
<1>11. CASE WorkWrite
    BY <1>0, <1>11 DEF WorkWrite, NewVersion, IBehind, IKept, IAnswer, IShown, BannerTellsNewest, Writing
<1>12. ASSUME NEW v \in Versions, Announce(v) \/ Crash(v) PROVE Rest'
    <2>1. /\ op'.cv = op.cv /\ op'.key = op.key /\ (Writing' => Writing)
          /\ op'.stage = "committed" \/ (op'.stage = "answered" /\ op'.outcome = "ok")
                 => op.stage = "committed" \/ (op.stage = "answered" /\ op.outcome = "ok")
        BY <1>12, <1>a DEF Announce, Crash, OwnHandler, Writing
    <2>2. UNCHANGED <<version, shown, banner, status, get, pending, last, base>>
        BY <1>12 DEF Announce, Crash
    <2>3. /\ unannounced' \cup inbox' \subseteq unannounced \cup inbox
          /\ missed => missed'
          /\ version \in unannounced \cup inbox /\ shown < version => version \in unannounced' \cup inbox' \/ missed'
        <3>1. missed \in BOOLEAN
            BY DEF TypeOK
        <3>2. CASE Announce(v)
            <4>1. v \in unannounced /\ unannounced' = unannounced \ {v}
                BY <3>2 DEF Announce
            <4>2. CASE inbox' = inbox \cup {v} /\ UNCHANGED missed
                BY <4>1, <4>2
            <4>3. CASE missed' = (missed \/ (version \in {v} /\ shown < version)) /\ UNCHANGED inbox
                BY <3>1, <4>1, <4>3
            <4> QED
                BY <3>2, <4>2, <4>3 DEF Announce, MissUnlessShown
        <3>3. CASE Crash(v)
            BY <3>1, <3>3 DEF Crash, MissUnlessShown
        <3> QED
            BY <1>12, <3>2, <3>3
    <2> QED
        BY <1>0, <2>1, <2>2, <2>3 DEF IBehind, IKept, IAnswer, IShown, BannerTellsNewest
<1>13. CASE Break
    <2>1. missed \in BOOLEAN
        BY DEF TypeOK
    <2>2. inbox' = {} /\ missed' = (missed \/ (version \in inbox /\ shown < version))
        BY <1>13 DEF Break, MissUnlessShown
    <2>3. UNCHANGED <<version, unannounced, shown, banner, status, get, op, pending, last, base>>
        BY <1>13 DEF Break
    <2>4. IBehind' /\ IKept' /\ IAnswer'
        BY <1>0, <2>2, <2>3 DEF IBehind, IKept, IAnswer
    <2>5. IShown'
        <3>1. /\ status' = "ready" => shown' # 0
              /\ Writing' => op'.cv # 0
              /\ \A g \in Gets : get'[g].stage = "read" => get'[g].version # 0
            BY <2>3 DEF IShown, Writing
        <3>2. ASSUME shown = 0, version > 1, version \notin unannounced
              PROVE  missed'
            <4>1. shown < version /\ (version \in inbox \/ missed)
                BY <1>0, <3>2 DEF IShown
            <4> QED
                BY <2>2, <4>1, Zenon
        <3> QED
            BY <2>3, <3>1, <3>2 DEF IShown
    <2>6. ASSUME shown \in 1 .. version - 1, version \notin unannounced, ~ missed'
          PROVE  banner = version
        <3>1. ~ missed /\ version \notin inbox
            <4>1. shown < version
                BY <1>0, <2>6
            <4> QED
                BY <2>2, <2>6, <4>1, Zenon
        <3> QED
            BY <2>6, <3>1 DEF BannerTellsNewest
    <2> QED
        BY <2>2, <2>3, <2>4, <2>5, <2>6 DEF BannerTellsNewest
<1>14. CASE Deliver
    <2>1. PICK v \in inbox :
              /\ inbox' \in {inbox, inbox \ {v}}
              /\ banner' = IF Noticed(v) THEN v ELSE banner
              /\ missed' = (missed \/ (shown = 0 /\ v = version))
        BY <1>14 DEF Deliver
    <2>2. UNCHANGED <<version, unannounced, shown, status, get, op, pending, last, base>>
        BY <1>14 DEF Deliver
    <2>3. v \in Nat /\ v <= version /\ missed \in BOOLEAN
        BY <1>0 DEF IBehind, TypeOK
    <2>4. IBehind' /\ IKept' /\ IAnswer'
        BY <1>0, <2>1, <2>2 DEF IBehind, IKept, IAnswer
    <2>5. IShown'
        BY <1>0, <2>1, <2>2, <2>3 DEF IShown, Writing
    <2>6. banner' # 0 => shown' < banner' /\ banner' <= version'
        BY <1>0, <2>1, <2>2, <2>3 DEF Noticed, BannerTellsNewest
    <2>7. ASSUME shown \in 1 .. version - 1, version \notin unannounced \cup inbox', ~ missed'
          PROVE  banner' = version
        <3>1. ~ missed
            BY <2>1, <2>3, <2>7
        <3>2. CASE version \in inbox
            BY <1>0, <2>1, <2>3, <2>7, <3>2 DEF Noticed, BannerTellsNewest
        <3>3. CASE version \notin inbox
            BY <1>0, <2>1, <2>3, <2>7, <3>1, <3>3 DEF Noticed, BannerTellsNewest
        <3> QED
            BY <3>2, <3>3
    <2> QED
        BY <2>2, <2>4, <2>5, <2>6, <2>7 DEF BannerTellsNewest
<1>15. CASE UNCHANGED vars
    BY <1>15 DEF vars, IBehind, IKept, IAnswer, IShown, BannerTellsNewest, Writing
<1> QED
    BY <1>1, <1>2, <1>3, <1>4, <1>5, <1>6, <1>7, <1>8, <1>9, <1>10, <1>11, <1>12, <1>13, <1>14, <1>15 DEF Next

-----------------------------------------------------------------------------
(* Reloads.                                                                *)

\* One request at a time ...
IAlone == \A g, h \in InFlight : g = h

\* ... which has read nothing older than what is shown ...
IFresh == \A g \in Gets : get[g].stage = "read" => shown <= get[g].version

\* ... and something newer than the version that a write was sent for.
ILate ==
    Writing =>
        /\ op.cv <= shown
        /\ InFlight # {} => op.cv < version
        /\ \A g \in Gets : get[g].stage = "read" => op.cv < get[g].version

RInv == ~ raced => IAlone /\ IFresh /\ ILate

\* The load on mount is the only one.
LEMMA InitReloads == Init => RInv
<1> SUFFICES ASSUME Init PROVE RInv
    OBVIOUS
<1>1. PICK g \in Gets : get = [h \in Gets |-> IF h = g THEN NewRequest ELSE NoRequest]
    BY DEF Init
<1>2. InFlight = {g} /\ \A h \in Gets : get[h].stage # "read"
    BY <1>1 DEF InFlight, NewRequest, NoRequest
<1>3. ~ Writing
    BY DEF Init, Writing, Idle
<1> QED
    BY <1>2, <1>3 DEF RInv, IAlone, IFresh, ILate

\* A request that nothing has raced is alone, has read nothing yet, and leaves
\* a write in progress behind the banner.
LEMMA LoadAlone ==
    ASSUME TypeOK, NEW g \in Gets, Load(g), ~ raced'
    PROVE  /\ ~ raced /\ InFlight = {}
           /\ IAlone'
           /\ \A h \in Gets : get'[h].stage # "read"
           /\ Writing' => banner # 0
<1>1. ~ raced /\ InFlight = {} /\ (Writing' => banner # 0)
    BY DEF Load, TypeOK
<1>2. \A h \in Gets : get[h].stage = "none"
    BY <1>1 DEF InFlight
<1>3. \A h \in Gets : get'[h].stage = IF h = g THEN "sent" ELSE "none"
    BY <1>2 DEF Load, NewRequest, TypeOK
<1>4. InFlight' = {g}
    BY <1>3 DEF InFlight
<1> QED
    BY <1>1, <1>3, <1>4 DEF IAlone

\* Every step keeps RInv.
LEMMA NextReloads == TypeOK /\ Rest /\ RInv /\ [Next]_vars => RInv'
<1> SUFFICES ASSUME TypeOK, Rest, RInv, [Next]_vars, ~ raced'
             PROVE  IAlone' /\ IFresh' /\ ILate'
    BY DEF RInv
<1> USE DEF server, view, writes, refs
<1>0. /\ version \in Nat /\ shown \in Nat /\ banner \in Nat /\ op.cv \in Nat
      /\ \A g \in Gets : get[g].version \in Nat
      /\ shown <= version
      /\ raced \in BOOLEAN
    BY VersionFacts DEF Rest, IBehind, TypeOK, Ops, GetRequests
<1>a. ASSUME op' = Idle \/ op'.stage = "reloading" PROVE ~ Writing'
    BY <1>a DEF Idle, Writing
<1>1. ASSUME NEW g \in Gets, ReadVersion(g) PROVE IAlone' /\ IFresh' /\ ILate'
    <2>1. ~ raced /\ UNCHANGED <<version, shown, op>>
        BY <1>1 DEF ReadVersion
    <2>2. get'[g] = [stage |-> "read", version |-> version] /\ \A h \in Gets \ {g} : get'[h] = get[h]
        BY <1>1 DEF ReadVersion, TypeOK
    <2>3. g \in InFlight /\ InFlight' = InFlight
        BY <1>1, <2>2 DEF ReadVersion, InFlight
    <2> QED
        BY <1>0, <2>1, <2>2, <2>3 DEF RInv, IAlone, IFresh, ILate, Writing
<1>2. ASSUME NEW g \in Gets, Loaded(g) PROVE IAlone' /\ IFresh' /\ ILate'
    <2>1. InFlight = {g}
        BY <1>2 DEF Loaded, RInv, IAlone, InFlight
    <2>2. \A h \in Gets : get'[h].stage \in IF h = g THEN {"none", "sent"} ELSE {"none"}
        BY <1>2, <2>1 DEF Loaded, NoRequest, NewRequest, InFlight, TypeOK
    <2>3. IAlone' /\ IFresh'
        BY <2>2 DEF IAlone, IFresh, InFlight
    <2>4. CASE op' = Idle
        BY <1>a, <2>3, <2>4 DEF ILate
    <2>5. CASE op' = op /\ op.get # g
        <3>1. get'[g].stage = "none"
            BY <1>2, <2>5 DEF Loaded, ReloadsAgain, Ends, NoRequest, TypeOK
        <3>2. InFlight' = {} /\ \A h \in Gets : get'[h].stage = "none"
            BY <2>2, <3>1 DEF InFlight
        <3>3. Writing => ~ raced
            BY <1>2, <2>5 DEF Loaded, Writing
        <3>4. Writing => op.cv <= shown'
            <4>1. CASE UNCHANGED view
                BY <3>3, <4>1 DEF RInv, ILate
            <4>2. CASE Show(get[g].version) /\ get[g].stage = "read"
                BY <1>0, <3>3, <4>2 DEF Show, RInv, ILate
            <4> QED
                BY <1>2, <4>1, <4>2 DEF Loaded
        <3> QED
            BY <2>3, <2>5, <3>2, <3>4 DEF ILate, Writing
    <2> QED
        BY <1>2, <2>4, <2>5 DEF Loaded
<1>3. CASE Reload \/ UndoStale
    <2>1. ~ raced /\ IAlone' /\ (\A h \in Gets : get'[h].stage # "read") /\ (Writing' => banner # 0)
        BY <1>3, LoadAlone DEF Reload, UndoStale
    <2>2. UNCHANGED <<version, shown, op>>
        BY <1>3 DEF Reload, UndoStale
    <2>3. banner # 0 => shown < banner /\ banner <= version
        BY DEF Rest, BannerTellsNewest
    <2> QED
        BY <1>0, <2>1, <2>2, <2>3 DEF RInv, IFresh, ILate, Writing
<1>4. CASE Discard
    <2>1. IAlone' /\ \A h \in Gets : get'[h].stage # "read"
        BY <1>4, LoadAlone DEF Discard
    <2>2. ~ Writing'
        BY <1>4 DEF Discard, Writing
    <2> QED
        BY <2>1, <2>2 DEF IFresh, ILate
<1>5. CASE Edit \/ ApplyStaged \/ Undo
    <2>1. PICK k \in {"edit", "staged", "undo"}, key \in Keys : Begin(k, key)
        BY <1>5, KeysAssumption DEF Edit, ApplyStaged, Undo, Keys
    <2>2. InFlight = {} /\ op'.cv = shown /\ UNCHANGED <<shown, get>>
        BY <1>0, <2>1 DEF Begin, Idle
    <2>3. \A g \in Gets : get[g].stage = "none"
        BY <2>2 DEF InFlight
    <2> QED
        BY <1>0, <2>2, <2>3 DEF IAlone, IFresh, ILate, InFlight
<1>6. ASSUME UNCHANGED <<shown, get>>, ~ raced, op'.cv = op.cv, Writing' => Writing,
             version' \in Nat, version <= version'
      PROVE  IAlone' /\ IFresh' /\ ILate'
    BY <1>0, <1>6 DEF RInv, IAlone, IFresh, ILate, InFlight
<1>7. CASE Decide
    <2>1. op'.cv = op.cv /\ Writing
        BY <1>7 DEF Decide, Committed, Answered, Writing, TypeOK, Ops
    <2>2. version' \in Nat /\ version <= version' /\ UNCHANGED <<shown, get, raced>>
        BY <1>0, <1>7 DEF Decide, NewVersion
    <2> QED
        BY <1>6, <2>1, <2>2
<1>8. CASE Answer
    <2>1. Writing
        BY <1>8 DEF Answer, Writing
    <2>2. CASE \E g \in Gets : Load(g)
        <3>1. IAlone' /\ \A h \in Gets : get'[h].stage # "read"
            BY <2>2, LoadAlone
        <3>2. ~ Writing'
            BY <1>8, <1>a DEF Answer, Succeed, Conflict, PutBack, DropStaged, Stay, Over, Idle
        <3> QED
            BY <3>1, <3>2 DEF IFresh, ILate
    <2>3. CASE Over /\ UNCHANGED get
        <3>1. ~ Writing' /\ InFlight' = InFlight
            BY <1>a, <2>3 DEF Over, InFlight
        <3>2. CASE InFlight = {}
            <4>1. \A h \in Gets : get[h].stage = "none"
                BY <3>2 DEF InFlight
            <4> QED
                BY <2>3, <3>1, <3>2, <4>1 DEF IAlone, IFresh, ILate
        <3>3. CASE ~ raced
            <4>1. \A h \in Gets : get[h].stage = "read" => shown <= get[h].version /\ op.cv < get[h].version
                BY <2>1, <3>3 DEF RInv, IFresh, ILate
            <4>2. shown' \in {shown, op.cv, op.cv + 1}
                <5>1. CASE Succeed
                    <6>1. pending[op.key].version = op.cv + 1
                        BY <1>8, <5>1 DEF Answer, Succeed, Rest, IAnswer, TypeOK, Ops
                    <6> QED
                        BY <5>1, <6>1 DEF Succeed, Show
                <5>2. CASE PutBack
                    BY <5>2 DEF PutBack, Show
                <5>3. CASE Conflict \/ DropStaged \/ Stay
                    BY <5>3 DEF Conflict, DropStaged, Stay
                <5> QED
                    BY <1>8, <5>1, <5>2, <5>3 DEF Answer
            <4> QED
                BY <1>0, <2>3, <3>1, <3>3, <4>1, <4>2 DEF RInv, IAlone, IFresh, ILate
        <3> QED
            BY <2>3, <3>2, <3>3 DEF Over
    <2> QED
        BY <1>8, <2>2, <2>3 DEF Answer, Succeed, Conflict, PutBack, DropStaged, Stay
<1>9. CASE Lose
    <2>1. op'.cv = op.cv /\ Writing
        BY <1>9 DEF Lose, Answered, Writing, TypeOK, Ops
    <2> QED
        BY <1>0, <1>6, <1>9, <2>1 DEF Lose
<1>10. CASE OtherWrite \/ WorkWrite
    BY <1>0, <1>6, <1>10 DEF OtherWrite, WorkWrite, NewVersion, Writing
<1>11. ASSUME NEW v \in Versions, Announce(v) \/ Crash(v) PROVE IAlone' /\ IFresh' /\ ILate'
    <2>1. op'.cv = op.cv /\ (Writing' => Writing)
        BY <1>11 DEF Announce, Crash, Answered, OwnHandler, Writing, TypeOK, Ops
    <2> QED
        BY <1>0, <1>6, <1>11, <2>1 DEF Announce, Crash
<1>12. CASE Stage \/ Break \/ Deliver
    BY <1>0, <1>6, <1>12 DEF Stage, Break, Deliver, Writing
<1>13. CASE UNCHANGED vars
    BY <1>0, <1>6, <1>13 DEF vars, Writing
<1> QED
    BY <1>1, <1>2, <1>3, <1>4, <1>5, <1>7, <1>8, <1>9, <1>10, <1>11, <1>12, <1>13 DEF Next

-----------------------------------------------------------------------------
(* What holds of every behaviour.                                          *)

\* Both invariants hold in every reachable state.
LEMMA Invariance == Spec => [](WInv /\ RInv)
<1>1. WInv /\ RInv /\ [Next]_vars => (WInv /\ RInv)'
    BY NextType, NextInv, NextReloads DEF WInv
<1> QED
    BY <1>1, InitInv, InitReloads, PTL DEF Spec

\* Every reachable state is well typed, and the version that the key of a write
\* stands for directly follows the one the write was sent for.
THEOREM TypeCorrect == Spec => []TypeOK
BY Invariance, PTL DEF WInv

\* A client that is behind, and to which the newest event was not lost, has the
\* banner with that very version, however answers and events overtake each other.
THEOREM BannerTellsNewestHolds == Spec => []BannerTellsNewest
<1>1. WInv => BannerTellsNewest
    BY DEF WInv, Rest
<1> QED
    BY <1>1, Invariance, PTL

\* The answer of a reload is never older than what it replaces, the answers to
\* the client's own writes meanwhile included, unless two reloads overlap, or a
\* write and a reload that no banner gave rise to.
THEOREM ReloadsAdvanceHolds == Spec => ReloadsAdvance
<1>1. ASSUME WInv, RInv, [Next]_vars
      PROVE  [\A g \in Gets : get[g].stage = "read" /\ get'[g].stage # "read" /\ ~ raced
                  => shown' >= shown]_<<shown, get>>
    <2> SUFFICES ASSUME NEW g \in Gets, get[g].stage = "read", get'[g].stage # "read", ~ raced
                 PROVE  shown' >= shown
        OBVIOUS
    <2> USE DEF server, view, writes, refs
    <2>0. TypeOK
        BY <1>1 DEF WInv
    <2>1. shown \in Nat /\ get[g].version \in Nat /\ shown <= get[g].version
        BY <1>1, <2>0, VersionFacts DEF TypeOK, GetRequests, RInv, IFresh
    <2>2. ASSUME NEW h \in Gets, Loaded(h) PROVE shown' >= shown
        <3>1. h = g
            BY <1>1, <2>2 DEF Loaded, RInv, IAlone, InFlight
        <3> QED
            BY <2>1, <2>2, <3>1 DEF Loaded, Show
    <2>3. ASSUME NEW h \in Gets, ReadVersion(h) PROVE FALSE
        BY <2>0, <2>3 DEF ReadVersion, TypeOK
    <2>4. ASSUME NEW h \in Gets, Load(h) PROVE FALSE
        BY <2>0, <2>4 DEF Load, InFlight, TypeOK
    <2>5. CASE UNCHANGED get
        BY <2>5
    <2>6. \/ \E h \in Gets : ReadVersion(h) \/ Loaded(h) \/ Load(h)
          \/ UNCHANGED get
        <3>1. CASE Answer
            BY <3>1 DEF Answer, Succeed, Conflict, PutBack, DropStaged, Stay
        <3>2. CASE Reload \/ UndoStale \/ Discard
            BY <3>2 DEF Reload, UndoStale, Discard
        <3>3. CASE Edit \/ ApplyStaged \/ Undo
            BY <3>3 DEF Edit, ApplyStaged, Undo, Begin
        <3> QED
            BY <1>1, <3>1, <3>2, <3>3 DEF Next, Stage, Decide, Lose, OtherWrite, WorkWrite,
               Announce, Crash, Break, Deliver, vars
    <2> QED
        BY <2>2, <2>3, <2>4, <2>5, <2>6
<1> QED
    BY <1>1, Invariance, PTL DEF Spec, ReloadsAdvance
=============================================================================
