------------------------- MODULE ControlPlaneProofs -------------------------
(***************************************************************************)
(* Proofs about the control plane in Services, for every value of its      *)
(* constants: what the overrides on disk, the live configuration, the      *)
(* audit trail and the reloaded modules keep, over crashes and restarts.   *)
(***************************************************************************)
EXTENDS ServicesProofs

Fields == {"at", "ask", "before", "copy", "wrote", "earlier", "todo", "gone", "kept", "back"}
CallEnds     == {"done", "failed", "lost"}
WriterPlaces == {"set", "toggle", "write", "load", "save", "notify", "audit"}
ReloadPlaces == {"refresh", "match", "withdraw", "verify", "restore", "audits"}
CellAsks     == {"update", "toggle"}

-----------------------------------------------------------------------------
(* The records of calls, and what one step changes of them.                *)
Shape ==
  /\ desk = [c \in ControlCalls |-> desk[c]]
  /\ \A c \in ControlCalls : DOMAIN desk[c] = Fields
  /\ DOMAIN process = {"up", "persistence", "strict", "starts"}
  /\ process.up \in BOOLEAN /\ process.starts \in Nat /\ (process.starts = 0 => ~process.up)

(* Only c moves, and its request stays.                                    *)
OnlyMoves(c) ==
  /\ \A d \in ControlCalls : d # c => desk'[d] = desk[d]
  /\ desk'[c].ask = desk[c].ask /\ desk'[c].earlier = desk[c].earlier

(* What changes in the record of c besides its place.                      *)
WroteStays(c)  == desk'[c].wrote = desk[c].wrote
BeforeStays(c) == desk'[c].before = desk[c].before
ReloadStays(c) == /\ desk'[c].todo = desk[c].todo /\ desk'[c].gone = desk[c].gone
                  /\ desk'[c].kept = desk[c].kept /\ desk'[c].back = desk[c].back

(* A new record for one call.                                              *)
LEMMA NewRecord ==
  ASSUME Shape, NEW c \in ControlCalls, NEW r, DOMAIN r = Fields, Controlling!Step(c, r)
  PROVE  /\ desk' = [d \in ControlCalls |-> desk'[d]]
         /\ \A d \in ControlCalls : DOMAIN desk'[d] = Fields
         /\ \A d \in ControlCalls : d # c => desk'[d] = desk[d]
         /\ desk'[c] = r
  BY DEF Shape, Controlling!Step

(* A new place for one call.                                               *)
LEMMA NewPlace ==
  ASSUME Shape, NEW c \in ControlCalls, NEW p, Controlling!Go(c, p)
  PROVE  /\ desk' = [d \in ControlCalls |-> desk'[d]]
         /\ \A d \in ControlCalls : DOMAIN desk'[d] = Fields
         /\ OnlyMoves(c) /\ WroteStays(c) /\ BeforeStays(c) /\ ReloadStays(c)
         /\ desk'[c].at = p
  <1> DEFINE r == [desk[c] EXCEPT !.at = p]
  <1>1. /\ DOMAIN r = Fields /\ r.at = p /\ r.ask = desk[c].ask /\ r.earlier = desk[c].earlier
        /\ r.wrote = desk[c].wrote /\ r.before = desk[c].before /\ r.todo = desk[c].todo
        /\ r.gone = desk[c].gone /\ r.kept = desk[c].kept /\ r.back = desk[c].back
    BY DEF Shape, Fields
  <1>2. Controlling!Step(c, r)
    BY DEF Controlling!Go
  <1> HIDE DEF r
  <1>3. QED
    BY <1>1, <1>2, NewRecord DEF OnlyMoves, WroteStays, BeforeStays, ReloadStays

(* What the steps of a call do to its record.                              *)
LEMMA UpdateMoves ==
  ASSUME Shape, NEW c \in ControlCalls, Controlling!Update(c)
  PROVE  /\ Shape' /\ OnlyMoves(c) /\ WroteStays(c) /\ ReloadStays(c)
         /\ desk'[c].before = live[desk[c].ask.cell[2]]
         /\ desk'[c].at = IF Legal(desk[c].ask.cell[2], desk[c].ask.value) THEN Controlling!Persisting ELSE "failed"
  <1> DEFINE p == IF Legal(desk[c].ask.cell[2], desk[c].ask.value) THEN Controlling!Persisting ELSE "failed"
             b == live[desk[c].ask.cell[2]]
  <1>1. Controlling!Step(c, [desk[c] EXCEPT !.before = b, !.at = p]) /\ process' = process
    BY DEF Controlling!Update
  <1> HIDE DEF p, b
  <1>2. Shape' /\ OnlyMoves(c) /\ WroteStays(c) /\ ReloadStays(c) /\ desk'[c].before = b /\ desk'[c].at = p
    BY <1>1 DEF Shape, Fields, Controlling!Step, OnlyMoves, WroteStays, ReloadStays
  <1>3. QED
    BY <1>2 DEF p, b

LEMMA ReadToggleMoves ==
  ASSUME Shape, NEW c \in ControlCalls, Controlling!ReadToggle(c)
  PROVE  Shape' /\ OnlyMoves(c) /\ WroteStays(c) /\ ReloadStays(c) /\ desk'[c].at = "toggle"
  BY DEF Shape, Fields, Controlling!ReadToggle, Controlling!Step, OnlyMoves, WroteStays, ReloadStays

LEMMA WriteMoves ==
  ASSUME Shape, NEW c \in ControlCalls, Controlling!WriteOverride(c)
  PROVE  /\ Shape' /\ OnlyMoves(c) /\ BeforeStays(c) /\ ReloadStays(c)
         /\ desk'[c].at = "notify" /\ desk'[c].wrote \in BOOLEAN
         /\ overrides' = IF desk'[c].wrote THEN Controlling!Insert(overrides, desk[c].ask.cell, desk[c].ask.value)
                         ELSE overrides
  <1>1. PICK w \in BOOLEAN :
             /\ overrides' = IF w THEN Controlling!Insert(overrides, desk[c].ask.cell, desk[c].ask.value) ELSE overrides
             /\ Controlling!Step(c, [desk[c] EXCEPT !.wrote = w, !.at = "notify"])
    BY DEF Controlling!WriteOverride
  <1>2. process' = process
    BY DEF Controlling!WriteOverride
  <1>3. QED
    BY <1>1, <1>2 DEF Shape, Fields, Controlling!Step, OnlyMoves, BeforeStays, ReloadStays

LEMMA LoadMoves ==
  ASSUME Shape, NEW c \in ControlCalls, Controlling!LoadStore(c)
  PROVE  Shape' /\ OnlyMoves(c) /\ WroteStays(c) /\ BeforeStays(c) /\ ReloadStays(c) /\ desk'[c].at = "save"
  <1>1. PICK map \in {overrides, <<>>} : Controlling!Step(c, [desk[c] EXCEPT !.copy = map, !.at = "save"])
    BY DEF Controlling!LoadStore
  <1>2. process' = process
    BY DEF Controlling!LoadStore
  <1>3. QED
    BY <1>1, <1>2 DEF Shape, Fields, Controlling!Step, OnlyMoves, WroteStays, BeforeStays, ReloadStays

LEMMA SaveMoves ==
  ASSUME Shape, NEW c \in ControlCalls, Controlling!SaveStore(c)
  PROVE  /\ Shape' /\ OnlyMoves(c) /\ BeforeStays(c) /\ ReloadStays(c)
         /\ desk'[c].at = "notify" /\ desk'[c].wrote \in BOOLEAN
  <1>1. PICK w \in BOOLEAN : Controlling!Step(c, [desk[c] EXCEPT !.wrote = w, !.copy = <<>>, !.at = "notify"])
    BY DEF Controlling!SaveStore
  <1>2. process' = process
    BY DEF Controlling!SaveStore
  <1>3. QED
    BY <1>1, <1>2 DEF Shape, Fields, Controlling!Step, OnlyMoves, BeforeStays, ReloadStays

LEMMA MatchMoves ==
  ASSUME Shape, NEW c \in ControlCalls, Controlling!Match(c)
  PROVE  /\ Shape' /\ OnlyMoves(c) /\ WroteStays(c) /\ BeforeStays(c)
         /\ desk'[c].at = "withdraw" /\ desk'[c].gone = desk[c].gone /\ desk'[c].back = desk[c].back
         /\ \A m \in desk'[c].todo : desk'[c].kept[m] # "absent"
  <1> DEFINE found == {m \in desk[c].ask.modules : loaded[m] # "absent"}
             instances == [m \in found |-> loaded[m]]
  <1>1. Controlling!Step(c, [desk[c] EXCEPT !.todo = found, !.kept = instances, !.at = "withdraw"]) /\ process' = process
    BY DEF Controlling!Match
  <1>2. \A m \in found : instances[m] # "absent"
    OBVIOUS
  <1> HIDE DEF found, instances
  <1>3. QED
    BY <1>1, <1>2 DEF Shape, Fields, Controlling!Step, OnlyMoves, WroteStays, BeforeStays

LEMMA WithdrawMoves ==
  ASSUME Shape, NEW c \in ControlCalls, Controlling!Withdraw(c)
  PROVE  /\ Shape' /\ OnlyMoves(c) /\ WroteStays(c) /\ BeforeStays(c)
         /\ desk'[c].at = "withdraw" /\ desk'[c].kept = desk[c].kept /\ desk'[c].back = desk[c].back
         /\ \E m \in desk[c].todo :
              /\ desk'[c].todo = desk[c].todo \ {m}
              /\ \/ loaded' = loaded /\ desk'[c].gone = desk[c].gone
                 \/ loaded' = [loaded EXCEPT ![m] = "absent"] /\ desk'[c].gone = desk[c].gone \cup {m}
  <1>1. PICK m \in desk[c].todo, out \in BOOLEAN :
             /\ loaded' = IF out THEN [loaded EXCEPT ![m] = "absent"] ELSE loaded
             /\ Controlling!Step(c, [desk[c] EXCEPT !.todo = @ \ {m}, !.gone = IF out THEN @ \cup {m} ELSE @])
    BY DEF Controlling!Withdraw, Controlling!Foremost
  <1>2. desk[c].at = "withdraw" /\ process' = process
    BY DEF Controlling!Withdraw
  <1> DEFINE g == IF out THEN desk[c].gone \cup {m} ELSE desk[c].gone
  <1>3. Controlling!Step(c, [desk[c] EXCEPT !.todo = desk[c].todo \ {m}, !.gone = g])
    BY <1>1
  <1> HIDE DEF g
  <1>4. /\ Shape' /\ OnlyMoves(c) /\ WroteStays(c) /\ BeforeStays(c)
        /\ desk'[c].at = "withdraw" /\ desk'[c].kept = desk[c].kept /\ desk'[c].back = desk[c].back
        /\ desk'[c].todo = desk[c].todo \ {m} /\ desk'[c].gone = g
    BY <1>2, <1>3 DEF Shape, Fields, Controlling!Step, OnlyMoves, WroteStays, BeforeStays
  <1>5. QED
    BY <1>1, <1>4 DEF g

LEMMA RediscoverMoves ==
  ASSUME Shape, NEW c \in ControlCalls, Controlling!Rediscover(c)
  PROVE  /\ Shape' /\ OnlyMoves(c) /\ WroteStays(c) /\ BeforeStays(c)
         /\ desk'[c].gone = desk[c].gone /\ desk'[c].kept = desk[c].kept /\ desk'[c].back = desk[c].back
         /\ \/ desk'[c].at = "restore" /\ desk'[c].todo = desk[c].gone /\ loaded' = loaded
            \/ /\ desk'[c].at = "verify" /\ desk'[c].todo = desk[c].todo
               /\ loaded' = [m \in Plain |-> loaded'[m]]
               /\ \A m \in Plain : loaded[m] # "absent" => loaded'[m] # "absent"
  <1>1. process' = process
    BY DEF Controlling!Rediscover
  <1>2. CASE Controlling!Step(c, [desk[c] EXCEPT !.todo = desk[c].gone, !.at = "restore"]) /\ UNCHANGED loaded
    BY <1>1, <1>2 DEF Shape, Fields, Controlling!Step, OnlyMoves, WroteStays, BeforeStays
  <1>3. CASE Controlling!Go(c, "verify") /\ \E found \in SUBSET {m \in Plain : loaded[m] = "absent"} :
               loaded' = [m \in Plain |-> IF m \in found THEN "discovered" ELSE loaded[m]]
    <2>1. /\ loaded' = [m \in Plain |-> loaded'[m]]
          /\ \A m \in Plain : loaded[m] # "absent" => loaded'[m] # "absent"
      BY <1>3
    <2>2. QED
      BY <1>1, <1>3, <2>1, NewPlace DEF Shape, ReloadStays, OnlyMoves, WroteStays, BeforeStays
  <1>4. QED
    BY <1>2, <1>3 DEF Controlling!Rediscover

LEMMA VerifyMoves ==
  ASSUME Shape, NEW c \in ControlCalls, Controlling!Verify(c)
  PROVE  /\ Shape' /\ OnlyMoves(c) /\ WroteStays(c) /\ BeforeStays(c) /\ desk'[c].kept = desk[c].kept
         /\ \/ /\ desk[c].gone = {} /\ ReloadStays(c)
               /\ desk'[c].at = IF desk[c].todo = {} THEN "audits" ELSE "restore"
            \/ /\ desk'[c].at = "verify"
               /\ \E m \in desk[c].gone :
                    /\ desk'[c].gone = desk[c].gone \ {m}
                    /\ desk'[c].todo = IF loaded[m] # "absent" THEN desk[c].todo ELSE desk[c].todo \cup {m}
  <1>1. process' = process
    BY DEF Controlling!Verify
  <1>2. CASE desk[c].gone = {}
    <2>1. Controlling!Go(c, IF desk[c].todo = {} THEN "audits" ELSE "restore")
      BY <1>2 DEF Controlling!Verify
    <2>2. QED
      BY <1>1, <1>2, <2>1, NewPlace DEF Shape, ReloadStays
  <1>3. CASE desk[c].gone # {}
    <2>1. PICK m \in desk[c].gone :
            Controlling!Step(c, [desk[c] EXCEPT !.gone = @ \ {m},
                                   !.back = IF loaded[m] # "absent" THEN @ \cup {m} ELSE @,
                                   !.todo = IF loaded[m] # "absent" THEN @ ELSE @ \cup {m}])
      BY <1>3 DEF Controlling!Verify
    <2>2. desk[c].at = "verify"
      BY DEF Controlling!Verify
    <2> DEFINE b == IF loaded[m] # "absent" THEN desk[c].back \cup {m} ELSE desk[c].back
               t == IF loaded[m] # "absent" THEN desk[c].todo ELSE desk[c].todo \cup {m}
    <2>3. Controlling!Step(c, [desk[c] EXCEPT !.gone = desk[c].gone \ {m}, !.back = b, !.todo = t])
      BY <2>1
    <2> HIDE DEF b, t
    <2>4. /\ Shape' /\ OnlyMoves(c) /\ WroteStays(c) /\ BeforeStays(c)
          /\ desk'[c].at = "verify" /\ desk'[c].kept = desk[c].kept
          /\ desk'[c].gone = desk[c].gone \ {m} /\ desk'[c].todo = t
      BY <1>1, <2>2, <2>3 DEF Shape, Fields, Controlling!Step, OnlyMoves, WroteStays, BeforeStays
    <2>5. QED
      BY <2>4 DEF t
  <1>4. QED
    BY <1>2, <1>3

LEMMA RestoreMoves ==
  ASSUME Shape, NEW c \in ControlCalls, Controlling!Restore(c)
  PROVE  /\ Shape' /\ OnlyMoves(c) /\ WroteStays(c) /\ BeforeStays(c)
         /\ desk'[c].kept = desk[c].kept /\ desk'[c].back = desk[c].back
         /\ \/ /\ desk[c].todo = {} /\ desk'[c].at = "failed" /\ ReloadStays(c) /\ UNCHANGED <<loaded, bereft>>
            \/ /\ desk'[c].at = "restore"
               /\ \E m \in desk[c].todo :
                    /\ desk'[c].todo = desk[c].todo \ {m} /\ desk'[c].gone = desk[c].gone \ {m}
                    /\ \/ loaded[m] # "absent" /\ UNCHANGED <<loaded, bereft>>
                       \/ bereft' = bereft \cup {m} /\ UNCHANGED loaded
                       \/ loaded' = [loaded EXCEPT ![m] = desk[c].kept[m]] /\ UNCHANGED bereft
  <1>1. process' = process
    BY DEF Controlling!Restore
  <1>2. CASE desk[c].todo = {}
    BY <1>1, <1>2, NewPlace DEF Controlling!Restore, Shape, ReloadStays
  <1>3. CASE desk[c].todo # {}
    <2>1. PICK m \in desk[c].todo :
            /\ Controlling!Step(c, [desk[c] EXCEPT !.todo = @ \ {m}, !.gone = @ \ {m}])
            /\ \/ loaded[m] # "absent" /\ UNCHANGED <<loaded, bereft>>
               \/ bereft' = bereft \cup {m} /\ UNCHANGED loaded
               \/ loaded' = [loaded EXCEPT ![m] = desk[c].kept[m]] /\ UNCHANGED bereft
      BY <1>3 DEF Controlling!Restore
    <2>2. desk[c].at = "restore"
      BY DEF Controlling!Restore
    <2>3. /\ Shape' /\ OnlyMoves(c) /\ WroteStays(c) /\ BeforeStays(c)
          /\ desk'[c].at = "restore" /\ desk'[c].kept = desk[c].kept /\ desk'[c].back = desk[c].back
          /\ desk'[c].todo = desk[c].todo \ {m} /\ desk'[c].gone = desk[c].gone \ {m}
      BY <1>1, <2>1, <2>2 DEF Shape, Fields, Controlling!Step, OnlyMoves, WroteStays, BeforeStays
    <2>4. QED
      BY <2>1, <2>3
  <1>4. QED
    BY <1>2, <1>3

(* The steps that give their record a new place and nothing else.          *)
LEMMA PlaceMoves ==
  ASSUME Shape, NEW c \in ControlCalls,
         Controlling!Toggle(c) \/ Controlling!Notify(c) \/ Controlling!RecordAudit(c)
           \/ Controlling!Refresh(c) \/ Controlling!AuditReload(c)
  PROVE  /\ Shape' /\ OnlyMoves(c) /\ WroteStays(c) /\ BeforeStays(c) /\ ReloadStays(c)
         /\ Controlling!Toggle(c) => desk'[c].at = Controlling!Persisting
         /\ Controlling!Notify(c) => desk'[c].at = "audit"
         /\ Controlling!RecordAudit(c) \/ Controlling!AuditReload(c) => desk'[c].at = "done"
         /\ Controlling!Refresh(c) => desk'[c].at = IF desk[c].ask.modules = {} THEN "done" ELSE "match"
  <1>1. process' = process
    BY DEF Controlling!Toggle, Controlling!Notify, Controlling!RecordAudit, Controlling!Refresh, Controlling!AuditReload
  <1>2. QED
    BY <1>1, NewPlace DEF Controlling!Toggle, Controlling!Notify, Controlling!RecordAudit, Controlling!Refresh,
                              Controlling!AuditReload, Shape

(* A call that begins.                                                     *)
LEMMA BeginMoves ==
  ASSUME Shape, NEW c \in ControlCalls, NEW ask \in Asks[c], Controlling!Begin(c, ask)
  PROVE  /\ Shape'
         /\ \A d \in ControlCalls : d # c => desk'[d] = desk[d]
         /\ desk'[c].ask = ask /\ desk'[c].wrote = FALSE
         /\ desk'[c].todo = {} /\ desk'[c].gone = {} /\ desk'[c].back = {}
         /\ ask.op = "reload" => desk'[c].earlier = {} /\ desk'[c].at \in {"refresh", "match", "failed"}
         /\ ask.op # "reload" => /\ desk'[c].earlier \subseteq {d \in ControlCalls : desk[d].at \in CallEnds}
                                 /\ desk'[c].at \in {"set", "failed"}
  <1> DEFINE early == IF ask.op = "reload" THEN {}
                      ELSE {d \in Controlling!On_(ask.cell) : desk[d].at \in Controlling!Ended}
             p == CASE Controlling!Refusable(ask) -> "failed"
                    [] ask.op = "reload" -> IF ask.refresh THEN "refresh" ELSE "match"
                    [] OTHER -> "set"
  <1>1. /\ Controlling!Step(c, [Controlling!IdleCall EXCEPT !.ask = ask, !.earlier = early, !.at = p])
        /\ process' = process
    BY DEF Controlling!Begin
  <1>2. /\ ask.op = "reload" => early = {} /\ p \in {"refresh", "match", "failed"}
        /\ ask.op # "reload" => p \in {"set", "failed"}
    OBVIOUS
  <1>3. early \subseteq {d \in ControlCalls : desk[d].at \in CallEnds}
    BY DEF Controlling!On_, Controlling!Writers, Controlling!Ended, CallEnds
  <1> HIDE DEF early, p
  <1>4. /\ Shape' /\ \A d \in ControlCalls : d # c => desk'[d] = desk[d]
        /\ desk'[c].ask = ask /\ desk'[c].earlier = early /\ desk'[c].at = p
        /\ desk'[c].wrote = FALSE /\ desk'[c].todo = {} /\ desk'[c].gone = {} /\ desk'[c].back = {}
    BY <1>1 DEF Shape, Fields, Controlling!Step, Controlling!IdleCall
  <1>5. QED
    BY <1>2, <1>3, <1>4

(* A crash.                                                                *)
LEMMA CrashMoves ==
  ASSUME Shape, Controlling!Crash
  PROVE  /\ Shape' /\ ~process'.up
         /\ process'.persistence = process.persistence /\ process'.starts = process.starts
         /\ \A c \in ControlCalls :
              /\ desk'[c].ask = desk[c].ask /\ desk'[c].earlier = desk[c].earlier
              /\ WroteStays(c) /\ ReloadStays(c)
              /\ desk'[c].at = IF desk[c].at \in CallEnds \cup {"idle"} THEN desk[c].at ELSE "lost"
  BY DEF Shape, Fields, Controlling!Crash, Controlling!Ended, CallEnds, WroteStays, ReloadStays

(* A start of the process.                                                 *)
LEMMA StartMoves ==
  ASSUME Shape, NEW p, NEW s, Controlling!RegisterSysModules(p, s)
  PROVE  /\ Shape' /\ desk' = desk /\ ~process.up /\ process'.up
         /\ process'.starts = process.starts + 1 /\ process'.persistence = p
         /\ process.starts # 0 => p = process.persistence
  BY DEF Shape, Controlling!RegisterSysModules

-----------------------------------------------------------------------------
(* Where a call can be, by its request and by the process.                 *)
CallFollows(c) ==
  /\ desk[c].at \in {"idle"} \cup CallEnds \cup WriterPlaces \cup ReloadPlaces
  /\ IF desk[c].at = "idle" THEN desk[c].ask.op = "none" ELSE desk[c].ask \in Asks[c]
  /\ desk[c].at \in WriterPlaces => desk[c].ask.op \in CellAsks
  /\ desk[c].at \in ReloadPlaces => desk[c].ask.op = "reload"
  /\ desk[c].at = "toggle" => desk[c].ask.op = "toggle"
  /\ desk[c].wrote \in BOOLEAN
  /\ desk[c].wrote => desk[c].at \in {"notify", "audit", "done", "lost"}
  /\ desk[c].at = "write" => process.persistence = "file"
  /\ desk[c].at \in {"load", "save"} => process.persistence # "file"
  /\ ~process.up => desk[c].at \in {"idle"} \cup CallEnds
  /\ process.starts = 0 => desk[c].at = "idle"

(* The calls that were over when c began are over.                         *)
EarlierEnded(c) == desk[c].earlier \subseteq {d \in ControlCalls : desk[d].at \in CallEnds}
CallsFollow == \A c \in ControlCalls : CallFollows(c) /\ EarlierEnded(c)

LEMMA RequestIs ==
  ASSUME NEW c \in ControlCalls, NEW ask \in Asks[c]
  PROVE  /\ ask.op \in {"update", "toggle", "reload"}
         /\ ask.op \in CellAsks => ask.cell \in Controlling!Cells /\ ask.value # Nothing
         /\ ask.op = "update" => ask.cell \in {"config"} \X Keys
         /\ ask.op = "toggle" => ask.cell \in {"toggle"} \X Plain
  BY ControlAssumption DEF ControlAssumption, CellAsks, Controlling!Cells

(* A step of one call leaves the others where they are.                    *)
LEMMA OthersFollow ==
  ASSUME Shape, CallsFollow, NEW c \in ControlCalls, process' = process,
         \A d \in ControlCalls : d # c => desk'[d] = desk[d],
         desk[c].at \notin CallEnds, CallFollows(c)', EarlierEnded(c)'
  PROVE  CallsFollow'
  <1>1. ASSUME NEW d \in ControlCalls, d # c PROVE CallFollows(d)' /\ EarlierEnded(d)'
    BY <1>1 DEF CallsFollow, CallFollows, EarlierEnded
  <1>2. QED
    BY <1>1 DEF CallsFollow

LEMMA ActFollows ==
  ASSUME Shape, CallsFollow, process.up, NEW c \in ControlCalls, Controlling!Act(c)
  PROVE  CallsFollow'
  <1>1. CallFollows(c) /\ EarlierEnded(c)
    BY DEF CallsFollow
  <1>2. process' = process /\ desk[c].at \in WriterPlaces \cup ReloadPlaces
    BY DEF Controlling!Act, Controlling!Update, Controlling!ReadToggle, Controlling!Toggle, Controlling!WriteOverride,
           Controlling!LoadStore, Controlling!SaveStore, Controlling!Notify, Controlling!RecordAudit,
           Controlling!Refresh, Controlling!Match, Controlling!Withdraw, Controlling!Rediscover,
           Controlling!Verify, Controlling!Restore, Controlling!AuditReload, WriterPlaces, ReloadPlaces
  <1>3. desk[c].at \notin CallEnds /\ process.starts # 0
    BY <1>1, <1>2 DEF CallFollows, CallEnds, WriterPlaces, ReloadPlaces
  <1>4. SUFFICES CallFollows(c)' /\ OnlyMoves(c)
    <2>1. ASSUME OnlyMoves(c) PROVE EarlierEnded(c)'
      BY <1>1, <1>3, <2>1 DEF EarlierEnded, OnlyMoves
    <2>2. QED
      BY <1>2, <1>3, <2>1, OthersFollow DEF OnlyMoves
  <1> USE DEF CallFollows, OnlyMoves, WroteStays, CallEnds, WriterPlaces, ReloadPlaces, CellAsks
  <1>5. CASE Controlling!Update(c)
    BY <1>1, <1>2, <1>5, UpdateMoves DEF Controlling!Persisting, Controlling!Update
  <1>6. CASE Controlling!ReadToggle(c)
    BY <1>1, <1>2, <1>6, ReadToggleMoves DEF Controlling!ReadToggle
  <1>7. CASE Controlling!WriteOverride(c)
    BY <1>1, <1>2, <1>7, WriteMoves DEF Controlling!WriteOverride
  <1>8. CASE Controlling!LoadStore(c)
    BY <1>1, <1>2, <1>8, LoadMoves DEF Controlling!LoadStore
  <1>9. CASE Controlling!SaveStore(c)
    BY <1>1, <1>2, <1>9, SaveMoves DEF Controlling!SaveStore
  <1>10. CASE Controlling!Match(c)
    BY <1>1, <1>2, <1>10, MatchMoves DEF Controlling!Match
  <1>11. CASE Controlling!Withdraw(c)
    BY <1>1, <1>2, <1>11, WithdrawMoves DEF Controlling!Withdraw
  <1>12. CASE Controlling!Rediscover(c)
    BY <1>1, <1>2, <1>12, RediscoverMoves DEF Controlling!Rediscover
  <1>13. CASE Controlling!Verify(c)
    BY <1>1, <1>2, <1>13, VerifyMoves DEF Controlling!Verify
  <1>14. CASE Controlling!Restore(c)
    BY <1>1, <1>2, <1>14, RestoreMoves DEF Controlling!Restore
  <1>15. CASE Controlling!Toggle(c)
    BY <1>1, <1>2, <1>15, PlaceMoves DEF Controlling!Persisting, Controlling!Toggle
  <1>16. CASE Controlling!Notify(c)
    BY <1>1, <1>2, <1>16, PlaceMoves DEF Controlling!Notify
  <1>17. CASE Controlling!RecordAudit(c)
    BY <1>1, <1>2, <1>17, PlaceMoves DEF Controlling!RecordAudit
  <1>18. CASE Controlling!Refresh(c)
    BY <1>1, <1>2, <1>18, PlaceMoves DEF Controlling!Refresh
  <1>19. CASE Controlling!AuditReload(c)
    BY <1>1, <1>2, <1>19, PlaceMoves DEF Controlling!AuditReload
  <1>20. QED
    BY <1>5, <1>6, <1>7, <1>8, <1>9, <1>10, <1>11, <1>12, <1>13, <1>14, <1>15, <1>16, <1>17, <1>18, <1>19
       DEF Controlling!Act

LEMMA BeginFollows ==
  ASSUME Shape, CallsFollow, process.up, NEW c \in ControlCalls, NEW ask \in Asks[c], Controlling!Begin(c, ask)
  PROVE  CallsFollow'
  <1>1. CallFollows(c) /\ desk[c].at = "idle" /\ process' = process
    BY DEF CallsFollow, Controlling!Begin
  <1>2. process.starts # 0
    BY DEF Shape
  <1>3. CallFollows(c)'
    <2>1. ask.op = "reload" \/ ask.op \in CellAsks
      BY RequestIs DEF CellAsks
    <2>2. CASE ask.op = "reload"
      BY <1>1, <1>2, <2>2, BeginMoves DEF CallFollows, CallEnds, WriterPlaces, ReloadPlaces, CellAsks
    <2>3. CASE ask.op \in CellAsks
      BY <1>1, <1>2, <2>3, BeginMoves DEF CallFollows, CallEnds, WriterPlaces, ReloadPlaces, CellAsks
    <2>4. QED
      BY <2>1, <2>2, <2>3
  <1>4. EarlierEnded(c)'
    BY <1>1, BeginMoves, RequestIs DEF EarlierEnded, CallEnds
  <1>5. QED
    BY <1>1, <1>3, <1>4, BeginMoves, OthersFollow DEF CallEnds

LEMMA CrashFollows ==
  ASSUME Shape, CallsFollow, Controlling!Crash
  PROVE  CallsFollow'
  BY CrashMoves DEF CallsFollow, CallFollows, EarlierEnded, CallEnds, WriterPlaces, ReloadPlaces, WroteStays

LEMMA StartFollows ==
  ASSUME Shape, CallsFollow, NEW p, NEW s, Controlling!RegisterSysModules(p, s)
  PROVE  CallsFollow'
  <1>1. SUFFICES ASSUME NEW c \in ControlCalls PROVE CallFollows(c)' /\ EarlierEnded(c)'
    BY DEF CallsFollow
  <1>2. CallFollows(c) /\ EarlierEnded(c) /\ ~process.up /\ desk' = desk /\ process'.starts # 0
    BY StartMoves DEF CallsFollow, Shape
  <1>3. EarlierEnded(c)'
    BY <1>2 DEF EarlierEnded
  <1>4. CallFollows(c)'
    BY <1>2 DEF CallFollows, CallEnds, WriterPlaces, ReloadPlaces
  <1>5. QED
    BY <1>3, <1>4

-----------------------------------------------------------------------------
(* The overrides that are kept.                                            *)
FileInv ==
  /\ process.starts = 0 => DOMAIN overrides = {}
  /\ process.persistence = "file" => DOMAIN overrides \subseteq Controlling!Cells
  /\ Controlling!LatestIsKept

(* Nothing is written.                                                     *)
LEMMA FileStays ==
  ASSUME FileInv, overrides' = overrides, process'.persistence = process.persistence,
         process'.starts = 0 => process.starts = 0,
         \A d \in ControlCalls :
           /\ desk'[d].wrote = desk[d].wrote
           /\ desk[d].wrote => desk'[d].ask = desk[d].ask /\ desk'[d].earlier = desk[d].earlier
  PROVE  FileInv'
  <1>1. \A cell \in Controlling!Cells : Controlling!Wrote(cell)' = Controlling!Wrote(cell)
    BY DEF Controlling!Wrote, Controlling!On_, Controlling!Writers
  <1>2. \A cell \in Controlling!Cells : \A c \in Controlling!Wrote(cell) :
          desk'[c].ask = desk[c].ask /\ desk'[c].earlier = desk[c].earlier
    BY DEF Controlling!Wrote, Controlling!On_, Controlling!Writers
  <1>3. Controlling!LatestIsKept'
    BY <1>1, <1>2 DEF FileInv, Controlling!LatestIsKept
  <1>4. Controlling!Cells' = Controlling!Cells
    BY DEF Controlling!Cells
  <1>5. QED
    BY <1>3, <1>4 DEF FileInv

(* An override is written: its call is the latest, since none that began   *)
(* later is over, and it supersedes those that were over when it began.    *)
LEMMA FileWritten ==
  ASSUME Shape, CallsFollow, FileInv, NEW c \in ControlCalls, process' = process,
         desk[c].at = "write", OnlyMoves(c), desk'[c].wrote,
         overrides' = Controlling!Insert(overrides, desk[c].ask.cell, desk[c].ask.value)
  PROVE  FileInv'
  <1> DEFINE mine == desk[c].ask.cell
  <1>1. CallFollows(c) /\ desk[c].at \in WriterPlaces
    BY DEF CallsFollow, WriterPlaces
  <1>2. desk[c].ask.op \in CellAsks /\ mine \in Controlling!Cells /\ process.starts # 0 /\ process.persistence = "file"
    BY <1>1, RequestIs DEF CallFollows, WriterPlaces
  <1>3. /\ DOMAIN overrides' = DOMAIN overrides \cup {mine}
        /\ overrides'[mine] = desk[c].ask.value
        /\ \A cell \in DOMAIN overrides : cell # mine => overrides'[cell] = overrides[cell]
    BY DEF Controlling!Insert
  <1>4. \A cell \in Controlling!Cells :
          Controlling!Wrote(cell)' = IF cell = mine THEN Controlling!Wrote(cell) \cup {c} ELSE Controlling!Wrote(cell)
    BY <1>2 DEF Controlling!Wrote, Controlling!On_, Controlling!Writers, OnlyMoves, CellAsks
  <1>5. \A d \in ControlCalls : desk'[d].ask = desk[d].ask /\ desk'[d].earlier = desk[d].earlier
    BY DEF OnlyMoves
  <1>6. \A d \in ControlCalls : c \notin desk'[d].earlier
    BY <1>5 DEF CallsFollow, EarlierEnded, CallEnds
  <1>7. \A cell \in Controlling!Cells : Controlling!Wrote(cell) \subseteq ControlCalls
    BY DEF Controlling!Wrote, Controlling!On_, Controlling!Writers
  <1>8. Controlling!Cells' = Controlling!Cells
    BY DEF Controlling!Cells
  <1> HIDE DEF mine
  <1>9. ASSUME NEW cell \in Controlling!Cells
        PROVE  /\ Controlling!Wrote(cell)' # {} =>
                    cell \in DOMAIN overrides'
                    /\ \E e \in Controlling!Wrote(cell)' :
                         /\ overrides'[cell] = desk'[e].ask.value
                         /\ \A d \in Controlling!Wrote(cell)' : e \notin desk'[d].earlier
               /\ cell \in DOMAIN overrides' => \E e \in Controlling!Wrote(cell)' : overrides'[cell] = desk'[e].ask.value
    <2>1. CASE cell = mine
      <3>1. c \in Controlling!Wrote(cell)' /\ Controlling!Wrote(cell)' \subseteq ControlCalls
        BY <1>4, <1>7, <2>1
      <3>2. overrides'[cell] = desk'[c].ask.value /\ cell \in DOMAIN overrides'
        BY <1>3, <1>5, <2>1
      <3>3. QED
        BY <1>6, <3>1, <3>2
    <2>2. CASE cell # mine
      <3>1. /\ Controlling!Wrote(cell)' = Controlling!Wrote(cell)
            /\ cell \in DOMAIN overrides' <=> cell \in DOMAIN overrides
            /\ cell \in DOMAIN overrides => overrides'[cell] = overrides[cell]
        BY <1>3, <1>4, <2>2
      <3>2. /\ Controlling!Wrote(cell) # {} =>
                 cell \in DOMAIN overrides
                 /\ \E e \in Controlling!Wrote(cell) :
                      /\ overrides[cell] = desk[e].ask.value
                      /\ \A d \in Controlling!Wrote(cell) : e \notin desk[d].earlier
            /\ cell \in DOMAIN overrides => \E e \in Controlling!Wrote(cell) : overrides[cell] = desk[e].ask.value
        BY <1>2 DEF FileInv, Controlling!LatestIsKept
      <3>3. QED
        BY <1>5, <1>7, <3>1, <3>2
    <2>3. QED
      BY <2>1, <2>2
  <1>10. Controlling!LatestIsKept'
    BY <1>8, <1>9 DEF Controlling!LatestIsKept
  <1>11. QED
    BY <1>2, <1>3, <1>8, <1>10 DEF FileInv

LEMMA ActKeepsFile ==
  ASSUME Shape, CallsFollow, FileInv, NEW c \in ControlCalls, Controlling!Act(c)
  PROVE  FileInv'
  <1>1. CASE Controlling!WriteOverride(c)
    <2>1. CallFollows(c) /\ desk[c].at = "write" /\ process' = process
      BY <1>1 DEF CallsFollow, Controlling!WriteOverride
    <2>2. CASE desk'[c].wrote
      BY <1>1, <2>1, <2>2, WriteMoves, FileWritten
    <2>3. CASE ~desk'[c].wrote
      <3>1. desk'[c].wrote = desk[c].wrote /\ overrides' = overrides
        BY <1>1, <2>1, <2>3, WriteMoves DEF CallFollows
      <3>2. QED
        BY <1>1, <2>1, <3>1, WriteMoves, FileStays DEF OnlyMoves
    <2>4. QED
      BY <2>2, <2>3
  <1>2. CASE Controlling!SaveStore(c)
    <2>1. process' = process /\ process.persistence # "file" /\ process.starts # 0
      BY <1>2 DEF Controlling!SaveStore, CallsFollow, CallFollows
    <2>2. QED
      BY <2>1 DEF FileInv, Controlling!LatestIsKept
  <1>3. ASSUME UNCHANGED <<overrides, process>>, OnlyMoves(c), WroteStays(c) PROVE FileInv'
    BY <1>3, FileStays DEF OnlyMoves, WroteStays
  <1>4. CASE Controlling!Update(c)
    BY <1>3, <1>4, UpdateMoves DEF Controlling!Update
  <1>5. CASE Controlling!ReadToggle(c)
    BY <1>3, <1>5, ReadToggleMoves DEF Controlling!ReadToggle
  <1>6. CASE Controlling!LoadStore(c)
    BY <1>3, <1>6, LoadMoves DEF Controlling!LoadStore
  <1>7. CASE Controlling!Match(c)
    BY <1>3, <1>7, MatchMoves DEF Controlling!Match
  <1>8. CASE Controlling!Withdraw(c)
    BY <1>3, <1>8, WithdrawMoves DEF Controlling!Withdraw
  <1>9. CASE Controlling!Rediscover(c)
    BY <1>3, <1>9, RediscoverMoves DEF Controlling!Rediscover
  <1>10. CASE Controlling!Verify(c)
    BY <1>3, <1>10, VerifyMoves DEF Controlling!Verify
  <1>11. CASE Controlling!Restore(c)
    BY <1>3, <1>11, RestoreMoves DEF Controlling!Restore
  <1>12. CASE Controlling!Toggle(c) \/ Controlling!Notify(c) \/ Controlling!RecordAudit(c)
              \/ Controlling!Refresh(c) \/ Controlling!AuditReload(c)
    BY <1>3, <1>12, PlaceMoves
       DEF Controlling!Toggle, Controlling!Notify, Controlling!RecordAudit, Controlling!Refresh, Controlling!AuditReload
  <1>13. QED
    BY <1>1, <1>2, <1>4, <1>5, <1>6, <1>7, <1>8, <1>9, <1>10, <1>11, <1>12 DEF Controlling!Act

LEMMA BeginKeepsFile ==
  ASSUME Shape, CallsFollow, FileInv, NEW c \in ControlCalls, NEW ask \in Asks[c], Controlling!Begin(c, ask)
  PROVE  FileInv'
  <1>1. UNCHANGED <<overrides, process>> /\ desk[c].at = "idle"
    BY DEF Controlling!Begin
  <1>2. desk[c].wrote = FALSE
    BY <1>1 DEF CallsFollow, CallFollows
  <1>3. QED
    BY <1>1, <1>2, BeginMoves, FileStays

LEMMA CrashKeepsFile ==
  ASSUME Shape, FileInv, Controlling!Crash
  PROVE  FileInv'
  <1>1. overrides' = overrides
    BY DEF Controlling!Crash
  <1>2. QED
    BY <1>1, CrashMoves, FileStays DEF WroteStays

LEMMA StartKeepsFile ==
  ASSUME Shape, CallsFollow, FileInv, NEW p, NEW s, Controlling!RegisterSysModules(p, s)
  PROVE  FileInv'
  <1>1. overrides' = overrides /\ desk' = desk /\ process'.starts # 0
    BY StartMoves DEF Controlling!RegisterSysModules, Shape
  <1>2. CASE process.starts # 0
    BY <1>1, <1>2, StartMoves, FileStays
  <1>3. CASE process.starts = 0
    <2>1. DOMAIN overrides' = {} /\ \A c \in ControlCalls : desk'[c].wrote = FALSE
      BY <1>1, <1>3 DEF CallsFollow, CallFollows, FileInv
    <2>2. \A cell : Controlling!Wrote(cell)' = {}
      BY <2>1 DEF Controlling!Wrote, Controlling!On_, Controlling!Writers
    <2>3. QED
      BY <1>1, <2>1, <2>2 DEF FileInv, Controlling!LatestIsKept
  <1>4. QED
    BY <1>2, <1>3

-----------------------------------------------------------------------------
(* Memory and file.                                                        *)
HasValue(cell, value) ==
  IF cell[1] = "config" THEN live[cell[2]] = value ELSE (cell[2] \in disabled) = (value \notin Truthy)
Serving == process.up /\ process.persistence = "file" /\ "control" \in installed

(* A call that leaves its cell as it is in memory, or has written it.      *)
Settled(c) == desk[c].at \in {"set", "toggle", "failed", "lost"} \/ desk[c].wrote

(* Where calls did not overlap, memory has the value that is about to be   *)
(* written, and otherwise the one in the file.                             *)
CellInv(cell) ==
  Serving /\ Controlling!Sequential(cell) /\ cell \notin refreshed =>
    /\ \A c \in Controlling!On_(cell) : desk[c].at = "write" => HasValue(cell, desk[c].ask.value)
    /\ cell \in DOMAIN overrides /\ (\A c \in Controlling!On_(cell) : Settled(c)) => HasValue(cell, overrides[cell])
MemoryInv == \A cell \in Controlling!Cells : CellInv(cell)

LEMMA CellIs ==
  ASSUME NEW cell \in Controlling!Cells
  PROVE  \/ cell[1] = "config" /\ cell[2] \in Keys /\ cell = <<"config", cell[2]>>
         \/ cell[1] = "toggle" /\ cell[2] \in Plain /\ cell = <<"toggle", cell[2]>>
  BY DEF Controlling!Cells

(* The cell is as it was in memory and on disk, and so are its calls, but  *)
(* for one that joins or goes a step that does not touch the cell.         *)
SameCell(cell) ==
  /\ Serving' => Serving
  /\ cell \notin refreshed' => cell \notin refreshed
  /\ IF cell[1] = "config" THEN live'[cell[2]] = live[cell[2]] ELSE (cell[2] \in disabled') = (cell[2] \in disabled)
  /\ overrides' = overrides

LEMMA CellStays ==
  ASSUME NEW cell \in Controlling!Cells, CellInv(cell), SameCell(cell),
         \A d \in Controlling!On_(cell) :
           /\ d \in Controlling!On_(cell)' /\ desk'[d].ask = desk[d].ask /\ desk'[d].earlier = desk[d].earlier
           /\ desk'[d].at = "write" => desk[d].at = "write"
           /\ Settled(d)' => Settled(d),
         \A d \in Controlling!On_(cell)' : d \notin Controlling!On_(cell) => desk'[d].at # "write"
  PROVE  CellInv(cell)'
  <1>1. Controlling!Sequential(cell)' => Controlling!Sequential(cell)
    BY DEF Controlling!Sequential
  <1>2. \A v : HasValue(cell, v)' <=> HasValue(cell, v)
    BY DEF HasValue, SameCell
  <1>3. SUFFICES ASSUME Serving', Controlling!Sequential(cell)', cell \notin refreshed'
                 PROVE  /\ \A d \in Controlling!On_(cell)' : desk'[d].at = "write" => HasValue(cell, desk[d].ask.value)'
                        /\ cell \in DOMAIN overrides' /\ (\A d \in Controlling!On_(cell)' : Settled(d)')
                             => HasValue(cell, overrides[cell])'
    BY DEF CellInv
  <1>4. /\ \A c \in Controlling!On_(cell) : desk[c].at = "write" => HasValue(cell, desk[c].ask.value)
        /\ cell \in DOMAIN overrides /\ (\A c \in Controlling!On_(cell) : Settled(c)) => HasValue(cell, overrides[cell])
    BY <1>1, <1>3 DEF CellInv, SameCell
  <1>5. ASSUME NEW d \in Controlling!On_(cell)', desk'[d].at = "write" PROVE HasValue(cell, desk[d].ask.value)'
    <2>1. d \in Controlling!On_(cell) /\ desk[d].at = "write" /\ desk'[d].ask.value = desk[d].ask.value
      BY <1>5
    <2>2. QED
      BY <1>2, <1>4, <2>1 DEF HasValue
  <1>6. ASSUME cell \in DOMAIN overrides', \A d \in Controlling!On_(cell)' : Settled(d)'
        PROVE  HasValue(cell, overrides[cell])'
    <2>1. HasValue(cell, overrides[cell]) /\ overrides' = overrides
      BY <1>4, <1>6 DEF SameCell
    <2>2. QED
      BY <1>2, <2>1 DEF HasValue
  <1>7. QED
    BY <1>5, <1>6

(* A step of a call leaves the cells of the others alone.                  *)
LEMMA CellElsewhere ==
  ASSUME NEW c \in ControlCalls, OnlyMoves(c), NEW cell \in Controlling!Cells, CellInv(cell), SameCell(cell),
         c \notin Controlling!On_(cell)
  PROVE  CellInv(cell)'
  <1>1. Controlling!On_(cell)' = Controlling!On_(cell)
    BY DEF Controlling!On_, Controlling!Writers, OnlyMoves
  <1>2. \A d \in Controlling!On_(cell) : d \in ControlCalls /\ desk'[d] = desk[d]
    BY DEF Controlling!On_, Controlling!Writers, OnlyMoves
  <1>3. QED
    BY <1>1, <1>2, CellStays DEF Settled

(* A step of a call that neither sets nor writes its cell.                 *)
LEMMA CellHere ==
  ASSUME NEW c \in ControlCalls, OnlyMoves(c), NEW cell \in Controlling!Cells, CellInv(cell), SameCell(cell),
         c \in Controlling!On_(cell) => desk'[c].at # "write" /\ (Settled(c)' => Settled(c))
  PROVE  CellInv(cell)'
  <1>1. Controlling!On_(cell)' = Controlling!On_(cell)
    BY DEF Controlling!On_, Controlling!Writers, OnlyMoves
  <1>2. \A d \in Controlling!On_(cell) : d \in ControlCalls /\ (d # c => desk'[d] = desk[d])
    BY DEF Controlling!On_, Controlling!Writers, OnlyMoves
  <1>3. \A d \in Controlling!On_(cell) : desk'[d].ask = desk[d].ask /\ desk'[d].earlier = desk[d].earlier
    BY <1>2 DEF OnlyMoves
  <1>4. \A d \in Controlling!On_(cell) : (desk'[d].at = "write" => desk[d].at = "write") /\ (Settled(d)' => Settled(d))
    BY <1>2 DEF Settled
  <1>5. QED
    BY <1>1, <1>3, <1>4, CellStays

(* Two calls on a cell that are both under way overlap.                    *)
LEMMA NoOverlap ==
  ASSUME CallsFollow, NEW cell, Controlling!Sequential(cell),
         NEW c \in Controlling!On_(cell), NEW d \in Controlling!On_(cell),
         desk[c].at \notin CallEnds, desk[d].at \notin CallEnds
  PROVE  c = d
  <1>1. c \in ControlCalls /\ d \in ControlCalls
    BY DEF Controlling!On_, Controlling!Writers
  <1>2. c \notin desk[d].earlier /\ d \notin desk[c].earlier
    BY <1>1 DEF CallsFollow, EarlierEnded
  <1>3. QED
    BY <1>2 DEF Controlling!Sequential

(* A call sets its cell in memory, and goes on to write it.                *)
LEMMA CellSet ==
  ASSUME CallsFollow, NEW c \in ControlCalls, desk[c].at \in {"set", "toggle"}, OnlyMoves(c), WroteStays(c),
         NEW cell, NEW value, desk[c].ask.cell = cell, desk[c].ask.value = value,
         process' = process, desk'[c].at = Controlling!Persisting, HasValue(cell, value)'
  PROVE  CellInv(cell)'
  <1>1. Controlling!On_(cell)' = Controlling!On_(cell) /\ c \in Controlling!On_(cell)
    BY DEF Controlling!On_, Controlling!Writers, OnlyMoves, CallsFollow, CallFollows, WriterPlaces, CellAsks
  <1>2. Controlling!Sequential(cell)' => Controlling!Sequential(cell)
    BY <1>1 DEF Controlling!Sequential, OnlyMoves, Controlling!On_, Controlling!Writers
  <1>3. SUFFICES ASSUME Serving', Controlling!Sequential(cell)'
                 PROVE  /\ \A d \in Controlling!On_(cell)' : desk'[d].at = "write" => d = c
                        /\ \E d \in Controlling!On_(cell)' : ~Settled(d)'
    BY DEF CellInv, OnlyMoves, HasValue
  <1>4. ASSUME NEW d \in Controlling!On_(cell)', desk'[d].at = "write" PROVE d = c
    <2>1. CASE d # c
      <3>1. desk[d].at = "write"
        BY <1>1, <1>4, <2>1 DEF OnlyMoves, Controlling!On_, Controlling!Writers
      <3>2. QED
        BY <1>1, <1>2, <1>3, <3>1, NoOverlap DEF CallEnds
    <2>2. QED
      BY <2>1
  <1>5. ~Settled(c)'
    <2>1. desk'[c].at = "write"
      BY <1>3 DEF Serving, Controlling!Persisting
    <2>2. desk'[c].wrote = FALSE
      BY DEF CallsFollow, CallFollows, WroteStays
    <2>3. QED
      BY <2>1, <2>2 DEF Settled
  <1>6. QED
    BY <1>1, <1>4, <1>5

(* An update in memory, legal or undone.                                   *)
LEMMA UpdateKeepsMemory ==
  ASSUME Shape, CallsFollow, FileInv, MemoryInv, live = [k \in Keys |-> live[k]],
         NEW c \in ControlCalls, Controlling!Update(c)
  PROVE  MemoryInv'
  <1>1. CallFollows(c) /\ desk[c].at = "set" /\ desk[c].ask.op = "update" /\ desk[c].ask \in Asks[c]
    BY DEF CallsFollow, CallFollows, Controlling!Update
  <1>2. PICK mine \in Controlling!Cells, key \in Keys, value \in {desk[c].ask.value} :
          /\ desk[c].ask.cell = mine /\ desk[c].ask.value = value /\ value # Nothing
          /\ mine = <<"config", key>>
    <2>1. desk[c].ask.cell \in {"config"} \X Keys /\ desk[c].ask.value # Nothing
      BY <1>1, RequestIs DEF CellAsks
    <2>2. QED
      BY <2>1 DEF Controlling!Cells
  <1>3. /\ UNCHANGED <<process, overrides, disabled, installed>> /\ OnlyMoves(c) /\ WroteStays(c)
        /\ desk'[c].at = IF Legal(key, value) THEN Controlling!Persisting ELSE "failed"
    <2>1. desk[c].ask.cell[2] = key
      BY <1>2
    <2>2. QED
      BY <1>2, <2>1, UpdateMoves DEF Controlling!Update
  <1>4. mine[1] = "config" /\ mine[2] = key
    BY <1>2
  <1>5. ASSUME NEW cell \in Controlling!Cells, cell # mine PROVE CellInv(cell)'
    <2>1. c \notin Controlling!On_(cell)
      BY <1>2, <1>5 DEF Controlling!On_
    <2>2. cell[1] = "config" => cell[2] # key
      BY <1>2, <1>4, <1>5, CellIs
    <2>3. cell[1] = "config" => live'[cell[2]] = live[cell[2]]
      BY <1>2, <1>5, <2>2, CellIs DEF Controlling!Update
    <2>4. cell \notin refreshed' => cell \notin refreshed
      BY <1>2, <1>5 DEF Controlling!Update
    <2>5. SameCell(cell)
      BY <1>3, <2>3, <2>4 DEF SameCell, Serving
    <2>6. QED
      BY <1>3, <1>5, <2>1, <2>5, CellElsewhere DEF MemoryInv
  <1>6. CASE Legal(key, value)
    <2>1. live'[key] = value
      BY <1>2, <1>6 DEF Controlling!Update
    <2>2. HasValue(mine, value)'
      BY <1>3, <1>4, <2>1 DEF HasValue
    <2>3. CellInv(mine)'
      BY <1>1, <1>2, <1>3, <1>6, <2>2, CellSet
    <2>4. QED
      BY <1>2, <1>5, <2>3 DEF MemoryInv, Controlling!Cells
  <1>7. CASE ~Legal(key, value)
    <2>1. desk'[c].at = "failed" /\ refreshed' = refreshed
      BY <1>2, <1>3, <1>7 DEF Controlling!Update
    <2>2. CASE live[key] # Nothing
      <3>1. live'[key] = live[key]
        BY <1>2, <1>7, <2>2 DEF Controlling!Update
      <3>2. SameCell(mine)
        BY <1>3, <1>4, <2>1, <3>1 DEF SameCell, Serving
      <3>3. Settled(c)
        BY <1>1 DEF Settled
      <3>4. CellInv(mine)'
        BY <1>2, <1>3, <2>1, <3>2, <3>3, CellHere DEF MemoryInv
      <3>5. QED
        BY <1>5, <3>4 DEF MemoryInv, Controlling!Cells
    <2>3. CASE live[key] = Nothing
      <3>1. Controlling!On_(mine)' = Controlling!On_(mine) /\ c \in Controlling!On_(mine)
        BY <1>1, <1>2, <1>3 DEF Controlling!On_, Controlling!Writers, OnlyMoves
      <3>2. Controlling!Sequential(mine)' => Controlling!Sequential(mine)
        BY <1>3, <3>1 DEF Controlling!Sequential, OnlyMoves, Controlling!On_, Controlling!Writers
      <3>3. SUFFICES ASSUME Serving', Controlling!Sequential(mine)', mine \notin refreshed'
                     PROVE  /\ \A d \in Controlling!On_(mine)' : desk'[d].at # "write"
                            /\ mine \in DOMAIN overrides => \E d \in Controlling!On_(mine)' : ~Settled(d)'
        <4>1. CellInv(mine)'
          BY <1>3, <3>3 DEF CellInv, OnlyMoves
        <4>2. QED
          BY <1>5, <4>1 DEF MemoryInv, Controlling!Cells
      <3>4. ASSUME NEW d \in Controlling!On_(mine)', desk'[d].at = "write" PROVE FALSE
        <4>1. d # c /\ desk[d].at = "write"
          BY <1>3, <2>1, <3>1, <3>4 DEF OnlyMoves, Controlling!On_, Controlling!Writers
        <4>2. QED
          BY <1>1, <3>1, <3>2, <3>3, <4>1, NoOverlap DEF CallEnds
      <3>5. ASSUME mine \in DOMAIN overrides, \A d \in Controlling!On_(mine)' : Settled(d)' PROVE FALSE
        <4>1. Settled(c)
          BY <1>1 DEF Settled
        <4>2. \A d \in Controlling!On_(mine) : Settled(d)
          BY <1>3, <3>1, <3>5, <4>1 DEF OnlyMoves, Settled, Controlling!On_, Controlling!Writers
        <4>3. Serving
          BY <1>3, <3>3 DEF Serving
        <4>4. HasValue(mine, overrides[mine])
          BY <1>2, <2>1, <3>2, <3>3, <3>5, <4>2, <4>3 DEF MemoryInv, CellInv
        <4>5. overrides[mine] = Nothing
          BY <1>4, <2>3, <4>4 DEF HasValue
        <4>6. PICK e \in Controlling!Wrote(mine) : overrides[mine] = desk[e].ask.value
          BY <1>2, <3>5, <4>3 DEF FileInv, Controlling!LatestIsKept, Serving
        <4>7. e \in ControlCalls /\ desk[e].wrote /\ desk[e].ask.op \in CellAsks
          BY DEF Controlling!Wrote, Controlling!On_, Controlling!Writers, CellAsks
        <4>8. desk[e].ask \in Asks[e]
          BY <4>7 DEF CallsFollow, CallFollows
        <4>9. QED
          BY <4>5, <4>6, <4>7, <4>8, RequestIs
      <3>6. QED
        BY <3>4, <3>5
    <2>4. QED
      BY <2>2, <2>3
  <1>8. QED
    BY <1>6, <1>7

LEMMA ToggleKeepsMemory ==
  ASSUME Shape, CallsFollow, MemoryInv, NEW c \in ControlCalls, Controlling!Toggle(c)
  PROVE  MemoryInv'
  <1>1. CallFollows(c) /\ desk[c].at = "toggle" /\ desk[c].ask.op = "toggle" /\ desk[c].ask \in Asks[c]
    BY DEF CallsFollow, CallFollows, Controlling!Toggle
  <1>2. PICK mine \in Controlling!Cells, m \in Plain, value \in {desk[c].ask.value} :
          desk[c].ask.cell = mine /\ desk[c].ask.value = value /\ mine = <<"toggle", m>>
    <2>1. desk[c].ask.cell \in {"toggle"} \X Plain
      BY <1>1, RequestIs
    <2>2. QED
      BY <2>1 DEF Controlling!Cells
  <1>3. /\ UNCHANGED <<process, overrides, live, installed, refreshed>> /\ OnlyMoves(c) /\ WroteStays(c)
        /\ desk'[c].at = Controlling!Persisting
        /\ disabled' = IF value \in Truthy THEN disabled \ {m} ELSE disabled \cup {m}
    BY <1>2, PlaceMoves DEF Controlling!Toggle
  <1>4. HasValue(mine, value)'
    BY <1>2, <1>3 DEF HasValue
  <1>5. CellInv(mine)'
    BY <1>1, <1>2, <1>3, <1>4, CellSet
  <1>6. ASSUME NEW cell \in Controlling!Cells, cell # mine PROVE CellInv(cell)'
    <2>1. c \notin Controlling!On_(cell)
      BY <1>2, <1>6 DEF Controlling!On_
    <2>2. SameCell(cell)
      BY <1>2, <1>3, <1>6, CellIs DEF SameCell, Serving
    <2>3. QED
      BY <1>3, <2>1, <2>2, CellElsewhere DEF MemoryInv
  <1>7. QED
    BY <1>5, <1>6 DEF MemoryInv, Controlling!Cells

(* What is written is what the call set, since no other call came between. *)
LEMMA WriteKeepsMemory ==
  ASSUME Shape, CallsFollow, MemoryInv, NEW c \in ControlCalls, Controlling!WriteOverride(c)
  PROVE  MemoryInv'
  <1>1. CallFollows(c) /\ desk[c].at = "write" /\ desk[c].ask.op \in CellAsks /\ desk[c].ask \in Asks[c]
    BY DEF CallsFollow, CallFollows, WriterPlaces, Controlling!WriteOverride
  <1>2. PICK mine \in Controlling!Cells, value \in {desk[c].ask.value} :
          desk[c].ask.cell = mine /\ desk[c].ask.value = value
    BY <1>1, RequestIs
  <1>3. /\ UNCHANGED <<process, disabled, live, installed, refreshed>> /\ OnlyMoves(c)
        /\ desk'[c].at = "notify" /\ desk'[c].wrote \in BOOLEAN
        /\ overrides' = IF desk'[c].wrote THEN Controlling!Insert(overrides, mine, value) ELSE overrides
    BY <1>2, WriteMoves DEF Controlling!WriteOverride
  <1>4. Controlling!On_(mine)' = Controlling!On_(mine) /\ c \in Controlling!On_(mine)
    BY <1>1, <1>2, <1>3 DEF Controlling!On_, Controlling!Writers, OnlyMoves, CellAsks
  <1>5. ASSUME ~desk'[c].wrote PROVE MemoryInv'
    <2>1. ASSUME NEW cell \in Controlling!Cells PROVE CellInv(cell)'
      <3>1. SameCell(cell)
        BY <1>3, <1>5 DEF SameCell, Serving
      <3>2. ~Settled(c)' /\ desk'[c].at # "write"
        BY <1>3, <1>5 DEF Settled
      <3>3. QED
        BY <1>3, <3>1, <3>2, CellHere DEF MemoryInv
    <2>2. QED
      BY <2>1 DEF MemoryInv, Controlling!Cells
  <1>6. ASSUME desk'[c].wrote PROVE MemoryInv'
    <2>1. /\ overrides'[mine] = value
          /\ \A cell \in DOMAIN overrides' : cell # mine => cell \in DOMAIN overrides /\ overrides'[cell] = overrides[cell]
      BY <1>3, <1>6 DEF Controlling!Insert
    <2>2. CellInv(mine)'
      <3>1. SUFFICES ASSUME Serving', Controlling!Sequential(mine)', mine \notin refreshed'
                     PROVE  /\ \A d \in Controlling!On_(mine)' : desk'[d].at = "write" => FALSE
                            /\ HasValue(mine, value)'
        BY <2>1 DEF CellInv, HasValue
      <3>2. Controlling!Sequential(mine)
        BY <1>3, <1>4, <3>1 DEF Controlling!Sequential, OnlyMoves, Controlling!On_, Controlling!Writers
      <3>3. HasValue(mine, value)
        BY <1>1, <1>2, <1>3, <1>4, <3>1, <3>2 DEF MemoryInv, CellInv, Serving
      <3>4. HasValue(mine, value)'
        BY <1>3, <3>3 DEF HasValue
      <3>5. ASSUME NEW d \in Controlling!On_(mine)', desk'[d].at = "write" PROVE FALSE
        <4>1. d # c /\ desk[d].at = "write" /\ d \in Controlling!On_(mine)
          BY <1>3, <1>4, <3>5 DEF OnlyMoves, Controlling!On_, Controlling!Writers
        <4>2. QED
          BY <1>1, <1>4, <3>2, <4>1, NoOverlap DEF CallEnds
      <3>6. QED
        BY <3>4, <3>5
    <2>3. ASSUME NEW cell \in Controlling!Cells, cell # mine PROVE CellInv(cell)'
      <3>1. Controlling!On_(cell)' = Controlling!On_(cell)
        BY <1>3 DEF Controlling!On_, Controlling!Writers, OnlyMoves
      <3>2. \A d \in Controlling!On_(cell) : d \in ControlCalls /\ d # c
        BY <1>2, <2>3 DEF Controlling!On_, Controlling!Writers
      <3>3. \A d \in Controlling!On_(cell) : desk'[d] = desk[d]
        BY <1>3, <3>2 DEF OnlyMoves
      <3>4. Controlling!Sequential(cell)' => Controlling!Sequential(cell)
        BY <3>1, <3>3 DEF Controlling!Sequential
      <3>5. CellInv(cell)
        BY DEF MemoryInv
      <3>6. QED
        BY <1>3, <2>1, <2>3, <3>1, <3>3, <3>4, <3>5 DEF CellInv, Serving, HasValue, Settled
    <2>4. QED
      BY <2>2, <2>3 DEF MemoryInv, Controlling!Cells
  <1>7. QED
    BY <1>5, <1>6

(* A config reload takes the cells of the configuration back.              *)
LEMMA RefreshKeepsMemory ==
  ASSUME Shape, MemoryInv, NEW c \in ControlCalls, Controlling!Refresh(c)
  PROVE  MemoryInv'
  <1>1. /\ UNCHANGED <<process, overrides, disabled, installed>> /\ OnlyMoves(c) /\ WroteStays(c)
        /\ desk[c].at = "refresh" /\ desk'[c].at \in {"done", "match"}
    BY PlaceMoves DEF Controlling!Refresh
  <1>2. ASSUME NEW cell \in Controlling!Cells PROVE CellInv(cell)'
    <2>1. CASE cell \in refreshed'
      BY <2>1 DEF CellInv
    <2>2. CASE cell \notin refreshed'
      <3>1. cell \notin refreshed /\ (cell[1] = "config" => live' = live)
        BY <2>2, CellIs DEF Controlling!Refresh
      <3>2. SameCell(cell)
        BY <1>1, <3>1 DEF SameCell, Serving
      <3>3. Settled(c)' => Settled(c)
        BY <1>1 DEF Settled, WroteStays
      <3>4. QED
        BY <1>1, <3>2, <3>3, CellHere DEF MemoryInv
    <2>3. QED
      BY <2>1, <2>2
  <1>3. QED
    BY <1>2 DEF MemoryInv, Controlling!Cells

LEMMA ActKeepsMemory ==
  ASSUME Shape, CallsFollow, FileInv, MemoryInv, live = [k \in Keys |-> live[k]],
         NEW c \in ControlCalls, Controlling!Act(c)
  PROVE  MemoryInv'
  <1>1. CallFollows(c)
    BY DEF CallsFollow
  <1>2. ASSUME UNCHANGED <<process, overrides, live, disabled, installed, refreshed>>, OnlyMoves(c), WroteStays(c),
               desk'[c].at # "write",
               desk[c].at \in ReloadPlaces \/ (desk'[c].at \in {"set", "toggle", "failed", "lost"} => desk[c].at \in {"set", "toggle"})
        PROVE  MemoryInv'
    <2>1. ASSUME NEW cell \in Controlling!Cells PROVE CellInv(cell)'
      <3>1. SameCell(cell)
        BY <1>2 DEF SameCell, Serving
      <3>2. CASE desk[c].at \in ReloadPlaces
        <4>1. c \notin Controlling!On_(cell)
          BY <1>1, <3>2 DEF CallFollows, Controlling!On_, Controlling!Writers
        <4>2. QED
          BY <1>2, <3>1, <4>1, CellElsewhere DEF MemoryInv
      <3>3. CASE desk[c].at \notin ReloadPlaces
        <4>1. Settled(c)' => Settled(c)
          BY <1>2, <3>3 DEF Settled, WroteStays
        <4>2. QED
          BY <1>2, <3>1, <4>1, CellHere DEF MemoryInv
      <3>4. QED
        BY <3>2, <3>3
    <2>2. QED
      BY <2>1 DEF MemoryInv, Controlling!Cells
  <1>3. CASE Controlling!LoadStore(c) \/ Controlling!SaveStore(c)
    <2>1. process' = process /\ process.persistence # "file"
      BY <1>1, <1>3 DEF CallFollows, Controlling!LoadStore, Controlling!SaveStore
    <2>2. QED
      BY <2>1 DEF MemoryInv, CellInv, Serving
  <1>4. CASE Controlling!ReadToggle(c)
    BY <1>2, <1>4, ReadToggleMoves DEF Controlling!ReadToggle
  <1>5. CASE Controlling!Match(c)
    BY <1>2, <1>5, MatchMoves DEF Controlling!Match, ReloadPlaces
  <1>6. CASE Controlling!Withdraw(c)
    BY <1>2, <1>6, WithdrawMoves DEF Controlling!Withdraw, ReloadPlaces
  <1>7. CASE Controlling!Rediscover(c)
    BY <1>2, <1>7, RediscoverMoves DEF Controlling!Rediscover, ReloadPlaces
  <1>8. CASE Controlling!Verify(c)
    BY <1>2, <1>8, VerifyMoves DEF Controlling!Verify, ReloadPlaces
  <1>9. CASE Controlling!Restore(c)
    BY <1>2, <1>9, RestoreMoves DEF Controlling!Restore, ReloadPlaces
  <1>10. CASE Controlling!Notify(c)
    BY <1>2, <1>10, PlaceMoves DEF Controlling!Notify
  <1>11. CASE Controlling!RecordAudit(c) \/ Controlling!AuditReload(c)
    BY <1>2, <1>11, PlaceMoves DEF Controlling!RecordAudit, Controlling!AuditReload
  <1>12. QED
    BY <1>3, <1>4, <1>5, <1>6, <1>7, <1>8, <1>9, <1>10, <1>11, UpdateKeepsMemory, ToggleKeepsMemory,
       WriteKeepsMemory, RefreshKeepsMemory DEF Controlling!Act

LEMMA BeginKeepsMemory ==
  ASSUME Shape, CallsFollow, MemoryInv, NEW c \in ControlCalls, NEW ask \in Asks[c], Controlling!Begin(c, ask)
  PROVE  MemoryInv'
  <1>1. UNCHANGED <<process, overrides, live, disabled, installed, refreshed>> /\ desk[c].at = "idle"
    BY DEF Controlling!Begin
  <1>2. desk[c].ask.op = "none" /\ \A d \in ControlCalls : d # c => desk'[d] = desk[d]
    BY <1>1, BeginMoves DEF CallsFollow, CallFollows
  <1>3. desk'[c].at # "write"
    BY BeginMoves
  <1>4. ASSUME NEW cell \in Controlling!Cells PROVE CellInv(cell)'
    <2>1. SameCell(cell)
      BY <1>1 DEF SameCell, Serving
    <2>2. \A d \in Controlling!On_(cell) : d \in ControlCalls /\ d # c
      BY <1>2 DEF Controlling!On_, Controlling!Writers
    <2>3. \A d \in Controlling!On_(cell) : desk'[d] = desk[d] /\ d \in Controlling!On_(cell)'
      BY <1>2, <2>2 DEF Controlling!On_, Controlling!Writers
    <2>4. \A d \in Controlling!On_(cell)' : d \notin Controlling!On_(cell) => d = c
      BY <1>2 DEF Controlling!On_, Controlling!Writers
    <2>5. QED
      BY <1>3, <2>1, <2>3, <2>4, CellStays DEF MemoryInv, Settled
  <1>5. QED
    BY <1>4 DEF MemoryInv, Controlling!Cells

(* A start reads what the file has.                                        *)
LEMMA StartKeepsMemory ==
  ASSUME Shape, CallsFollow, NEW p, NEW s, Controlling!RegisterSysModules(p, s)
  PROVE  MemoryInv'
  <1>1. ~process.up /\ desk' = desk /\ process'.persistence = p /\ overrides' = overrides
    BY StartMoves DEF Controlling!RegisterSysModules
  <1>2. SUFFICES ASSUME Serving', NEW cell \in Controlling!Cells
                 PROVE  /\ \A c \in Controlling!On_(cell)' : desk'[c].at # "write"
                        /\ cell \in DOMAIN overrides' => HasValue(cell, overrides[cell])'
    BY DEF MemoryInv, CellInv, Controlling!Cells
  <1>3. \A c \in Controlling!On_(cell)' : desk'[c].at # "write"
    BY <1>1 DEF CallsFollow, CallFollows, CallEnds, Controlling!On_, Controlling!Writers
  <1>4. p = "file" /\ Base["enabled"] \in Truthy
    BY <1>1, <1>2 DEF Serving, Controlling!RegisterSysModules
  <1>5. live' = Controlling!Restored(Base, overrides) /\ disabled' = Controlling!RestoredToggles(overrides)
    BY <1>4 DEF Controlling!RegisterSysModules
  <1>6. ASSUME cell \in DOMAIN overrides PROVE HasValue(cell, overrides[cell])'
    <2>1. CASE cell[1] = "config" /\ cell[2] \in Keys /\ cell = <<"config", cell[2]>>
      <3>1. live'[cell[2]] = overrides[cell]
        BY <1>5, <1>6, <2>1 DEF Controlling!Restored
      <3>2. QED
        BY <1>1, <2>1, <3>1 DEF HasValue
    <2>2. CASE cell[1] = "toggle" /\ cell[2] \in Plain /\ cell = <<"toggle", cell[2]>>
      <3>1. cell[2] \in disabled' <=> overrides[cell] \notin Truthy
        BY <1>5, <1>6, <2>2 DEF Controlling!RestoredToggles
      <3>2. QED
        BY <1>1, <2>2, <3>1 DEF HasValue
    <2>3. QED
      BY <2>1, <2>2, CellIs
  <1>7. QED
    BY <1>1, <1>3, <1>6

-----------------------------------------------------------------------------
(* The audit trail.                                                        *)
Targets(c) == {e.target[2] : e \in {x \in trail : x.call = c}}
TrailInv ==
  /\ \A e \in trail : e.call \in ControlCalls /\ desk[e.call].at = "done"
  /\ \A c \in ControlCalls :
       /\ desk[c].at = "done" /\ desk[c].ask.op \in CellAsks => \E e \in trail : e.call = c
       /\ desk[c].at = "done" /\ desk[c].ask.op = "reload" => Targets(c) = desk[c].back
       /\ desk[c].at \in {"refresh", "match"} => desk[c].back = {}

(* No secret among the entries of a list.                                  *)
NoSecret(entries) ==
  \A e \in entries : \A k \in Sensitive : e.target = <<"config", k>> => e.before = Masked /\ e.after = Masked

LEMMA ChangeHides ==
  ASSUME CallsFollow, NEW c \in ControlCalls, desk[c].at \in {"notify", "audit"}
  PROVE  Controlling!Change(c).call = c /\ NoSecret({Controlling!Change(c)})
  <1>1. CallFollows(c)
    BY DEF CallsFollow
  <1>2. PICK cell \in Controlling!Cells : cell = desk[c].ask.cell
    BY <1>1, RequestIs DEF CallFollows, WriterPlaces, CellAsks
  <1>3. /\ Controlling!Change(c).call = c /\ Controlling!Change(c).target = cell
        /\ Controlling!Change(c).before = Controlling!Shown(cell, desk[c].before)
        /\ Controlling!Change(c).after = Controlling!Shown(cell, desk[c].ask.value)
    BY <1>2 DEF Controlling!Change, Controlling!Report
  <1> HIDE DEF Controlling!Change
  <1>4. ASSUME NEW k \in Sensitive, cell = <<"config", k>>
        PROVE  Controlling!Change(c).before = Masked /\ Controlling!Change(c).after = Masked
    BY <1>3, <1>4 DEF Controlling!Shown
  <1>5. QED
    BY <1>3, <1>4 DEF NoSecret

LEMMA ReportHides ==
  ASSUME NEW c, NEW m, NEW before, NEW after
  PROVE  /\ Controlling!Report(c, <<"module", m>>, before, after).call = c
         /\ Controlling!Report(c, <<"module", m>>, before, after).target[2] = m
         /\ NoSecret({Controlling!Report(c, <<"module", m>>, before, after)})
         /\ NoSecret({Controlling!Report(c, <<"config">>, before, after)})
  <1>1. /\ Controlling!Report(c, <<"module", m>>, before, after).call = c
        /\ Controlling!Report(c, <<"module", m>>, before, after).target = <<"module", m>>
        /\ Controlling!Report(c, <<"config">>, before, after).target = <<"config">>
    BY DEF Controlling!Report
  <1>2. \A k : <<"module", m>> # <<"config", k>> /\ <<"config">> # <<"config", k>>
    OBVIOUS
  <1>3. QED
    BY <1>1, <1>2 DEF NoSecret

(* Nothing is recorded.                                                    *)
LEMMA TrailStays ==
  ASSUME TrailInv, NEW c \in ControlCalls, OnlyMoves(c), trail' = trail,
         desk[c].at # "done", desk'[c].at # "done",
         desk'[c].at \in {"refresh", "match"} => desk'[c].back = {}
  PROVE  TrailInv'
  <1>1. \A e \in trail : e.call # c /\ e.call \in ControlCalls /\ desk[e.call].at = "done"
    BY DEF TrailInv
  <1>2. \A e \in trail' : e.call \in ControlCalls /\ desk'[e.call].at = "done"
    BY <1>1 DEF OnlyMoves
  <1>3. \A d : Targets(d)' = Targets(d)
    BY DEF Targets
  <1>4. ASSUME NEW d \in ControlCalls
        PROVE  /\ desk'[d].at = "done" /\ desk'[d].ask.op \in CellAsks => \E e \in trail' : e.call = d
               /\ desk'[d].at = "done" /\ desk'[d].ask.op = "reload" => Targets(d)' = desk'[d].back
               /\ desk'[d].at \in {"refresh", "match"} => desk'[d].back = {}
    <2>1. CASE d = c
      BY <2>1
    <2>2. CASE d # c
      BY <1>3, <2>2 DEF OnlyMoves, TrailInv
    <2>3. QED
      BY <2>1, <2>2
  <1>5. QED
    BY <1>2, <1>4 DEF TrailInv

(* A call ends with its entries, and has had none before.                  *)
LEMMA TrailEnds ==
  ASSUME TrailInv, NEW c \in ControlCalls, OnlyMoves(c), desk[c].at # "done", desk'[c].at = "done",
         NEW entries, trail' = trail \cup entries, \A e \in entries : e.call = c,
         desk[c].ask.op \in CellAsks => entries # {},
         desk[c].ask.op = "reload" => {e.target[2] : e \in entries} = desk'[c].back
  PROVE  TrailInv'
  <1>1. \A e \in trail : e.call # c /\ e.call \in ControlCalls /\ desk[e.call].at = "done"
    BY DEF TrailInv
  <1>2. \A e \in trail' : e.call \in ControlCalls /\ desk'[e.call].at = "done"
    BY <1>1 DEF OnlyMoves
  <1>3. \A d : d # c => Targets(d)' = Targets(d)
    BY DEF Targets
  <1>4. {x \in trail' : x.call = c} = entries
    BY <1>1
  <1>5. Targets(c)' = {e.target[2] : e \in entries}
    BY <1>4 DEF Targets
  <1>6. ASSUME NEW d \in ControlCalls
        PROVE  /\ desk'[d].at = "done" /\ desk'[d].ask.op \in CellAsks => \E e \in trail' : e.call = d
               /\ desk'[d].at = "done" /\ desk'[d].ask.op = "reload" => Targets(d)' = desk'[d].back
               /\ desk'[d].at \in {"refresh", "match"} => desk'[d].back = {}
    <2>1. CASE d = c
      BY <1>5, <2>1 DEF OnlyMoves
    <2>2. CASE d # c
      BY <1>3, <2>2 DEF OnlyMoves, TrailInv
    <2>3. QED
      BY <2>1, <2>2
  <1>7. QED
    BY <1>2, <1>6 DEF TrailInv

LEMMA ActKeepsTrail ==
  ASSUME Shape, CallsFollow, TrailInv, NoSecret(trail \cup wire), NEW c \in ControlCalls, Controlling!Act(c)
  PROVE  TrailInv' /\ NoSecret(trail \cup wire)'
  <1>1. CallFollows(c)
    BY DEF CallsFollow
  <1>2. ASSUME UNCHANGED <<trail, wire>>, OnlyMoves(c), desk[c].at # "done",
               desk'[c].at \notin {"done", "refresh", "match"}
        PROVE  TrailInv' /\ NoSecret(trail \cup wire)'
    BY <1>2, TrailStays DEF NoSecret
  <1>3. CASE Controlling!Update(c)
    BY <1>2, <1>3, UpdateMoves DEF Controlling!Update, Controlling!Persisting
  <1>4. CASE Controlling!ReadToggle(c)
    BY <1>2, <1>4, ReadToggleMoves DEF Controlling!ReadToggle
  <1>5. CASE Controlling!WriteOverride(c)
    BY <1>2, <1>5, WriteMoves DEF Controlling!WriteOverride
  <1>6. CASE Controlling!LoadStore(c)
    BY <1>2, <1>6, LoadMoves DEF Controlling!LoadStore
  <1>7. CASE Controlling!SaveStore(c)
    BY <1>2, <1>7, SaveMoves DEF Controlling!SaveStore
  <1>8. CASE Controlling!Match(c)
    BY <1>2, <1>8, MatchMoves DEF Controlling!Match
  <1>9. CASE Controlling!Withdraw(c)
    BY <1>2, <1>9, WithdrawMoves DEF Controlling!Withdraw
  <1>10. CASE Controlling!Rediscover(c)
    BY <1>2, <1>10, RediscoverMoves DEF Controlling!Rediscover
  <1>11. CASE Controlling!Restore(c)
    BY <1>2, <1>11, RestoreMoves DEF Controlling!Restore
  <1>12. CASE Controlling!Toggle(c)
    BY <1>2, <1>12, PlaceMoves DEF Controlling!Toggle, Controlling!Persisting
  <1>13. CASE Controlling!Verify(c)
    <2>1. desk[c].at # "done" /\ desk'[c].at \notin {"done", "refresh", "match"} /\ OnlyMoves(c) /\ trail' = trail
      BY <1>13, VerifyMoves DEF Controlling!Verify
    <2>2. \/ wire' = wire
          \/ \E m, b, a : wire' = wire \cup {Controlling!Report(c, <<"module", m>>, b, a)}
      BY <1>13 DEF Controlling!Verify
    <2>3. NoSecret(trail \cup wire)'
      <3>1. ASSUME NEW m, NEW b, NEW a, wire' = wire \cup {Controlling!Report(c, <<"module", m>>, b, a)}
            PROVE  NoSecret(trail \cup wire)'
        <4>1. NoSecret({Controlling!Report(c, <<"module", m>>, b, a)})
          BY ReportHides
        <4>2. QED
          BY <2>1, <3>1, <4>1 DEF NoSecret
      <3>2. QED
        BY <2>1, <2>2, <3>1
    <2>4. QED
      BY <2>1, <2>3, TrailStays
  <1>14. CASE Controlling!Notify(c)
    <2>1. /\ desk[c].at = "notify" /\ desk'[c].at = "audit" /\ OnlyMoves(c) /\ trail' = trail
          /\ wire' = wire \cup {Controlling!Change(c)}
      BY <1>14, PlaceMoves DEF Controlling!Notify
    <2>2. NoSecret(trail \cup wire)'
      BY <2>1, ChangeHides DEF NoSecret
    <2>3. QED
      BY <2>1, <2>2, TrailStays
  <1>15. CASE Controlling!RecordAudit(c)
    <2>1. /\ desk[c].at = "audit" /\ desk'[c].at = "done" /\ OnlyMoves(c) /\ wire' = wire
          /\ trail' = trail \cup {Controlling!Change(c)}
      BY <1>15, PlaceMoves DEF Controlling!RecordAudit
    <2>2. NoSecret(trail \cup wire)'
      BY <2>1, ChangeHides DEF NoSecret
    <2>3. desk[c].ask.op \in CellAsks /\ desk[c].ask.op # "reload"
      BY <1>1, <2>1 DEF CallFollows, WriterPlaces, CellAsks
    <2> DEFINE entries == {Controlling!Change(c)}
    <2>4. trail' = trail \cup entries /\ entries # {} /\ \A e \in entries : e.call = c
      BY <2>1, ChangeHides
    <2> HIDE DEF entries
    <2>5. TrailInv'
      BY <2>1, <2>3, <2>4, TrailEnds
    <2>6. QED
      BY <2>2, <2>5
  <1>16. CASE Controlling!Refresh(c)
    <2>1. /\ desk[c].at = "refresh" /\ OnlyMoves(c) /\ ReloadStays(c) /\ trail' = trail
          /\ desk'[c].at \in {"done", "match"} /\ desk[c].ask.op = "reload"
      BY <1>1, <1>16, PlaceMoves DEF Controlling!Refresh, CallFollows, ReloadPlaces
    <2>2. wire' = wire \/ wire' = wire \cup {Controlling!Report(c, <<"config">>, Nothing, Nothing)}
      BY <1>16 DEF Controlling!Refresh
    <2>3. NoSecret(trail \cup wire)'
      <3>1. NoSecret({Controlling!Report(c, <<"config">>, Nothing, Nothing)})
        BY ReportHides
      <3>2. QED
        BY <2>1, <2>2, <3>1 DEF NoSecret
    <2>4. desk'[c].back = {}
      BY <2>1 DEF TrailInv, ReloadStays
    <2>5. CASE desk'[c].at = "match"
      BY <2>1, <2>3, <2>4, <2>5, TrailStays
    <2>6. CASE desk'[c].at = "done"
      <3>1. trail' = trail \cup {} /\ {e.target[2] : e \in {}} = {} /\ desk[c].ask.op \notin CellAsks
        BY <2>1 DEF CellAsks
      <3>2. TrailInv'
        BY <2>1, <2>4, <2>6, <3>1, TrailEnds
      <3>3. QED
        BY <2>3, <3>2
    <2>7. QED
      BY <2>1, <2>5, <2>6
  <1>17. CASE Controlling!AuditReload(c)
    <2> DEFINE entries == {Controlling!Report(c, <<"module", m>>, JsonNull, m) : m \in desk[c].back}
    <2>1. /\ desk[c].at = "audits" /\ desk'[c].at = "done" /\ OnlyMoves(c) /\ ReloadStays(c) /\ wire' = wire
          /\ trail' = trail \cup entries /\ desk[c].ask.op = "reload"
      BY <1>1, <1>17, PlaceMoves DEF Controlling!AuditReload, CallFollows, ReloadPlaces
    <2> DEFINE r(m) == Controlling!Report(c, <<"module", m>>, JsonNull, m)
    <2>2. \A m : r(m).call = c /\ r(m).target[2] = m /\ NoSecret({r(m)})
      <3>1. ASSUME NEW m PROVE r(m).call = c /\ r(m).target = <<"module", m>>
        BY DEF Controlling!Report
      <3>2. \A m, k : <<"module", m>> # <<"config", k>>
        OBVIOUS
      <3> HIDE DEF r
      <3>3. QED
        BY <3>1, <3>2 DEF NoSecret
    <2>3. entries = {r(m) : m \in desk[c].back}
      OBVIOUS
    <2> HIDE DEF entries, r
    <2>4. (\A e \in entries : e.call = c) /\ NoSecret(entries)
      BY <2>2, <2>3 DEF NoSecret
    <2>5. {e.target[2] : e \in entries} = desk[c].back
      BY <2>2, <2>3
    <2>6. NoSecret(trail \cup wire)'
      BY <2>1, <2>4 DEF NoSecret
    <2>7. TrailInv'
      BY <2>1, <2>4, <2>5, TrailEnds DEF ReloadStays, CellAsks
    <2>8. QED
      BY <2>6, <2>7
  <1>18. QED
    BY <1>3, <1>4, <1>5, <1>6, <1>7, <1>8, <1>9, <1>10, <1>11, <1>12, <1>13, <1>14, <1>15, <1>16, <1>17
       DEF Controlling!Act

LEMMA BeginKeepsTrail ==
  ASSUME Shape, TrailInv, NEW c \in ControlCalls, NEW ask \in Asks[c], Controlling!Begin(c, ask)
  PROVE  TrailInv' /\ UNCHANGED <<trail, wire>>
  <1>1. UNCHANGED <<trail, wire>> /\ desk[c].at = "idle"
    BY DEF Controlling!Begin
  <1>2. /\ \A d \in ControlCalls : d # c => desk'[d] = desk[d]
        /\ desk'[c].at # "done" /\ desk'[c].back = {}
    <2>1. desk'[c].at \in {"refresh", "match", "failed", "set"}
      BY BeginMoves
    <2>2. QED
      BY <2>1, BeginMoves
  <1>3. \A d : Targets(d)' = Targets(d)
    BY <1>1 DEF Targets
  <1>4. QED
    BY <1>1, <1>2, <1>3 DEF TrailInv

LEMMA CrashKeepsTrail ==
  ASSUME Shape, TrailInv, Controlling!Crash
  PROVE  TrailInv' /\ UNCHANGED <<trail, wire>>
  <1>1. UNCHANGED <<trail, wire>>
    BY DEF Controlling!Crash
  <1>2. \A d \in ControlCalls :
          /\ desk'[d].ask = desk[d].ask /\ desk'[d].back = desk[d].back
          /\ desk'[d].at = "done" <=> desk[d].at = "done"
          /\ desk'[d].at \notin {"refresh", "match"}
    BY CrashMoves DEF ReloadStays, CallEnds
  <1>3. \A d : Targets(d)' = Targets(d)
    BY <1>1 DEF Targets
  <1>4. QED
    BY <1>1, <1>2, <1>3 DEF TrailInv

-----------------------------------------------------------------------------
(* The values of a key, in order.                                          *)
Values == {Nothing, JsonNull} \cup {Base[k] : k \in Keys}
            \cup {ask.value : ask \in {x \in UNION {Asks[c] : c \in ControlCalls} : x.op \in CellAsks}}

(* The history ends with the value of the key, and an update that is on    *)
(* its way to its entry finds in it the value before its own.              *)
LineageTypes == live \in [Keys -> Values] /\ lineage \in [Keys -> Seq(Values)]
LineageEnds == process.up => \A k \in Keys : lineage[k] # <<>> /\ lineage[k][Len(lineage[k])] = live[k]
Reporting(c) == desk[c].ask.op = "update" /\ desk[c].at \in {"write", "load", "save", "notify", "audit"}
Preceded(c) == Controlling!Follows(lineage[desk[c].ask.cell[2]], desk[c].before, desk[c].ask.value)
LineageInv ==
  /\ LineageTypes /\ LineageEnds
  /\ process.up => \A c \in ControlCalls : Reporting(c) => Preceded(c)

LEMMA Longer ==
  ASSUME NEW list \in Seq(Values), NEW v \in Values
  PROVE  /\ Append(list, v) \in Seq(Values) /\ Append(list, v) # <<>> /\ Append(list, v)[Len(Append(list, v))] = v
         /\ \A b, a : Controlling!Follows(list, b, a) => Controlling!Follows(Append(list, v), b, a)
         /\ list # <<>> => Controlling!Follows(Append(list, v), list[Len(list)], v)
  <1>1. /\ Append(list, v) \in Seq(Values) /\ Len(Append(list, v)) = Len(list) + 1 /\ Len(list) \in Nat
        /\ \A i \in 1 .. Len(list) : Append(list, v)[i] = list[i]
        /\ Append(list, v)[Len(list) + 1] = v
    OBVIOUS
  <1> DEFINE longer == Append(list, v)
  <1> HIDE DEF longer
  <1>2. longer # <<>> /\ longer[Len(longer)] = v
    BY <1>1 DEF longer
  <1>3. ASSUME NEW b, NEW a, Controlling!Follows(list, b, a) PROVE Controlling!Follows(longer, b, a)
    <2>1. PICK i \in 1 .. Len(list) - 1 : list[i] = b /\ list[i + 1] = a
      BY <1>3 DEF Controlling!Follows
    <2>2. i \in 1 .. Len(list) /\ i + 1 \in 1 .. Len(list) /\ i \in 1 .. Len(longer) - 1
      BY <1>1 DEF longer
    <2>3. longer[i] = b /\ longer[i + 1] = a
      BY <1>1, <2>1, <2>2 DEF longer
    <2>4. QED
      BY <2>2, <2>3 DEF Controlling!Follows
  <1>4. ASSUME list # <<>> PROVE Controlling!Follows(longer, list[Len(list)], v)
    <2>1. Len(list) \in 1 .. Len(longer) - 1 /\ Len(list) \in 1 .. Len(list)
      BY <1>1, <1>4 DEF longer
    <2>2. longer[Len(list)] = list[Len(list)] /\ longer[Len(list) + 1] = v
      BY <1>1, <2>1 DEF longer
    <2>3. QED
      BY <2>1, <2>2 DEF Controlling!Follows
  <1>5. QED
    BY <1>1, <1>2, <1>3, <1>4 DEF longer

LEMMA KeysAsked ==
  ASSUME CallsFollow, NEW d \in ControlCalls
  PROVE  /\ desk[d].ask.op = "update" /\ desk[d].at # "idle" => desk[d].ask.cell[2] \in Keys
         /\ Reporting(d) => desk[d].at # "idle"
  <1>1. CASE desk[d].ask.op = "update" /\ desk[d].at # "idle"
    <2>1. desk[d].ask \in Asks[d]
      BY <1>1 DEF CallsFollow, CallFollows
    <2>2. desk[d].ask.cell \in {"config"} \X Keys
      BY <1>1, <2>1, RequestIs
    <2>3. QED
      BY <1>1, <2>2
  <1>2. QED
    BY <1>1 DEF Reporting

(* Histories stay or grow, and nobody comes to report.                     *)
LEMMA LineageStays ==
  ASSUME LineageInv, LineageTypes', LineageEnds', process' = process,
         \A k \in Keys : \/ lineage'[k] = lineage[k]
                         \/ \E v \in Values : lineage'[k] = Append(lineage[k], v),
         NEW c \in ControlCalls, \A d \in ControlCalls : d # c => desk'[d] = desk[d],
         Reporting(c)' => \/ Preceded(c)'
                          \/ Reporting(c) /\ desk'[c].ask = desk[c].ask /\ desk'[c].before = desk[c].before,
         \A d \in ControlCalls : desk[d].ask.op = "update" /\ desk[d].at # "idle" => desk[d].ask.cell[2] \in Keys,
         \A d \in ControlCalls : Reporting(d) => desk[d].at # "idle"
  PROVE  LineageInv'
  <1>1. SUFFICES ASSUME process.up, NEW d \in ControlCalls, Reporting(d)', d = c => ~Preceded(c)'
                 PROVE  Preceded(d)'
    BY DEF LineageInv
  <1>2. Reporting(d) /\ desk'[d].ask = desk[d].ask /\ desk'[d].before = desk[d].before
    BY <1>1 DEF Reporting
  <1> DEFINE key == desk[d].ask.cell[2]
             b == desk[d].before
             a == desk[d].ask.value
  <1>3. key \in Keys
    BY <1>2 DEF Reporting
  <1>4. Controlling!Follows(lineage[key], b, a)
    BY <1>1, <1>2 DEF LineageInv, Preceded
  <1>5. Preceded(d)' <=> Controlling!Follows(lineage'[key], b, a)
    BY <1>2 DEF Preceded, Controlling!Follows
  <1> HIDE DEF key, b, a
  <1>6. Controlling!Follows(lineage'[key], b, a)
    <2>1. lineage[key] \in Seq(Values)
      BY <1>3 DEF LineageInv, LineageTypes
    <2>2. CASE lineage'[key] = lineage[key]
      BY <1>4, <2>2
    <2>3. ASSUME NEW v \in Values, lineage'[key] = Append(lineage[key], v)
          PROVE  Controlling!Follows(lineage'[key], b, a)
      BY <1>4, <2>1, <2>3, Longer
    <2>4. QED
      BY <1>3, <2>2, <2>3
  <1>7. QED
    BY <1>5, <1>6

(* An update adds what it leaves in memory.                                *)
LEMMA UpdateKeepsLineage ==
  ASSUME Shape, CallsFollow, process.up, LineageInv, NEW c \in ControlCalls, Controlling!Update(c)
  PROVE  LineageInv'
  <1>1. CallFollows(c) /\ desk[c].at = "set" /\ desk[c].ask.op = "update" /\ desk[c].ask \in Asks[c]
    BY DEF CallsFollow, CallFollows, Controlling!Update
  <1>2. PICK key \in Keys, value \in Values :
          desk[c].ask.cell[2] = key /\ desk[c].ask.value = value
    <2>1. desk[c].ask.cell \in {"config"} \X Keys
      BY <1>1, RequestIs
    <2>2. desk[c].ask.value \in Values
      BY <1>1 DEF Values, CellAsks
    <2>3. QED
      BY <2>1, <2>2
  <1> DEFINE after == IF Legal(key, value) THEN value ELSE IF live[key] = Nothing THEN JsonNull ELSE live[key]
             same  == after = live[key] /\ ~Legal(key, value)
             list  == lineage[key]
  <1>3. /\ live' = [live EXCEPT ![key] = after]
        /\ lineage' = [lineage EXCEPT ![key] = IF same THEN @ ELSE Append(@, after)]
        /\ process' = process
    BY <1>2 DEF Controlling!Update
  <1>4. /\ OnlyMoves(c) /\ desk'[c].before = live[key]
        /\ desk'[c].at = IF Legal(key, value) THEN Controlling!Persisting ELSE "failed"
    BY <1>2, UpdateMoves
  <1>5. list \in Seq(Values) /\ live[key] \in Values /\ list # <<>> /\ list[Len(list)] = live[key]
    BY DEF LineageInv, LineageTypes, LineageEnds
  <1>6. after \in Values
    BY <1>2, <1>5 DEF Values
  <1>7. same => after = live[key] /\ ~Legal(key, value)
    OBVIOUS
  <1>8. Legal(key, value) => after = value
    OBVIOUS
  <1> HIDE DEF after, same
  <1>9. /\ \A k \in Keys : k # key => lineage'[k] = lineage[k] /\ live'[k] = live[k]
        /\ live'[key] = after
        /\ lineage'[key] = IF same THEN list ELSE Append(list, after)
    BY <1>3 DEF LineageInv, LineageTypes
  <1> HIDE DEF list
  <1>10. /\ lineage'[key] \in Seq(Values) /\ lineage'[key] # <<>> /\ lineage'[key][Len(lineage'[key])] = after
    BY <1>5, <1>6, <1>7, <1>9, Longer
  <1>11. LineageTypes'
    <2>1. live' \in [Keys -> Values]
      BY <1>3, <1>6 DEF LineageInv, LineageTypes
    <2>2. \A k \in Keys : lineage'[k] \in Seq(Values)
      BY <1>9, <1>10 DEF LineageInv, LineageTypes
    <2>3. lineage' = [k \in Keys |-> lineage'[k]]
      BY <1>3 DEF LineageInv, LineageTypes
    <2>4. QED
      BY <2>1, <2>2, <2>3 DEF LineageTypes, Values
  <1>12. LineageEnds'
    BY <1>3, <1>9, <1>10 DEF LineageInv, LineageEnds
  <1>13. Reporting(c)' => Preceded(c)'
    <2>1. CASE ~Legal(key, value)
      BY <1>4, <2>1 DEF Reporting
    <2>2. CASE Legal(key, value)
      <3>1. lineage'[key] = Append(list, value)
        BY <1>7, <1>8, <1>9, <2>2
      <3>2. Controlling!Follows(lineage'[key], live[key], value)
        BY <1>5, <3>1, Longer
      <3>3. QED
        BY <1>2, <1>4, <3>2 DEF Preceded, OnlyMoves, Controlling!Follows
    <2>3. QED
      BY <2>1, <2>2
  <1>14. \A k \in Keys : \/ lineage'[k] = lineage[k]
                         \/ \E v \in Values : lineage'[k] = Append(lineage[k], v)
    BY <1>6, <1>9 DEF list
  <1>15. QED
    BY <1>3, <1>4, <1>11, <1>12, <1>13, <1>14, LineageStays, KeysAsked DEF OnlyMoves

LEMMA RefreshKeepsLineage ==
  ASSUME Shape, CallsFollow, process.up, LineageInv, NEW c \in ControlCalls, Controlling!Refresh(c)
  PROVE  LineageInv'
  <1>1. OnlyMoves(c) /\ process' = process /\ desk[c].at = "refresh"
    BY PlaceMoves DEF Controlling!Refresh
  <1>2. ~Reporting(c)'
    <2>1. desk[c].ask.op = "reload"
      BY <1>1 DEF CallsFollow, CallFollows, ReloadPlaces
    <2>2. QED
      BY <1>1, <2>1 DEF Reporting, OnlyMoves
  <1>3. CASE UNCHANGED <<live, lineage>>
    <2>1. LineageTypes' /\ LineageEnds'
      BY <1>1, <1>3 DEF LineageInv, LineageTypes, LineageEnds, Values
    <2>2. QED
      BY <1>1, <1>2, <1>3, <2>1, LineageStays, KeysAsked DEF OnlyMoves
  <1>4. CASE live' = Base /\ lineage' = [k \in Keys |-> Append(lineage[k], Base[k])]
    <2>1. \A k \in Keys : Base[k] \in Values /\ lineage[k] \in Seq(Values)
      BY DEF Values, LineageInv, LineageTypes
    <2>2. \A k \in Keys :
            /\ lineage'[k] = Append(lineage[k], Base[k]) /\ live'[k] = Base[k]
            /\ lineage'[k] \in Seq(Values) /\ lineage'[k] # <<>> /\ lineage'[k][Len(lineage'[k])] = live'[k]
      <3>1. ASSUME NEW k \in Keys
            PROVE  /\ lineage'[k] = Append(lineage[k], Base[k]) /\ live'[k] = Base[k]
                   /\ lineage'[k] \in Seq(Values) /\ lineage'[k] # <<>> /\ lineage'[k][Len(lineage'[k])] = live'[k]
        <4>1. lineage'[k] = Append(lineage[k], Base[k]) /\ live'[k] = Base[k]
          BY <1>4
        <4>2. QED
          BY <2>1, <4>1, Longer
      <3>2. QED
        BY <3>1
    <2>3. live' \in [Keys -> Values]
      BY <1>4, <2>1, ControlAssumption DEF ControlAssumption
    <2>4. lineage' = [k \in Keys |-> lineage'[k]]
      BY <1>4
    <2>5. LineageTypes' /\ LineageEnds'
      BY <2>2, <2>3, <2>4 DEF LineageTypes, LineageEnds, Values
    <2>6. QED
      BY <1>1, <1>2, <2>1, <2>2, <2>5, LineageStays, KeysAsked DEF OnlyMoves
  <1>5. QED
    BY <1>3, <1>4 DEF Controlling!Refresh

LEMMA ActKeepsLineage ==
  ASSUME Shape, CallsFollow, process.up, LineageInv, NEW c \in ControlCalls, Controlling!Act(c)
  PROVE  LineageInv'
  <1>1. CallFollows(c)
    BY DEF CallsFollow
  <1>2. ASSUME UNCHANGED <<process, live, lineage>>, OnlyMoves(c),
               desk[c].ask.op # "update" \/ desk'[c].at = "done"
                 \/ (BeforeStays(c) /\ desk[c].at \in {"write", "load", "save", "notify", "audit"})
        PROVE  LineageInv'
    <2>1. LineageTypes' /\ LineageEnds'
      BY <1>2 DEF LineageInv, LineageTypes, LineageEnds, Values
    <2>2. Reporting(c)' => Reporting(c) /\ desk'[c].ask = desk[c].ask /\ desk'[c].before = desk[c].before
      BY <1>2 DEF Reporting, OnlyMoves, BeforeStays
    <2>3. QED
      BY <1>2, <2>1, <2>2, LineageStays, KeysAsked DEF OnlyMoves
  <1>3. desk[c].at \in ReloadPlaces \cup {"toggle"} => desk[c].ask.op # "update"
    BY <1>1 DEF CallFollows
  <1>4. CASE Controlling!ReadToggle(c)
    BY <1>2, <1>4, ReadToggleMoves DEF Controlling!ReadToggle
  <1>5. CASE Controlling!WriteOverride(c)
    BY <1>2, <1>5, WriteMoves DEF Controlling!WriteOverride
  <1>6. CASE Controlling!LoadStore(c)
    BY <1>2, <1>6, LoadMoves DEF Controlling!LoadStore
  <1>7. CASE Controlling!SaveStore(c)
    BY <1>2, <1>7, SaveMoves DEF Controlling!SaveStore
  <1>8. CASE Controlling!Match(c)
    BY <1>2, <1>3, <1>8, MatchMoves DEF Controlling!Match, ReloadPlaces
  <1>9. CASE Controlling!Withdraw(c)
    BY <1>2, <1>3, <1>9, WithdrawMoves DEF Controlling!Withdraw, ReloadPlaces
  <1>10. CASE Controlling!Rediscover(c)
    BY <1>2, <1>3, <1>10, RediscoverMoves DEF Controlling!Rediscover, ReloadPlaces
  <1>11. CASE Controlling!Verify(c)
    BY <1>2, <1>3, <1>11, VerifyMoves DEF Controlling!Verify, ReloadPlaces
  <1>12. CASE Controlling!Restore(c)
    BY <1>2, <1>3, <1>12, RestoreMoves DEF Controlling!Restore, ReloadPlaces
  <1>13. CASE Controlling!Toggle(c)
    BY <1>2, <1>3, <1>13, PlaceMoves DEF Controlling!Toggle
  <1>14. CASE Controlling!Notify(c)
    BY <1>2, <1>14, PlaceMoves DEF Controlling!Notify
  <1>15. CASE Controlling!RecordAudit(c)
    BY <1>2, <1>15, PlaceMoves DEF Controlling!RecordAudit
  <1>16. CASE Controlling!AuditReload(c)
    BY <1>2, <1>16, PlaceMoves DEF Controlling!AuditReload
  <1>17. QED
    BY <1>4, <1>5, <1>6, <1>7, <1>8, <1>9, <1>10, <1>11, <1>12, <1>13, <1>14, <1>15, <1>16,
       UpdateKeepsLineage, RefreshKeepsLineage DEF Controlling!Act

LEMMA BeginKeepsLineage ==
  ASSUME Shape, CallsFollow, LineageInv, NEW c \in ControlCalls, NEW ask \in Asks[c], Controlling!Begin(c, ask)
  PROVE  LineageInv'
  <1>1. UNCHANGED <<process, live, lineage>>
    BY DEF Controlling!Begin
  <1>2. \A d \in ControlCalls : d # c => desk'[d] = desk[d]
    BY BeginMoves
  <1>3. ~Reporting(c)'
    BY BeginMoves DEF Reporting
  <1>4. LineageTypes' /\ LineageEnds'
    BY <1>1 DEF LineageInv, LineageTypes, LineageEnds, Values
  <1>5. QED
    BY <1>1, <1>2, <1>3, <1>4, LineageStays, KeysAsked

LEMMA CrashKeepsLineage ==
  ASSUME Shape, LineageInv, Controlling!Crash
  PROVE  LineageInv'
  <1>1. UNCHANGED <<live, lineage>> /\ ~process'.up
    BY CrashMoves DEF Controlling!Crash
  <1>2. QED
    BY <1>1 DEF LineageInv, LineageTypes, LineageEnds, Values

(* A start begins the histories anew, with values of calls in them.        *)
LEMMA StartKeepsLineage ==
  ASSUME Shape, CallsFollow, FileInv, NEW p, NEW s, Controlling!RegisterSysModules(p, s)
  PROVE  LineageInv'
  <1> DEFINE saved == IF p = "file" THEN overrides ELSE <<>>
             config == IF Base["enabled"] \in Truthy THEN Controlling!Restored(Base, saved) ELSE Base
  <1>1. /\ live' = config /\ lineage' = [k \in Keys |-> <<config[k]>>] /\ desk' = desk /\ ~process.up
    BY StartMoves DEF Controlling!RegisterSysModules
  <1>2. \A k \in Keys : Base[k] \in Values
    BY DEF Values
  <1>3. \A k \in Keys : <<"config", k>> \in DOMAIN saved => saved[<<"config", k>>] \in Values
    <2>1. SUFFICES ASSUME NEW cell \in Controlling!Cells, cell \in DOMAIN saved PROVE saved[cell] \in Values
      BY DEF Controlling!Cells
    <2>2. p = "file" /\ saved = overrides
      BY <2>1
    <2>3. process.persistence = "file"
      <3>1. process.starts # 0
        BY <2>1, <2>2 DEF FileInv
      <3>2. QED
        BY <2>2, <3>1, StartMoves
    <2>4. PICK e \in Controlling!Wrote(cell) : overrides[cell] = desk[e].ask.value
      BY <2>1, <2>2, <2>3 DEF FileInv, Controlling!LatestIsKept
    <2>5. e \in ControlCalls /\ desk[e].wrote /\ desk[e].ask.op \in CellAsks
      BY DEF Controlling!Wrote, Controlling!On_, Controlling!Writers, CellAsks
    <2>6. desk[e].ask \in Asks[e]
      BY <2>5 DEF CallsFollow, CallFollows
    <2>7. QED
      BY <2>2, <2>4, <2>5, <2>6 DEF Values
  <1> HIDE DEF saved
  <1>4. config \in [Keys -> Values]
    <2>1. CASE Base["enabled"] \in Truthy
      <3>1. config = Controlling!Restored(Base, saved)
        BY <2>1
      <3>2. QED
        BY <1>2, <1>3, <3>1 DEF Controlling!Restored
    <2>2. CASE Base["enabled"] \notin Truthy
      BY <1>2, <2>2, ControlAssumption DEF ControlAssumption
    <2>3. QED
      BY <2>1, <2>2
  <1> HIDE DEF config
  <1>5. LineageTypes'
    <2>1. \A k \in Keys : <<config[k]>> \in Seq(Values)
      BY <1>4
    <2>2. QED
      BY <1>1, <1>4, <2>1 DEF LineageTypes, Values
  <1>6. LineageEnds'
    <2>1. \A k \in Keys : lineage'[k] = <<live'[k]>>
      BY <1>1
    <2>2. QED
      BY <2>1 DEF LineageEnds
  <1>7. \A c \in ControlCalls : ~Reporting(c)'
    BY <1>1 DEF Reporting, CallsFollow, CallFollows, CallEnds
  <1>8. QED
    BY <1>5, <1>6, <1>7 DEF LineageInv

-----------------------------------------------------------------------------
(* Reloads.  A module that a call has taken out is one it will look for or *)
(* restore, from an instance it has kept.                                  *)
CallReloads(c) ==
  /\ desk[c].at \in {"refresh", "match"} => desk[c].gone = {}
  /\ desk[c].at \in {"withdraw", "verify", "restore"} =>
       \A m \in desk[c].todo \cup desk[c].gone : desk[c].kept[m] # "absent"
  /\ desk[c].at = "restore" => desk[c].gone \subseteq desk[c].todo
Claims(c, m) ==
  \/ desk[c].at \in {"withdraw", "verify", "restore"} /\ m \in desk[c].gone
  \/ desk[c].at \in {"verify", "restore"} /\ m \in desk[c].todo
ReloadInv ==
  /\ loaded = [m \in Plain |-> loaded[m]]
  /\ \A c \in ControlCalls : CallReloads(c)
  /\ Controlling!NothingIsLost

LEMMA Unlost ==
  Controlling!NothingIsLost <=>
    (process.up => \A m \in Plain : loaded[m] # "absent" \/ m \in bereft \/ \E c \in ControlCalls : Claims(c, m))
  BY DEF Controlling!NothingIsLost, Claims

LEMMA UnlostNext ==
  Controlling!NothingIsLost' <=>
    (process'.up => \A m \in Plain : loaded'[m] # "absent" \/ m \in bereft' \/ \E c \in ControlCalls : Claims(c, m)')
  BY DEF Controlling!NothingIsLost, Claims

(* What c takes out it claims, and what it gives up is there again.        *)
LEMMA ReloadsStay ==
  ASSUME ReloadInv, NEW c \in ControlCalls, OnlyMoves(c), process' = process, CallReloads(c)',
         loaded' = [m \in Plain |-> loaded'[m]], bereft \subseteq bereft',
         \A m \in Plain : loaded[m] # "absent" => loaded'[m] # "absent" \/ Claims(c, m)',
         \A m \in Plain : Claims(c, m) => loaded'[m] # "absent" \/ m \in bereft' \/ Claims(c, m)'
  PROVE  ReloadInv'
  <1>1. \A d \in ControlCalls : CallReloads(d)'
    BY DEF ReloadInv, CallReloads, OnlyMoves
  <1>2. ASSUME process.up, NEW m \in Plain
        PROVE  loaded'[m] # "absent" \/ m \in bereft' \/ \E d \in ControlCalls : Claims(d, m)'
    <2>1. loaded[m] # "absent" \/ m \in bereft \/ \E d \in ControlCalls : Claims(d, m)
      BY <1>2, Unlost DEF ReloadInv
    <2>2. ASSUME NEW d \in ControlCalls, d # c, Claims(d, m) PROVE Claims(d, m)'
      BY <2>2 DEF Claims, OnlyMoves
    <2>3. QED
      BY <2>1, <2>2
  <1>3. QED
    BY <1>1, <1>2, UnlostNext DEF ReloadInv

LEMMA ActKeepsModules ==
  ASSUME Shape, CallsFollow, ReloadInv, NEW c \in ControlCalls, Controlling!Act(c)
  PROVE  ReloadInv'
  <1>1. CallFollows(c) /\ CallReloads(c)
    BY DEF CallsFollow, ReloadInv
  <1>2. ASSUME UNCHANGED <<process, loaded, bereft>>, OnlyMoves(c), CallReloads(c)', \A m \in Plain : ~Claims(c, m)
        PROVE  ReloadInv'
    BY <1>2, ReloadsStay DEF ReloadInv
  <1> USE DEF CallReloads, Claims
  <1>3. CASE Controlling!Update(c)
    BY <1>2, <1>3, UpdateMoves DEF Controlling!Update, Controlling!Persisting
  <1>4. CASE Controlling!ReadToggle(c)
    BY <1>2, <1>4, ReadToggleMoves DEF Controlling!ReadToggle
  <1>5. CASE Controlling!WriteOverride(c)
    BY <1>2, <1>5, WriteMoves DEF Controlling!WriteOverride
  <1>6. CASE Controlling!LoadStore(c)
    BY <1>2, <1>6, LoadMoves DEF Controlling!LoadStore
  <1>7. CASE Controlling!SaveStore(c)
    BY <1>2, <1>7, SaveMoves DEF Controlling!SaveStore
  <1>8. CASE Controlling!Toggle(c)
    BY <1>2, <1>8, PlaceMoves DEF Controlling!Toggle, Controlling!Persisting
  <1>9. CASE Controlling!Notify(c)
    BY <1>2, <1>9, PlaceMoves DEF Controlling!Notify
  <1>10. CASE Controlling!RecordAudit(c) \/ Controlling!AuditReload(c)
    BY <1>2, <1>10, PlaceMoves DEF Controlling!RecordAudit, Controlling!AuditReload
  <1>11. CASE Controlling!Refresh(c)
    <2>1. /\ UNCHANGED <<process, loaded, bereft>> /\ OnlyMoves(c) /\ ReloadStays(c)
          /\ desk[c].at = "refresh" /\ desk'[c].at \in {"done", "match"}
      BY <1>11, PlaceMoves DEF Controlling!Refresh
    <2>2. QED
      BY <1>1, <1>2, <2>1 DEF ReloadStays
  <1>12. CASE Controlling!Match(c)
    <2>1. /\ UNCHANGED <<process, loaded, bereft>> /\ OnlyMoves(c) /\ desk[c].at = "match"
          /\ desk'[c].at = "withdraw" /\ desk'[c].gone = desk[c].gone
          /\ \A m \in desk'[c].todo : desk'[c].kept[m] # "absent"
      BY <1>12, MatchMoves DEF Controlling!Match
    <2>2. QED
      BY <1>1, <1>2, <2>1
  <1>13. CASE Controlling!Withdraw(c)
    <2>1. /\ UNCHANGED <<process, bereft>> /\ OnlyMoves(c) /\ desk[c].at = "withdraw"
          /\ desk'[c].at = "withdraw" /\ desk'[c].kept = desk[c].kept
      BY <1>13, WithdrawMoves DEF Controlling!Withdraw
    <2>2. PICK m \in desk[c].todo :
              /\ desk'[c].todo = desk[c].todo \ {m}
              /\ \/ loaded' = loaded /\ desk'[c].gone = desk[c].gone
                 \/ loaded' = [loaded EXCEPT ![m] = "absent"] /\ desk'[c].gone = desk[c].gone \cup {m}
      BY <1>13, WithdrawMoves
    <2>3. CallReloads(c)'
      BY <1>1, <2>1, <2>2
    <2>4. loaded' = [n \in Plain |-> loaded'[n]] /\ \A n \in Plain : n # m => loaded'[n] = loaded[n]
      BY <2>2 DEF ReloadInv
    <2>5. \A n \in Plain : loaded[n] # "absent" => loaded'[n] # "absent" \/ Claims(c, n)'
      BY <2>1, <2>2, <2>4
    <2>6. \A n \in Plain : Claims(c, n) => Claims(c, n)'
      BY <2>1, <2>2
    <2>7. QED
      BY <2>1, <2>3, <2>4, <2>5, <2>6, ReloadsStay
  <1>14. CASE Controlling!Rediscover(c)
    <2>1. /\ UNCHANGED <<process, bereft>> /\ OnlyMoves(c) /\ desk[c].at = "withdraw"
          /\ desk'[c].gone = desk[c].gone /\ desk'[c].kept = desk[c].kept
          /\ \/ desk'[c].at = "restore" /\ desk'[c].todo = desk[c].gone
             \/ desk'[c].at = "verify" /\ desk'[c].todo = desk[c].todo
      BY <1>14, RediscoverMoves DEF Controlling!Rediscover
    <2>2. loaded' = [m \in Plain |-> loaded'[m]] /\ \A m \in Plain : loaded[m] # "absent" => loaded'[m] # "absent"
      BY <1>14, RediscoverMoves DEF ReloadInv
    <2>3. CallReloads(c)'
      BY <1>1, <2>1
    <2>4. \A m \in Plain : Claims(c, m) => Claims(c, m)'
      BY <2>1
    <2>5. QED
      BY <2>1, <2>2, <2>3, <2>4, ReloadsStay
  <1>15. CASE Controlling!Verify(c)
    <2>1. /\ UNCHANGED <<process, bereft, loaded>> /\ OnlyMoves(c) /\ desk[c].at = "verify"
          /\ desk'[c].kept = desk[c].kept
      BY <1>15, VerifyMoves DEF Controlling!Verify
    <2>2. CASE desk[c].gone = {} /\ ReloadStays(c) /\ desk'[c].at = IF desk[c].todo = {} THEN "audits" ELSE "restore"
      <3>1. CallReloads(c)'
        BY <1>1, <2>1, <2>2 DEF ReloadStays
      <3>2. \A m \in Plain : Claims(c, m) => Claims(c, m)'
        BY <2>1, <2>2 DEF ReloadStays
      <3>3. QED
        BY <2>1, <3>1, <3>2, ReloadsStay DEF ReloadInv
    <2>3. ASSUME desk'[c].at = "verify", NEW m \in desk[c].gone, desk'[c].gone = desk[c].gone \ {m},
                 desk'[c].todo = IF loaded[m] # "absent" THEN desk[c].todo ELSE desk[c].todo \cup {m}
          PROVE  ReloadInv'
      <3>1. CallReloads(c)'
        BY <1>1, <2>1, <2>3
      <3>2. \A n \in Plain : Claims(c, n) => loaded'[n] # "absent" \/ Claims(c, n)'
        BY <2>1, <2>3
      <3>3. QED
        BY <2>1, <3>1, <3>2, ReloadsStay DEF ReloadInv
    <2>4. QED
      BY <1>15, <2>2, <2>3, VerifyMoves
  <1>16. CASE Controlling!Restore(c)
    <2>1. /\ UNCHANGED process /\ OnlyMoves(c) /\ desk[c].at = "restore" /\ desk'[c].kept = desk[c].kept
      BY <1>16, RestoreMoves DEF Controlling!Restore
    <2>2. CASE desk[c].todo = {} /\ desk'[c].at = "failed" /\ UNCHANGED <<loaded, bereft>>
      BY <1>1, <1>2, <2>1, <2>2
    <2>3. ASSUME desk'[c].at = "restore", NEW m \in desk[c].todo,
                 desk'[c].todo = desk[c].todo \ {m}, desk'[c].gone = desk[c].gone \ {m},
                 \/ loaded[m] # "absent" /\ UNCHANGED <<loaded, bereft>>
                 \/ bereft' = bereft \cup {m} /\ UNCHANGED loaded
                 \/ loaded' = [loaded EXCEPT ![m] = desk[c].kept[m]] /\ UNCHANGED bereft
          PROVE  ReloadInv'
      <3>1. CallReloads(c)'
        BY <1>1, <2>1, <2>3
      <3>2. desk[c].kept[m] # "absent"
        BY <1>1, <2>1
      <3>3. /\ loaded' = [n \in Plain |-> loaded'[n]] /\ bereft \subseteq bereft'
            /\ \A n \in Plain : n # m => loaded'[n] = loaded[n]
        BY <2>3 DEF ReloadInv
      <3>4. m \in Plain => loaded'[m] # "absent" \/ m \in bereft'
        BY <2>3, <3>2 DEF ReloadInv
      <3>5. \A n \in Plain : loaded[n] # "absent" => loaded'[n] # "absent"
        BY <2>3, <3>2, <3>3 DEF ReloadInv
      <3>6. \A n \in Plain : Claims(c, n) => n = m \/ Claims(c, n)'
        BY <2>1, <2>3
      <3>7. QED
        BY <2>1, <3>1, <3>3, <3>4, <3>5, <3>6, ReloadsStay
    <2>4. QED
      BY <1>16, <2>2, <2>3, RestoreMoves
  <1>17. QED
    BY <1>3, <1>4, <1>5, <1>6, <1>7, <1>8, <1>9, <1>10, <1>11, <1>12, <1>13, <1>14, <1>15, <1>16 DEF Controlling!Act

LEMMA BeginKeepsModules ==
  ASSUME Shape, ReloadInv, NEW c \in ControlCalls, NEW ask \in Asks[c], Controlling!Begin(c, ask)
  PROVE  ReloadInv'
  <1>1. UNCHANGED <<process, loaded, bereft>> /\ desk[c].at = "idle"
    BY DEF Controlling!Begin
  <1>2. /\ \A d \in ControlCalls : d # c => desk'[d] = desk[d]
        /\ desk'[c].at \in {"refresh", "match", "failed", "set"} /\ desk'[c].gone = {}
    BY BeginMoves
  <1>3. \A d \in ControlCalls : CallReloads(d)'
    BY <1>2 DEF ReloadInv, CallReloads
  <1>4. \A d \in ControlCalls, m \in Plain : Claims(d, m) => Claims(d, m)'
    BY <1>1, <1>2 DEF Claims
  <1>5. QED
    BY <1>1, <1>3, <1>4, Unlost, UnlostNext DEF ReloadInv

LEMMA CrashKeepsModules ==
  ASSUME Shape, ReloadInv, Controlling!Crash
  PROVE  ReloadInv'
  <1>1. UNCHANGED loaded
    BY DEF Controlling!Crash
  <1>2. \A d \in ControlCalls : CallReloads(d)'
    BY CrashMoves DEF CallReloads, CallEnds
  <1>3. QED
    BY <1>1, <1>2, CrashMoves, UnlostNext DEF ReloadInv

LEMMA StartKeepsModules ==
  ASSUME Shape, ReloadInv, NEW p, NEW s, Controlling!RegisterSysModules(p, s)
  PROVE  ReloadInv'
  <1>1. desk' = desk /\ loaded' = [m \in Plain |-> "original"]
    BY StartMoves DEF Controlling!RegisterSysModules
  <1>2. \A d \in ControlCalls : CallReloads(d)'
    BY <1>1 DEF CallReloads, ReloadInv
  <1>3. QED
    BY <1>1, <1>2, UnlostNext DEF ReloadInv

-----------------------------------------------------------------------------
(* The whole of it.                                                        *)
ControlInv ==
  /\ Shape /\ CallsFollow /\ FileInv /\ MemoryInv /\ TrailInv /\ NoSecret(trail \cup wire)
  /\ LineageInv /\ ReloadInv

LEMMA ControlStarts == Controlling!Init => ControlInv
  <1> SUFFICES ASSUME Controlling!Init PROVE ControlInv
    OBVIOUS
  <1>1. /\ desk = [c \in ControlCalls |-> Controlling!IdleCall]
        /\ process = [up |-> FALSE, persistence |-> "none", strict |-> FALSE, starts |-> 0]
        /\ live = [k \in Keys |-> Nothing] /\ overrides = <<>> /\ loaded = [m \in Plain |-> "absent"]
        /\ trail = {} /\ wire = {} /\ lineage = [k \in Keys |-> <<>>]
    BY DEF Controlling!Init
  <1>2. \A c \in ControlCalls :
          /\ DOMAIN desk[c] = Fields /\ desk[c].at = "idle" /\ desk[c].ask.op = "none"
          /\ desk[c].wrote = FALSE /\ desk[c].earlier = {}
    BY <1>1 DEF Controlling!IdleCall, Fields
  <1>3. /\ DOMAIN process = {"up", "persistence", "strict", "starts"} /\ process.up = FALSE
        /\ process.persistence = "none" /\ process.starts = 0
    BY <1>1
  <1>4. Shape
    BY <1>1, <1>2, <1>3 DEF Shape
  <1>5. CallsFollow
    BY <1>2, <1>3 DEF CallsFollow, CallFollows, EarlierEnded, CallEnds, WriterPlaces, ReloadPlaces
  <1>6. FileInv
    BY <1>1, <1>3 DEF FileInv, Controlling!LatestIsKept
  <1>7. MemoryInv
    BY <1>3 DEF MemoryInv, CellInv, Serving
  <1>8. TrailInv /\ NoSecret(trail \cup wire)
    BY <1>1, <1>2 DEF TrailInv, NoSecret
  <1>9. LineageInv
    BY <1>1, <1>3 DEF LineageInv, LineageTypes, LineageEnds, Values
  <1>10. ReloadInv
    BY <1>1, <1>2, <1>3 DEF ReloadInv, CallReloads, Controlling!NothingIsLost
  <1>11. QED
    BY <1>4, <1>5, <1>6, <1>7, <1>8, <1>9, <1>10 DEF ControlInv

LEMMA ControlStep ==
  ASSUME ControlInv, [Controlling!Next]_controlVars
  PROVE  ControlInv'
  <1>1. live = [k \in Keys |-> live[k]]
    BY DEF ControlInv, LineageInv, LineageTypes
  <1>2. CASE UNCHANGED controlVars
    <2>1. /\ UNCHANGED <<process, live, overrides, disabled, loaded, installed>>
          /\ UNCHANGED <<desk, trail, wire, lineage, refreshed, bereft>>
      BY <1>2 DEF controlVars
    <2>2. Shape'
      BY <2>1 DEF ControlInv, Shape
    <2>3. CallsFollow'
      BY <2>1 DEF ControlInv, CallsFollow, CallFollows, EarlierEnded
    <2>4. FileInv'
      BY <2>1 DEF ControlInv, FileInv, Controlling!LatestIsKept, Controlling!Wrote, Controlling!On_,
                  Controlling!Writers, Controlling!Cells
    <2>5. MemoryInv'
      BY <2>1 DEF ControlInv, MemoryInv, CellInv, Serving, Settled, HasValue, Controlling!Sequential,
                  Controlling!On_, Controlling!Writers, Controlling!Cells
    <2>6. TrailInv' /\ NoSecret(trail \cup wire)'
      BY <2>1 DEF ControlInv, TrailInv, Targets, NoSecret
    <2>7. LineageInv'
      BY <2>1 DEF ControlInv, LineageInv, LineageTypes, LineageEnds, Reporting, Preceded,
                  Controlling!Follows, Values
    <2>8. ReloadInv'
      BY <2>1 DEF ControlInv, ReloadInv, CallReloads, Controlling!NothingIsLost
    <2>9. QED
      BY <2>2, <2>3, <2>4, <2>5, <2>6, <2>7, <2>8 DEF ControlInv
  <1>3. ASSUME process.up, NEW c \in ControlCalls, Controlling!Act(c) PROVE ControlInv'
    <2>1. Shape'
      BY <1>3, UpdateMoves, ReadToggleMoves, WriteMoves, LoadMoves, SaveMoves, MatchMoves, WithdrawMoves,
         RediscoverMoves, VerifyMoves, RestoreMoves, PlaceMoves DEF ControlInv, Controlling!Act
    <2>2. QED
      BY <1>1, <1>3, <2>1, ActFollows, ActKeepsFile, ActKeepsMemory, ActKeepsTrail, ActKeepsLineage, ActKeepsModules
         DEF ControlInv
  <1>4. ASSUME process.up, NEW c \in ControlCalls, NEW ask \in Asks[c], Controlling!Begin(c, ask) PROVE ControlInv'
    <2>1. TrailInv' /\ NoSecret(trail \cup wire)'
      BY <1>4, BeginKeepsTrail DEF ControlInv, NoSecret
    <2>2. QED
      BY <1>4, <2>1, BeginMoves, BeginFollows, BeginKeepsFile, BeginKeepsMemory, BeginKeepsLineage, BeginKeepsModules
         DEF ControlInv
  <1>5. CASE Controlling!Crash
    <2>1. TrailInv' /\ NoSecret(trail \cup wire)'
      BY <1>5, CrashKeepsTrail DEF ControlInv, NoSecret
    <2>2. MemoryInv'
      BY <1>5, CrashMoves DEF ControlInv, MemoryInv, CellInv, Serving
    <2>3. QED
      BY <1>5, <2>1, <2>2, CrashMoves, CrashFollows, CrashKeepsFile, CrashKeepsLineage, CrashKeepsModules DEF ControlInv
  <1>6. ASSUME NEW p, NEW s, Controlling!RegisterSysModules(p, s) PROVE ControlInv'
    <2>1. TrailInv' /\ NoSecret(trail \cup wire)'
      <3>1. UNCHANGED <<desk, trail, wire>>
        BY <1>6 DEF Controlling!RegisterSysModules
      <3>2. QED
        BY <3>1 DEF ControlInv, TrailInv, Targets, NoSecret
    <2>2. QED
      BY <1>6, <2>1, StartMoves, StartFollows, StartKeepsFile, StartKeepsMemory, StartKeepsLineage, StartKeepsModules
         DEF ControlInv
  <1>7. QED
    BY <1>2, <1>3, <1>4, <1>5, <1>6 DEF Controlling!Next

LEMMA ControlPromised == ControlInv => ControlIsKept
  <1> SUFFICES ASSUME ControlInv PROVE ControlIsKept
    OBVIOUS
  <1>1. Controlling!MemoryIsPersisted
    <2>1. SUFFICES ASSUME Serving, NEW cell \in DOMAIN overrides,
                          Controlling!Sequential(cell), cell \notin refreshed,
                          \A c \in Controlling!On_(cell) : desk[c].at = "failed" \/ desk[c].wrote \/ desk[c].at = "lost"
                   PROVE  Controlling!Agrees(cell)
      BY DEF Controlling!MemoryIsPersisted, Serving
    <2>2. cell \in Controlling!Cells
      BY <2>1 DEF ControlInv, FileInv, Serving
    <2>3. HasValue(cell, overrides[cell])
      BY <2>1, <2>2 DEF ControlInv, MemoryInv, CellInv, Settled
    <2>4. QED
      BY <2>3 DEF HasValue, Controlling!Agrees
  <1>2. Controlling!TrailIsTrue
    <2>1. \A c \in Controlling!Writers : desk[c].at = "done" <=> \E e \in trail : e.call = c
      BY DEF ControlInv, TrailInv, Controlling!Writers, CellAsks
    <2>2. \A c \in ControlCalls \ Controlling!Writers : desk[c].at = "done" => Targets(c) = desk[c].back
      <3>1. SUFFICES ASSUME NEW c \in ControlCalls \ Controlling!Writers, desk[c].at = "done"
                     PROVE  desk[c].ask.op = "reload"
        BY DEF ControlInv, TrailInv
      <3>2. desk[c].ask \in Asks[c]
        BY <3>1 DEF ControlInv, CallsFollow, CallFollows
      <3>3. QED
        BY <3>1, <3>2, RequestIs DEF Controlling!Writers
    <2>3. process.up => \A c \in Controlling!Writers : Reporting(c) => Preceded(c)
      BY DEF ControlInv, LineageInv, Controlling!Writers
    <2>4. QED
      BY <2>1, <2>2, <2>3 DEF ControlInv, Controlling!TrailIsTrue, Targets, Reporting, Preceded, NoSecret
  <1>3. QED
    BY <1>1, <1>2 DEF ControlInv, FileInv, ReloadInv, ControlIsKept

(* The control plane keeps, over crashes and restarts: the override of the *)
(* latest call that wrote, memory and file agreed where calls did not      *)
(* overlap, a true trail without secrets, and every module it took out.    *)
THEOREM ControlPlaneKeeps == Spec => []ControlIsKept
  <1> DEFINE Kept == focus = "control" => ControlInv
  <1>1. Init => Kept
    BY ControlStarts DEF Init
  <1>2. Kept /\ [Next]_vars => Kept'
    BY OneMoves, ControlStep
  <1>3. Kept => ControlIsKept
    BY ControlPromised DEF ControlIsKept
  <1> HIDE DEF Kept
  <1>4. QED
    BY <1>1, <1>2, <1>3, PTL DEF Spec
=============================================================================
