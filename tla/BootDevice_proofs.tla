--------------------------- MODULE BootDevice_proofs ---------------------------
(***************************************************************************)
(* BootDevice, for every set of builds and every bound on the failing sets *)
(* and the power cuts, when the commands do not overlap (Serial).          *)
(*                                                                         *)
(* At the end, the refinement: when no set fails, a store that commits as  *)
(* a whole makes every bootctl command atomic, and the device implements   *)
(* AbBoot property by property, at whatever step the power is cut.         *)
(***************************************************************************)
EXTENDS BootDevice, BootConfig_proofs

-----------------------------------------------------------------------------
(* The seven properties and their order. *)

LEMMA KeyOrderFacts ==
  /\ Len(KeyOrder) = 7
  /\ KeyOrder[1] = Active("a") /\ KeyOrder[2] = Bootable("a")
  /\ KeyOrder[3] = Successful("a") /\ KeyOrder[4] = Active("b")
  /\ KeyOrder[5] = Bootable("b") /\ KeyOrder[6] = Successful("b")
  /\ KeyOrder[7] = Try
  BY DEF KeyOrder

(* The commands go through every property, and through each once. *)
LEMMA KeyOrderIsOrder ==
  /\ \A j \in 1 .. 7 : KeyOrder[j] \in Keys
  /\ \A k \in Keys : \E j \in 1 .. 7 : KeyOrder[j] = k
  /\ \A i, j \in 1 .. 7 : KeyOrder[i] = KeyOrder[j] => i = j
<1>1. \A j \in 1 .. 7 : j = 1 \/ j = 2 \/ j = 3 \/ j = 4 \/ j = 5 \/ j = 6 \/ j = 7
  OBVIOUS
<1>2. \A j \in 1 .. 7 : KeyOrder[j] \in Keys
  BY <1>1, KeyOrderFacts DEF Keys, SlotKeys
<1>3. \A k \in Keys : \E j \in 1 .. 7 : KeyOrder[j] = k
  BY KeyOrderFacts DEF Keys, SlotKeys
<1>4. \A i, j \in 1 .. 7 : KeyOrder[i] = KeyOrder[j] => i = j
  BY <1>1, KeyOrderFacts DEF Active, Bootable, Successful, Try
<1> QED BY <1>2, <1>3, <1>4

(* Two configurations that agree on each property are the same. *)
LEMMA SameConfig ==
  ASSUME NEW c \in SUBSET Keys, NEW d \in SUBSET Keys,
         \A j \in 1 .. 7 : KeyOrder[j] \in c <=> KeyOrder[j] \in d
  PROVE  c = d
<1>1. \A k \in Keys : k \in c <=> k \in d
  BY KeyOrderIsOrder
<1> QED BY <1>1

(* What a command makes of the flags it read.                              *)
LEMMA ComputeIs ==
  ASSUME NEW c
  PROVE  /\ Compute("boot", c) = Boot(c).cfg
         /\ Compute("success", c) = SuccessCfg(c)
         /\ Compute("update", c) = UpdateCfg(c)
         /\ Compute("done", c) = DoneCfg(c)
<1>1. Compute("boot", c) = Boot(c).cfg
  BY Zenon DEF Compute
<1>2. Compute("success", c) = SuccessCfg(c)
  BY Zenon DEF Compute
<1>3. Compute("update", c) = UpdateCfg(c)
  BY Zenon DEF Compute
<1>4. Compute("done", c) = DoneCfg(c)
  BY Zenon DEF Compute
<1> QED BY <1>1, <1>2, <1>3, <1>4

(* Every command maps a configuration to a configuration, and the loader   *)
(* chooses a slot.                                                         *)
LEMMA ComputeType ==
  ASSUME NEW c \in SUBSET Keys, NEW op \in Ops \ {"none"}
  PROVE  Compute(op, c) \in SUBSET Keys /\ Boot(c).slot \in Slots
<1>1. Boot(c).cfg \in SUBSET Keys /\ Boot(c).slot \in Slots
  <2>1. /\ FreshCfg \in SUBSET Keys /\ c \cup {Try} \in SUBSET Keys
        /\ \A s \in Slots : c \ {Active(s), Bootable(s)} \in SUBSET Keys
    BY DEF FreshCfg, Keys, SlotKeys
  <2>2. \A d \in SUBSET Keys :
          SuccessSlot(d).cfg \in SUBSET Keys /\ SuccessSlot(d).slot \in Slots
    BY SuccessSlotFacts
  <2>3. CASE \E d \in SUBSET Keys : Boot(c) = SuccessSlot(d)
    BY <2>2, <2>3
  <2>4. CASE \E s \in Slots : Boot(c) = [slot |-> s, cfg |-> c \cup {Try}]
    BY <2>1, <2>4
  <2> QED BY <2>1, <2>3, <2>4, BootCases
<1>2. \A s \in Slots : {Active(s), Bootable(s), Successful(s)} \subseteq Keys
  BY DEF Slots, Keys, SlotKeys
<1>3. ActiveSlot(c) \in Slots /\ Target(c) \in Slots
  BY DEF ActiveSlot, Target, Other, Slots
<1>4. /\ SuccessCfg(c) \in SUBSET Keys
      /\ UpdateCfg(c) \in SUBSET Keys
      /\ DoneCfg(c) \in SUBSET Keys
  BY <1>2, <1>3 DEF SuccessCfg, UpdateCfg, DoneCfg
<1> QED BY <1>1, <1>4, ComputeIs DEF Ops

-----------------------------------------------------------------------------
(* What the steps of a command do, field by field. *)

Rest(p) == \A q \in Procs : q # p => call'[q] = call[q]

(* A command starts.                                                       *)
LEMMA EnterEffect ==
  ASSUME TypeOK, NEW p \in Procs, NEW op \in Ops, Enter(p, op)
  PROVE  /\ call' \in [Procs -> Calls] /\ Rest(p)
         /\ call'[p].op = op /\ call'[p].pc = "read" /\ call'[p].n = 0
         /\ call'[p].boot = {} /\ call'[p].slot = "a" /\ call'[p].ok = TRUE
<1> DEFINE r == [NoCall EXCEPT !.op = op, !.pc = "read"]
<1>1. /\ r.op = op /\ r.pc = "read" /\ r.n = 0
      /\ r.boot = {} /\ r.slot = "a" /\ r.ok = TRUE
  BY DEF NoCall
<1>2. NoCall \in Calls
  BY KeyOrderFacts DEF NoCall, Calls, Slots, Ops
<1>3. r \in Calls
  BY <1>2 DEF Calls
<1>4. call \in [Procs -> Calls] /\ call' = [call EXCEPT ![p] = r]
  BY DEF TypeOK, Enter
<1> HIDE DEF r
<1>5. call' \in [Procs -> Calls] /\ Rest(p) /\ call'[p] = r
  BY <1>3, <1>4 DEF Rest
<1> QED BY <1>1, <1>5

(* A command ends.                                                         *)
LEMMA LeaveEffect ==
  ASSUME TypeOK, NEW p \in Procs, Leave(p)
  PROVE  /\ call' \in [Procs -> Calls] /\ Rest(p)
         /\ call[p].pc = "return"
         /\ call'[p].op = "none" /\ call'[p].pc = "idle" /\ call'[p].n = 0
         /\ call'[p].ok = TRUE
<1>1. NoCall \in Calls
  BY KeyOrderFacts DEF NoCall, Calls, Slots, Ops
<1>2. call' \in [Procs -> Calls] /\ Rest(p) /\ call[p].pc = "return" /\ call'[p] = NoCall
  BY <1>1 DEF TypeOK, Leave, Rest
<1> QED BY <1>2 DEF NoCall

(* A key is read; behind the last one the command computes.                *)
LEMMA ReadEffect ==
  ASSUME TypeOK, NEW p \in Procs, ReadKey(p),
         call[p].op # "none", call[p].n \in 0 .. 6
  PROVE  LET c == call[p].boot \cup ({KeyOrder[call[p].n + 1]} \cap kv)
         IN  /\ call' \in [Procs -> Calls] /\ Rest(p)
             /\ UNCHANGED <<kv, nvs, mode, running, image, reported, ota, target,
                            working, proven, armed, slips, errors, cuts>>
             /\ c \in SUBSET Keys
             /\ call[p].pc = "read"
             /\ call'[p].op = call[p].op /\ call'[p].ok = call[p].ok
             /\ \/ /\ call[p].n < 6 /\ call'[p].n = call[p].n + 1
                   /\ call'[p].pc = "read"
                   /\ call'[p].boot = c
                   /\ call'[p].slot = call[p].slot
                \/ /\ call[p].n = 6 /\ call'[p].n = 0
                   /\ call'[p].boot = Compute(call[p].op, c)
                   /\ call'[p].slot = IF call[p].op = "boot" THEN Boot(c).slot
                                      ELSE call[p].slot
                   /\ call'[p].pc = IF Writes(call[p].op, c) THEN "write" ELSE "return"
<1> DEFINE m == call[p]
           c == m.boot \cup ({KeyOrder[m.n + 1]} \cap kv)
           slot == IF m.op = "boot" THEN Boot(c).slot ELSE m.slot
           pc == IF Writes(m.op, c) THEN "write" ELSE "return"
           more == [m EXCEPT !.n = m.n + 1, !.boot = c]
           last == [m EXCEPT !.n = 0, !.boot = Compute(m.op, c), !.slot = slot, !.pc = pc]
<1>1. /\ m.pc = "read"
      /\ call' = [call EXCEPT ![p] = IF m.n + 1 < Len(KeyOrder) THEN more ELSE last]
      /\ UNCHANGED <<kv, nvs, device, task, history, bounds>>
  BY DEF ReadKey
<1>2. /\ call \in [Procs -> Calls] /\ m \in Calls /\ m.boot \in SUBSET Keys
      /\ m.slot \in Slots /\ m.op \in Ops \ {"none"} /\ Len(KeyOrder) = 7
  BY KeyOrderFacts DEF TypeOK, Calls
<1>3. c \in SUBSET Keys
  BY <1>2, KeyOrderIsOrder
<1>4. /\ Compute(m.op, c) \in SUBSET Keys /\ slot \in Slots
      /\ pc \in {"idle", "read", "write", "commit", "return"}
  BY <1>2, <1>3, ComputeType
<1> HIDE DEF c, slot, pc
<1>5. /\ more.op = m.op /\ more.ok = m.ok /\ more.n = m.n + 1
      /\ more.pc = m.pc /\ more.boot = c /\ more.slot = m.slot
  BY <1>2 DEF Calls
<1>6. /\ last.op = m.op /\ last.ok = m.ok /\ last.n = 0
      /\ last.pc = pc /\ last.boot = Compute(m.op, c) /\ last.slot = slot
  BY <1>2 DEF Calls
<1>7. m.n < 6 => more \in Calls
  <2>1. m.n < 6 => m.n + 1 \in 0 .. Len(KeyOrder)
    BY <1>2
  <2> QED BY <1>2, <1>3, <2>1 DEF Calls
<1>8. last \in Calls
  <2>1. 0 \in 0 .. Len(KeyOrder)
    BY <1>2
  <2> QED BY <1>2, <1>4, <2>1 DEF Calls
<1> HIDE DEF more, last
<1>9. call' \in [Procs -> Calls] /\ Rest(p)
  BY <1>1, <1>2, <1>7, <1>8 DEF Rest
<1>10. \/ m.n < 6 /\ call'[p] = more
       \/ m.n = 6 /\ call'[p] = last
  BY <1>1, <1>2
<1> USE DEF c, slot, pc
<1> QED BY <1>1, <1>3, <1>5, <1>6, <1>9, <1>10 DEF device, task, history, bounds

(* A key is written; behind the last one comes the commit.                 *)
LEMMA WriteEffect ==
  ASSUME TypeOK, NEW p \in Procs, WriteKey(p), call[p].n \in 0 .. 6
  PROVE  LET k == KeyOrder[call[p].n + 1]
         IN  /\ call' \in [Procs -> Calls] /\ Rest(p)
             /\ UNCHANGED <<mode, running, image, reported, ota, target,
                            working, proven, armed, slips, errors, cuts>>
             /\ kv' \in SUBSET Keys /\ nvs' \in SUBSET Keys
             /\ \A j \in 1 .. 7 :
                  KeyOrder[j] \in kv' <=> IF j = call[p].n + 1
                                            THEN KeyOrder[j] \in call[p].boot
                                            ELSE KeyOrder[j] \in kv
             /\ ~build.direct => nvs' = nvs
             /\ build.direct /\ nvs = kv => nvs' = kv'
             /\ call[p].pc = "write"
             /\ call'[p].op = call[p].op /\ call'[p].ok = call[p].ok
             /\ call'[p].boot = call[p].boot /\ call'[p].slot = call[p].slot
             /\ \/ /\ call[p].n < 6 /\ call'[p].n = call[p].n + 1
                   /\ call'[p].pc = "write"
                \/ /\ call[p].n = 6 /\ call'[p].n = 0
                   /\ call'[p].pc = "commit"
<1> DEFINE m == call[p]
           k == KeyOrder[m.n + 1]
           more == [m EXCEPT !.n = m.n + 1]
           last == [m EXCEPT !.n = 0, !.pc = "commit"]
<1>1. /\ m.pc = "write"
      /\ kv' = Put(kv, k, m.boot)
      /\ nvs' = IF build.direct THEN Put(nvs, k, m.boot) ELSE nvs
      /\ call' = [call EXCEPT ![p] = IF m.n + 1 < Len(KeyOrder) THEN more ELSE last]
      /\ UNCHANGED <<device, task, history, bounds>>
  BY DEF WriteKey
<1>2. /\ call \in [Procs -> Calls] /\ m \in Calls /\ m.boot \in SUBSET Keys
      /\ Len(KeyOrder) = 7 /\ kv \in SUBSET Keys /\ nvs \in SUBSET Keys
  BY KeyOrderFacts DEF TypeOK, Calls
<1>3. /\ kv' \in SUBSET Keys /\ nvs' \in SUBSET Keys
      /\ ~build.direct => nvs' = nvs
      /\ build.direct /\ nvs = kv => nvs' = kv'
  BY <1>1, <1>2 DEF Put
<1>4. ASSUME NEW j \in 1 .. 7
      PROVE  KeyOrder[j] \in kv' <=> IF j = m.n + 1 THEN KeyOrder[j] \in m.boot
                                     ELSE KeyOrder[j] \in kv
  <2>1. m.n + 1 \in 1 .. 7
    OBVIOUS
  <2>2. j # m.n + 1 => KeyOrder[j] # k
    BY <2>1, KeyOrderIsOrder
  <2> HIDE DEF k
  <2>3. KeyOrder[j] \in kv' <=> IF KeyOrder[j] = k THEN k \in m.boot
                                ELSE KeyOrder[j] \in kv
    BY <1>1 DEF Put
  <2> QED BY <2>2, <2>3 DEF k
<1>5. /\ more.op = m.op /\ more.ok = m.ok /\ more.n = m.n + 1
      /\ more.pc = m.pc /\ more.boot = m.boot /\ more.slot = m.slot
  BY <1>2 DEF Calls
<1>6. /\ last.op = m.op /\ last.ok = m.ok /\ last.n = 0
      /\ last.pc = "commit" /\ last.boot = m.boot /\ last.slot = m.slot
  BY <1>2 DEF Calls
<1>7. m.n < 6 => more \in Calls
  <2>1. m.n < 6 => m.n + 1 \in 0 .. Len(KeyOrder)
    BY <1>2
  <2> QED BY <1>2, <2>1 DEF Calls
<1>8. last \in Calls
  <2>1. 0 \in 0 .. Len(KeyOrder)
    BY <1>2
  <2> QED BY <1>2, <2>1 DEF Calls
<1> HIDE DEF more, last
<1>9. call' \in [Procs -> Calls] /\ Rest(p)
  BY <1>1, <1>2, <1>7, <1>8 DEF Rest
<1>10. \/ m.n < 6 /\ call'[p] = more
       \/ m.n = 6 /\ call'[p] = last
  BY <1>1, <1>2
<1> QED BY <1>1, <1>3, <1>4, <1>5, <1>6, <1>9, <1>10 DEF device, task, history, bounds

(* The store is committed.                                                 *)
LEMMA CommitEffect ==
  ASSUME TypeOK, NEW p \in Procs, Commit(p)
  PROVE  /\ call' \in [Procs -> Calls] /\ Rest(p)
         /\ UNCHANGED <<kv, mode, image, ota, target, working, slips, errors, cuts>>
         /\ nvs' = kv
         /\ call[p].pc = "commit" /\ call'[p].pc = "return"
         /\ call'[p].op = call[p].op /\ call'[p].ok = call[p].ok
         /\ call'[p].n = call[p].n
         /\ call'[p].boot = call[p].boot /\ call'[p].slot = call[p].slot
         /\ call[p].op = "boot" => armed' = {}
         /\ call[p].op = "done" => armed' = {target}
         /\ call[p].op # "boot" /\ call[p].op # "done" => armed' = armed
         /\ reported' = (call[p].op # "boot" /\ (call[p].op = "success" \/ reported))
         /\ running' = IF call[p].op = "boot" THEN call[p].slot ELSE running
         /\ proven' = IF call[p].op = "success" THEN proven \cup {running} ELSE proven
<1> DEFINE m == call[p]
           r == [m EXCEPT !.pc = "return"]
<1>1. /\ m.op = "boot" => armed' = {}
      /\ m.op = "done" => armed' = {target}
      /\ m.op # "boot" /\ m.op # "done" => armed' = armed
  <2>1. m.op = "boot" => armed' = {}
    BY Zenon DEF Commit
  <2>2. m.op = "done" => armed' = {target}
    BY Zenon DEF Commit
  <2>3. (m.op # "boot" /\ m.op # "done") => armed' = armed
    BY Zenon DEF Commit
  <2> QED BY <2>1, <2>2, <2>3
<1>2. /\ m.pc = "commit" /\ nvs' = kv
      /\ call' = [call EXCEPT ![p].pc = "return"]
      /\ reported' = (m.op # "boot" /\ (m.op = "success" \/ reported))
      /\ running' = IF m.op = "boot" THEN m.slot ELSE running
      /\ proven' = IF m.op = "success" THEN proven \cup {running} ELSE proven
      /\ UNCHANGED <<kv, mode, image, ota, target, working, slips, bounds>>
  BY Zenon DEF Commit
<1>3. call \in [Procs -> Calls] /\ m \in Calls
  BY DEF TypeOK
<1>4. call' = [call EXCEPT ![p] = r]
  BY <1>2
<1>5. /\ r.op = m.op /\ r.ok = m.ok /\ r.n = m.n
      /\ r.pc = "return" /\ r.boot = m.boot /\ r.slot = m.slot
  BY <1>3 DEF Calls
<1>6. r \in Calls
  BY <1>3 DEF Calls
<1> HIDE DEF r
<1>7. call' \in [Procs -> Calls] /\ Rest(p) /\ call'[p] = r
  BY <1>3, <1>4, <1>6 DEF Rest
<1> QED BY <1>1, <1>2, <1>5, <1>7 DEF bounds

(* A write or a commit fails.                                              *)
LEMMA FailEffect ==
  ASSUME TypeOK, NEW p \in Procs, WriteFails(p)
  PROVE  /\ call' \in [Procs -> Calls] /\ Rest(p)
         /\ UNCHANGED <<kv, nvs, mode, running, image, reported, ota, target,
                        working, proven, armed, cuts>>
         /\ p \in Failing /\ errors < MaxErrors /\ errors' = errors + 1
         /\ call[p].pc \in {"write", "commit"} /\ call'[p].pc = "return"
         /\ call'[p].ok = FALSE
         /\ call'[p].op = call[p].op /\ call'[p].n = call[p].n
         /\ call'[p].boot = call[p].boot /\ call'[p].slot = call[p].slot
         /\ slips \subseteq slips' /\ slips' \subseteq slips \cup {"flags", "redo"}
         /\ p = "loader" /\ kv \ {Try} # call[p].boot \ {Try} => "flags" \in slips'
         /\ call[p].op = "done" /\ (call[p].pc # "write" \/ call[p].n # 0)
              => "redo" \in slips'
<1> DEFINE m == call[p]
           r == [m EXCEPT !.pc = "return", !.ok = FALSE]
<1>1. /\ m.pc \in {"write", "commit"} /\ p \in Failing
      /\ errors < MaxErrors /\ errors' = errors + 1
      /\ call' = [call EXCEPT ![p].pc = "return", ![p].ok = FALSE]
      /\ slips' = slips
           \cup (IF p = "loader" /\ kv \ {Try} # m.boot \ {Try} THEN {"flags"} ELSE {})
           \cup (IF m.op = "done" /\ <<m.pc, m.n>> # <<"write", 0>>
                 THEN {"redo"} ELSE {})
      /\ UNCHANGED <<kv, nvs, device, task, working, proven, armed, cuts>>
  BY DEF WriteFails
<1>2. call \in [Procs -> Calls] /\ m \in Calls
  BY DEF TypeOK
<1>3. call' = [call EXCEPT ![p] = r]
  BY <1>1, <1>2
<1>4. /\ r.op = m.op /\ r.ok = FALSE /\ r.n = m.n
      /\ r.pc = "return" /\ r.boot = m.boot /\ r.slot = m.slot
  BY <1>2 DEF Calls
<1>5. r \in Calls
  BY <1>2 DEF Calls
<1> HIDE DEF r
<1>6. call' \in [Procs -> Calls] /\ Rest(p) /\ call'[p] = r
  BY <1>2, <1>3, <1>5 DEF Rest
<1>7. /\ slips \subseteq slips' /\ slips' \subseteq slips \cup {"flags", "redo"}
      /\ p = "loader" /\ kv \ {Try} # m.boot \ {Try} => "flags" \in slips'
      /\ m.op = "done" /\ (m.pc # "write" \/ m.n # 0) => "redo" \in slips'
  BY <1>1
<1> QED BY <1>1, <1>4, <1>6, <1>7 DEF device, task

-----------------------------------------------------------------------------
(* The invariant the others rest on: who may run when, and what a command  *)
(* has read or written so far.                                             *)

(* Each process runs its own commands. *)
Roles ==
  /\ \A p \in Procs : call[p].op = "none" <=> Idle(p)
  /\ call["loader"].op \in {"none", "boot"}
  /\ call["init"].op \in {"none", "success"}
  /\ call["ota"].op \in {"none", "update", "done"}

(* The loader runs before the image, init reports before the OTA task      *)
(* starts, and the OTA task has one command for each of its states.        *)
Turns ==
  /\ mode = "ap" => Idle("loader")
  /\ mode = "off" => Idle("init") /\ Idle("ota") /\ ota = "idle"
  /\ ~Idle("init") /\ reported => call["init"].pc = "return" /\ call["init"].ok
  /\ ~Idle("ota") \/ ota # "idle" => reported /\ Idle("init")
  /\ call["ota"].op = "update" => ota = "idle"
  /\ call["ota"].op = "done" => ota = "flashed"

(* So a command reads a store nobody changes meanwhile, and the properties *)
(* it has written are the ones of its own copy.                            *)
Reads(m) == /\ m.n \in 0 .. 6
            /\ \A j \in 1 .. 7 :
                 KeyOrder[j] \in m.boot <=> j <= m.n /\ KeyOrder[j] \in kv

Wrote(m) == /\ m.n \in 0 .. 6
            /\ \A j \in 1 .. 7 :
                 j <= m.n => (KeyOrder[j] \in m.boot <=> KeyOrder[j] \in kv)

Phases ==
  \A p \in Procs : /\ call[p].pc = "read" => Reads(call[p])
                   /\ call[p].pc = "write" => Wrote(call[p])
                   /\ call[p].pc = "commit" => kv = call[p].boot
                   /\ ~call[p].ok => call[p].pc = "return"

DirectIsDurable == build.direct => nvs = kv

Base == TypeOK /\ Roles /\ Turns /\ Phases /\ DirectIsDurable

(* Base, when the device is switched on for the first time.                *)
LEMMA BaseInit == ASSUME Init PROVE Base
<1>1. TypeOK
  <2>1. call \in [Procs -> Calls]
    BY KeyOrderFacts DEF Init, NoCall, Calls, Slots, Ops
  <2>2. errors \in 0 .. MaxErrors /\ cuts \in 0 .. MaxCuts
    BY BoundAssumption DEF Init
  <2>3. /\ running \in Slots /\ target \in Slots /\ ota \in OtaStates
        /\ slips \subseteq Slips
    BY DEF Init, Slots, OtaStates
  <2> QED BY <2>1, <2>2, <2>3 DEF Init, TypeOK
<1>2. \A p \in Procs : call[p].op = "none" /\ call[p].pc = "idle" /\ call[p].ok
  BY DEF Init, NoCall
<1> QED BY <1>1, <1>2 DEF Init, Base, Roles, Turns, Phases, Idle, DirectIsDurable, Procs

(* While a process runs a command no other one does. *)
LEMMA Alone ==
  ASSUME Base, NEW p \in Procs, NEW q \in Procs, q # p, ~Idle(p)
  PROVE  Idle(q)
  BY DEF Base, TypeOK, Turns, Procs

(* What a process may do depends on the process that is busy. *)
LEMMA Busy ==
  ASSUME Base, NEW p \in Procs, ~Idle(p)
  PROVE  /\ p = "loader" => mode = "off" /\ call[p].op = "boot"
         /\ p = "init" => /\ mode = "ap" /\ call[p].op = "success"
                          /\ reported => call[p].pc = "return" /\ call[p].ok
         /\ p = "ota" => /\ mode = "ap" /\ call[p].op \in {"update", "done"}
                         /\ reported
         /\ p # "ota" => ota = "idle"
         /\ call[p].op # "none"
  BY DEF Base, TypeOK, Turns, Roles, Procs

(* Base, when a key is read.                                               *)
LEMMA ReadBase ==
  ASSUME Base, NEW p \in Procs, ReadKey(p), UNCHANGED build
  PROVE  Base'
<1> DEFINE m == call[p]
           c == m.boot \cup ({KeyOrder[m.n + 1]} \cap kv)
<1>1. TypeOK /\ m.pc = "read" /\ Reads(m) /\ ~Idle(p)
  BY DEF Base, Phases, ReadKey, Idle
<1>2. m.op # "none" /\ m.n \in 0 .. 6 /\ m.ok
  BY <1>1, Busy DEF Reads, Base, Phases
<1>3. /\ call' \in [Procs -> Calls] /\ Rest(p)
      /\ UNCHANGED <<kv, nvs, mode, running, image, reported, ota, target,
                     working, proven, armed, slips, errors, cuts>>
      /\ call'[p].op = m.op /\ call'[p].ok = m.ok
      /\ \/ /\ m.n < 6 /\ call'[p].n = m.n + 1 /\ call'[p].pc = "read"
            /\ call'[p].boot = c
         \/ /\ call'[p].n = 0 /\ call'[p].pc \in {"write", "return"}
  BY <1>1, <1>2, ReadEffect
<1>4. TypeOK'
  BY <1>1, <1>3 DEF TypeOK
<1>5. Roles'
  BY <1>1, <1>2, <1>3 DEF Base, Roles, Rest, Idle, Procs
<1>6. Turns'
  BY <1>1, <1>2, <1>3, Busy DEF Base, Turns, Rest, Idle, Procs
<1>7. Phases'
  <2> SUFFICES ASSUME NEW q \in Procs
               PROVE  /\ call'[q].pc = "read" => Reads(call[q])'
                      /\ call'[q].pc = "write" => Wrote(call[q])'
                      /\ call'[q].pc = "commit" => kv' = call'[q].boot
                      /\ ~call'[q].ok => call'[q].pc = "return"
    BY DEF Phases
  <2>1. CASE q # p
    BY <2>1, <1>3 DEF Base, Phases, Rest, Reads, Wrote
  <2>2. CASE q = p /\ m.n < 6 /\ call'[p].n = m.n + 1 /\ call'[p].boot = c
             /\ call'[p].pc = "read"
    <3>1. ASSUME NEW j \in 1 .. 7
          PROVE  KeyOrder[j] \in c <=> j <= m.n + 1 /\ KeyOrder[j] \in kv
      <4>1. m.n + 1 \in 1 .. 7
        BY <1>2
      <4>2. KeyOrder[j] = KeyOrder[m.n + 1] <=> j = m.n + 1
        BY <4>1, KeyOrderIsOrder
      <4>3. KeyOrder[j] \in m.boot <=> j <= m.n /\ KeyOrder[j] \in kv
        BY <1>1 DEF Reads
      <4> QED BY <1>2, <4>2, <4>3
    <3>2. Reads(call[q])'
      BY <2>2, <3>1, <1>2, <1>3 DEF Reads
    <3> QED BY <2>2, <3>2, <1>2, <1>3
  <2>3. CASE q = p /\ call'[p].n = 0 /\ call'[p].pc \in {"write", "return"}
    BY <2>3, <1>2, <1>3 DEF Wrote
  <2> QED BY <2>1, <2>2, <2>3, <1>3
<1>8. DirectIsDurable'
  BY <1>3 DEF Base, DirectIsDurable
<1> QED BY <1>4, <1>5, <1>6, <1>7, <1>8 DEF Base

(* Base, when a key is written.                                            *)
LEMMA WriteBase ==
  ASSUME Base, NEW p \in Procs, WriteKey(p), UNCHANGED build
  PROVE  Base'
<1> DEFINE m == call[p]
<1>1. TypeOK /\ m.pc = "write" /\ Wrote(m) /\ ~Idle(p)
  BY DEF Base, Phases, WriteKey, Idle
<1>2. m.op # "none" /\ m.n \in 0 .. 6 /\ m.ok /\ m.boot \in SUBSET Keys
  BY <1>1, Busy DEF Wrote, Base, Phases, TypeOK, Calls
<1>3. /\ call' \in [Procs -> Calls] /\ Rest(p)
      /\ UNCHANGED <<mode, running, image, reported, ota, target,
                     working, proven, armed, slips, errors, cuts>>
      /\ kv' \in SUBSET Keys /\ nvs' \in SUBSET Keys
      /\ \A j \in 1 .. 7 :
           KeyOrder[j] \in kv' <=> IF j = m.n + 1 THEN KeyOrder[j] \in m.boot
                                   ELSE KeyOrder[j] \in kv
      /\ build.direct /\ nvs = kv => nvs' = kv'
      /\ call'[p].op = m.op /\ call'[p].ok = m.ok /\ call'[p].boot = m.boot
      /\ \/ /\ m.n < 6 /\ call'[p].n = m.n + 1 /\ call'[p].pc = "write"
         \/ /\ m.n = 6 /\ call'[p].n = 0 /\ call'[p].pc = "commit"
  BY <1>1, <1>2, WriteEffect
<1>4. TypeOK'
  BY <1>1, <1>3 DEF TypeOK
<1>5. Roles'
  BY <1>1, <1>2, <1>3 DEF Base, Roles, Rest, Idle, Procs
<1>6. Turns'
  BY <1>1, <1>2, <1>3, Busy DEF Base, Turns, Rest, Idle, Procs
<1>7. Phases'
  <2> SUFFICES ASSUME NEW q \in Procs
               PROVE  /\ call'[q].pc = "read" => Reads(call[q])'
                      /\ call'[q].pc = "write" => Wrote(call[q])'
                      /\ call'[q].pc = "commit" => kv' = call'[q].boot
                      /\ ~call'[q].ok => call'[q].pc = "return"
    BY DEF Phases
  <2>1. CASE q # p
    BY <2>1, <1>1, <1>3, Alone DEF Base, Phases, Rest, Idle
  <2>2. ASSUME NEW j \in 1 .. 7, j <= m.n + 1
        PROVE  KeyOrder[j] \in m.boot <=> KeyOrder[j] \in kv'
    BY <2>2, <1>1, <1>2, <1>3 DEF Wrote
  <2>3. CASE q = p /\ m.n < 6 /\ call'[p].n = m.n + 1 /\ call'[p].pc = "write"
    BY <2>3, <2>2, <1>2, <1>3 DEF Wrote
  <2>4. CASE q = p /\ m.n = 6 /\ call'[p].pc = "commit"
    <3>1. kv' = m.boot
      BY <2>4, <2>2, <1>2, <1>3, SameConfig
    <3> QED BY <2>4, <3>1, <1>2, <1>3
  <2> QED BY <2>1, <2>3, <2>4, <1>3
<1>8. DirectIsDurable'
  BY <1>3 DEF Base, DirectIsDurable
<1> QED BY <1>4, <1>5, <1>6, <1>7, <1>8 DEF Base

(* Base, when the store is committed.                                      *)
LEMMA CommitBase ==
  ASSUME Base, NEW p \in Procs, Commit(p), UNCHANGED build
  PROVE  Base'
<1> DEFINE m == call[p]
<1>1. TypeOK /\ m.pc = "commit" /\ ~Idle(p) /\ m.ok /\ m \in Calls /\ m.slot \in Slots
  BY DEF Base, Phases, Commit, Idle, TypeOK, Calls
<1>2. /\ call' \in [Procs -> Calls] /\ Rest(p)
      /\ UNCHANGED <<kv, mode, image, ota, target, working, slips, errors, cuts>>
      /\ nvs' = kv
      /\ m.pc = "commit" /\ call'[p].pc = "return"
      /\ call'[p].op = m.op /\ call'[p].ok = m.ok
      /\ m.op = "boot" => armed' = {}
      /\ m.op = "done" => armed' = {target}
      /\ m.op # "boot" /\ m.op # "done" => armed' = armed
      /\ reported' = (m.op # "boot" /\ (m.op = "success" \/ reported))
      /\ running' = IF m.op = "boot" THEN m.slot ELSE running
      /\ proven' = IF m.op = "success" THEN proven \cup {running} ELSE proven
  BY <1>1, CommitEffect
<1>3. TypeOK'
  <2>1. proven' \in SUBSET Slots /\ armed' \in SUBSET Slots /\ running' \in Slots
    BY <1>1, <1>2 DEF TypeOK
  <2>2. reported' \in BOOLEAN
    BY <1>1, <1>2, Zenon DEF TypeOK
  <2> QED BY <1>1, <1>2, <2>1, <2>2 DEF TypeOK
<1>4. Roles'
  BY <1>1, <1>2, Busy DEF Base, Roles, Rest, Idle, Procs
<1>5. Turns'
  <2>1. CASE p = "loader"
    BY <2>1, <1>1, <1>2, Busy DEF Base, Turns, Rest, Idle, Procs
  <2>2. CASE p = "init"
    BY <2>2, <1>1, <1>2, Busy DEF Base, Turns, Rest, Idle, Procs
  <2>3. CASE p = "ota"
    BY <2>3, <1>1, <1>2, Busy DEF Base, Turns, Rest, Idle, Procs
  <2> QED BY <2>1, <2>2, <2>3 DEF Procs
<1>6. Phases'
  BY <1>1, <1>2, Alone DEF Base, Phases, Rest, Idle, Reads, Wrote
<1>7. DirectIsDurable'
  BY <1>2 DEF DirectIsDurable
<1> QED BY <1>3, <1>4, <1>5, <1>6, <1>7 DEF Base

(* Base, when a write or a commit fails.                                   *)
LEMMA FailBase ==
  ASSUME Base, NEW p \in Procs, WriteFails(p), UNCHANGED build
  PROVE  Base'
<1> DEFINE m == call[p]
<1>1. TypeOK /\ m.pc \in {"write", "commit"} /\ ~Idle(p) /\ m.op # "none"
  BY Busy DEF Base, WriteFails, Idle
<1>2. /\ call' \in [Procs -> Calls] /\ Rest(p)
      /\ UNCHANGED <<kv, nvs, mode, running, image, reported, ota, target,
                     working, proven, armed, cuts>>
      /\ errors < MaxErrors /\ errors' = errors + 1
      /\ call'[p].pc = "return" /\ call'[p].op = m.op
      /\ slips' \subseteq slips \cup {"flags", "redo"}
  BY <1>1, FailEffect
<1>3. TypeOK'
  <2>1. errors' \in 0 .. MaxErrors
    BY <1>1, <1>2, BoundAssumption DEF TypeOK
  <2>2. slips' \subseteq Slips
    BY <1>1, <1>2 DEF TypeOK, Slips
  <2> QED BY <1>1, <1>2, <2>1, <2>2 DEF TypeOK
<1>4. Roles'
  BY <1>1, <1>2 DEF Base, Roles, Rest, Idle, Procs
<1>5. Turns'
  <2>1. CASE p = "loader"
    BY <2>1, <1>1, <1>2, Busy DEF Base, Turns, Rest, Idle, Procs
  <2>2. CASE p = "init"
    BY <2>2, <1>1, <1>2, Busy DEF Base, Turns, Rest, Idle, Procs
  <2>3. CASE p = "ota"
    BY <2>3, <1>1, <1>2, Busy DEF Base, Turns, Rest, Idle, Procs
  <2> QED BY <2>1, <2>2, <2>3 DEF Procs
<1>6. Phases'
  BY <1>1, <1>2, Alone DEF Base, Phases, Rest, Idle, Reads, Wrote
<1>7. DirectIsDurable'
  BY <1>2 DEF Base, DirectIsDurable
<1> QED BY <1>3, <1>4, <1>5, <1>6, <1>7 DEF Base

(* A command starts on an empty copy. *)
LEMMA EnterBase ==
  ASSUME Base, NEW p \in Procs, Idle(p), LoaderStart \/ InitStart \/ UpdateStart \/ DoneStart,
         NEW op \in Ops \ {"none"}, Enter(p, op),
         p = "loader" => op = "boot" /\ mode = "off",
         p = "init" => op = "success" /\ mode = "ap" /\ ~reported,
         p = "ota" => /\ op \in {"update", "done"} /\ mode = "ap"
                      /\ reported /\ Idle("init")
                      /\ op = "update" => ota = "idle"
                      /\ op = "done" => ota = "flashed",
         UNCHANGED build
  PROVE  Base'
<1>1. /\ call' \in [Procs -> Calls] /\ Rest(p)
      /\ call'[p].op = op /\ call'[p].pc = "read" /\ call'[p].n = 0
      /\ call'[p].boot = {} /\ call'[p].ok = TRUE
  BY EnterEffect DEF Base
<1>2. /\ UNCHANGED <<kv, nvs, mode, running, image, reported, ota, target,
                     proven, armed, errors, cuts>>
      /\ working' \in SUBSET Slots /\ slips' \subseteq Slips
  BY DEF Base, TypeOK, LoaderStart, InitStart, UpdateStart, DoneStart, device,
     task, history, bounds, Slips
<1>3. TypeOK'
  BY <1>1, <1>2 DEF Base, TypeOK
<1>4. Roles'
  BY <1>1 DEF Base, Roles, Rest, Idle, Procs
<1>5. Turns'
  BY <1>1, <1>2 DEF Base, TypeOK, Turns, Rest, Idle, Procs
<1>6. Phases'
  <2>1. Reads(call[p])'
    BY <1>1 DEF Reads
  <2> QED BY <1>1, <1>2, <2>1 DEF Base, Phases, Rest, Reads, Wrote
<1>7. DirectIsDurable'
  BY <1>2 DEF Base, DirectIsDurable
<1> QED BY <1>3, <1>4, <1>5, <1>6, <1>7 DEF Base

(* Base, when a command starts.                                            *)
LEMMA StartBase ==
  ASSUME Base, Serial, LoaderStart \/ InitStart \/ UpdateStart \/ DoneStart,
         UNCHANGED build
  PROVE  Base'
<1>1. CASE LoaderStart
  BY <1>1, EnterBase DEF LoaderStart, Procs, Ops
<1>2. CASE InitStart
  BY <1>2, EnterBase DEF InitStart, Procs, Ops
<1>3. CASE UpdateStart
  BY <1>3, EnterBase DEF UpdateStart, MayWork, Procs, Ops
<1>4. CASE DoneStart
  BY <1>4, EnterBase DEF DoneStart, MayWork, Procs, Ops
<1> QED BY <1>1, <1>2, <1>3, <1>4

(* A command ends and its caller goes on. *)
LEMMA EndBase ==
  ASSUME Base, LoaderJump \/ InitEnd \/ UpdateEnd \/ DoneEnd, UNCHANGED build
  PROVE  Base'
<1>1. PICK p \in Procs : /\ Leave(p)
                         /\ p = "loader" => LoaderJump
                         /\ p = "init" => InitEnd
                         /\ p = "ota" => UpdateEnd \/ DoneEnd
  BY DEF Procs, LoaderJump, InitEnd, UpdateEnd, DoneEnd
<1>2. /\ call' \in [Procs -> Calls] /\ Rest(p) /\ call[p].pc = "return"
      /\ call'[p].op = "none" /\ call'[p].pc = "idle" /\ call'[p].ok = TRUE
  BY <1>1, LeaveEffect DEF Base
<1>3. ~Idle(p) /\ TypeOK /\ call[p] \in Calls
  BY <1>2 DEF Idle, Base, TypeOK
<1>4. TypeOK'
  <2>1. CASE p = "loader"
    BY <2>1, <1>1, <1>2, <1>3 DEF LoaderJump, TypeOK, Calls, bounds
  <2>2. CASE p = "init"
    <3>1. reported' \in BOOLEAN
      BY <2>2, <1>1 DEF InitEnd
    <3>2. proven' \in SUBSET Slots
      BY <2>2, <1>1, <1>3 DEF InitEnd, TypeOK
    <3> QED BY <2>2, <1>1, <1>2, <1>3, <3>1, <3>2 DEF InitEnd, TypeOK, device, bounds
  <2>3. CASE p = "ota"
    BY <2>3, <1>1, <1>2, <1>3 DEF UpdateEnd, DoneEnd, TypeOK, OtaStates, device,
       history, bounds
  <2> QED BY <2>1, <2>2, <2>3 DEF Procs
<1>5. Roles'
  BY <1>2 DEF Base, Roles, Rest, Idle, Procs
<1>6. Turns'
  <2>1. CASE p = "loader"
    BY <2>1, <1>1, <1>2, <1>3, Busy DEF Base, Turns, Rest, Idle, Procs, LoaderJump
  <2>2. CASE p = "init"
    <3>1. UNCHANGED <<mode, ota>>
      BY <2>2, <1>1, Zenon DEF InitEnd, device
    <3>2. Idle("ota") /\ Idle("loader") /\ ota = "idle" /\ mode = "ap"
      BY <2>2, <1>3, Busy, Alone DEF Procs
    <3>3. call["ota"].op = "none"
      BY <3>2 DEF Base, Roles, Procs
    <3> QED BY <2>2, <1>2, <3>1, <3>2, <3>3 DEF Turns, Rest, Idle, Procs
  <2>3. CASE p = "ota"
    <3>1. UNCHANGED <<mode, reported>>
      BY <2>3, <1>1 DEF UpdateEnd, DoneEnd, device
    <3>2. Idle("init") /\ Idle("loader") /\ mode = "ap" /\ reported
      BY <2>3, <1>3, Busy, Alone DEF Procs
    <3> QED BY <2>3, <1>2, <3>1, <3>2 DEF Turns, Rest, Idle, Procs
  <2> QED BY <2>1, <2>2, <2>3 DEF Procs
<1>7. UNCHANGED <<kv, nvs>>
  BY <1>1 DEF LoaderJump, InitEnd, UpdateEnd, DoneEnd, Procs
<1>8. Phases'
  BY <1>2, <1>7 DEF Base, Phases, Rest, Reads, Wrote
<1>9. DirectIsDurable'
  BY <1>7 DEF Base, DirectIsDurable
<1> QED BY <1>4, <1>5, <1>6, <1>8, <1>9 DEF Base

(* Base, when an image is written.                                         *)
LEMMA FlashBase ==
  ASSUME Base, Serial, FlashBegin \/ FlashEnd \/ FlashFail, UNCHANGED build
  PROVE  Base'
<1>1. /\ UNCHANGED <<kv, nvs, call, mode, running, reported, armed, slips, errors, cuts>>
      /\ mode = "ap" /\ ota \in {"updated", "flashing"}
      /\ ota' \in {"idle", "flashing", "flashed"}
  <2>1. CASE FlashBegin
    BY <2>1 DEF FlashBegin, MayWork, bounds
  <2>2. CASE FlashEnd
    BY <2>2 DEF FlashEnd, history, bounds
  <2>3. CASE FlashFail
    BY <2>3 DEF FlashFail, device, history, bounds
  <2> QED BY <2>1, <2>2, <2>3
<1>2. TypeOK'
  <2>1. image' \in [Slots -> Images] /\ target' \in Slots
    <3>1. CASE FlashBegin
      <4>1. target' = Target(kv) /\ Target(kv) \in Slots
        BY <3>1 DEF FlashBegin, Target, Other, Slots
      <4> QED BY <3>1, <4>1 DEF FlashBegin, Base, TypeOK, Images
    <3>2. CASE FlashEnd
      BY <3>2 DEF FlashEnd, Base, TypeOK, Images
    <3>3. CASE FlashFail
      BY <3>3 DEF FlashFail, Base, TypeOK, device
    <3> QED BY <3>1, <3>2, <3>3
  <2>2. working' \in SUBSET Slots /\ proven' \in SUBSET Slots
    BY DEF FlashBegin, FlashEnd, FlashFail, history, Base, TypeOK
  <2>3. ota' \in OtaStates
    BY <1>1 DEF OtaStates
  <2> QED BY <1>1, <2>1, <2>2, <2>3 DEF Base, TypeOK
<1>3. Roles'
  BY <1>1 DEF Base, Roles, Idle
<1>4. Turns'
  BY <1>1 DEF Base, Turns, Roles, Idle, Procs
<1>5. Phases'
  BY <1>1 DEF Base, Phases, Reads, Wrote
<1>6. DirectIsDurable'
  BY <1>1 DEF Base, DirectIsDurable
<1> QED BY <1>2, <1>3, <1>4, <1>5, <1>6 DEF Base

(* A restart, whatever caused it. *)
LEMMA RestartBase ==
  ASSUME Base, Reboot \/ PowerCut \/ Watchdog, UNCHANGED build
  PROVE  Base'
<1>1. Restart
  BY DEF Reboot, PowerCut, Watchdog
<1>2. \A p \in Procs : /\ call'[p].op = "none" /\ call'[p].pc = "idle"
                       /\ call'[p].ok /\ call'[p].n = 0
  BY <1>1 DEF Restart, NoCall
<1>3. TypeOK'
  <2>1. call' \in [Procs -> Calls]
    BY <1>1, KeyOrderFacts DEF Restart, NoCall, Calls, Slots, Ops
  <2>2. cuts' \in 0 .. MaxCuts /\ slips' \subseteq Slips
    <3>1. CASE PowerCut
      <4>1. slips' \subseteq slips \cup {"fallback", "done"}
        BY <3>1 DEF PowerCut
      <4>2. cuts' \in 0 .. MaxCuts
        BY <3>1, BoundAssumption DEF PowerCut, Base, TypeOK
      <4> QED BY <4>1, <4>2 DEF Base, TypeOK, Slips
    <3>2. CASE Reboot \/ Watchdog
      BY <3>2 DEF Base, TypeOK, Reboot, Watchdog
    <3> QED BY <3>1, <3>2
  <2> QED BY <1>1, <2>1, <2>2 DEF Base, TypeOK, Restart, OtaStates
<1>4. Roles' /\ Turns'
  BY <1>1, <1>2 DEF Roles, Turns, Idle, Procs, Restart
<1>5. Phases' /\ DirectIsDurable'
  BY <1>1, <1>2 DEF Phases, DirectIsDurable, Restart
<1> QED BY <1>3, <1>4, <1>5 DEF Base

(* Base, across every step.                                                *)
LEMMA BaseStep ==
  ASSUME Base, Serial, [Next]_vars
  PROVE  Base'
<1>1. CASE UNCHANGED vars
  BY <1>1 DEF vars, device, task, history, bounds, Base, TypeOK, Roles, Turns,
     Phases, Reads, Wrote, DirectIsDurable, Idle
<1>2. ASSUME NEW p \in Procs, Step(p), UNCHANGED build
      PROVE  Base'
  BY <1>2, ReadBase, WriteBase, CommitBase DEF Step
<1>3. CASE Next
  BY <1>2, <1>3, FailBase, StartBase, EndBase, FlashBase, RestartBase
     DEF Next, LoaderNext, InitNext, OtaNext, Reset, Procs
<1> QED BY <1>1, <1>3

(* Type correctness: no sequence of commands, mishaps and restarts takes a *)
(* flag, a slot or a command's own copy out of its type.                   *)
THEOREM DeviceTypeCorrect == ASSUME Serial PROVE Spec => []TypeOK
<1>1. Init => Base
  BY BaseInit
<1>2. Base /\ [Next]_vars => Base'
  BY BaseStep
<1>3. Base => TypeOK
  BY DEF Base
<1> QED BY <1>1, <1>2, <1>3, PTL DEF Spec

-----------------------------------------------------------------------------
(* With Base, what each step of a command amounts to. *)

(* The last read has collected the whole of the live store. *)
LEMMA ReadStep ==
  ASSUME Base, NEW p \in Procs, ReadKey(p)
  PROVE  /\ Rest(p) /\ ~Idle(p) /\ call[p].pc = "read"
         /\ UNCHANGED <<kv, nvs, mode, running, image, reported, ota, target,
                        working, proven, armed, slips, errors, cuts>>
         /\ call'[p].op = call[p].op /\ call[p].ok /\ call'[p].ok
         /\ \/ /\ call'[p].pc = "read" /\ call'[p].slot = call[p].slot
            \/ /\ call'[p].n = 0
               /\ call'[p].boot = Compute(call[p].op, kv)
               /\ call'[p].slot = IF call[p].op = "boot" THEN Boot(kv).slot
                                  ELSE call[p].slot
               /\ call'[p].pc = IF Writes(call[p].op, kv) THEN "write" ELSE "return"
<1> DEFINE m == call[p]
           c == m.boot \cup ({KeyOrder[m.n + 1]} \cap kv)
<1>1. TypeOK /\ m.pc = "read" /\ Reads(m) /\ ~Idle(p)
  BY DEF Base, Phases, ReadKey, Idle
<1>2. m.op # "none" /\ m.n \in 0 .. 6 /\ m.ok /\ kv \in SUBSET Keys
  BY <1>1, Busy DEF Reads, Base, Phases, TypeOK
<1>3. /\ Rest(p)
      /\ UNCHANGED <<kv, nvs, mode, running, image, reported, ota, target,
                     working, proven, armed, slips, errors, cuts>>
      /\ c \in SUBSET Keys
      /\ call'[p].op = m.op /\ call'[p].ok = m.ok
      /\ \/ call'[p].pc = "read" /\ call'[p].slot = m.slot
         \/ /\ m.n = 6 /\ call'[p].n = 0
            /\ call'[p].boot = Compute(m.op, c)
            /\ call'[p].slot = IF m.op = "boot" THEN Boot(c).slot ELSE m.slot
            /\ call'[p].pc = IF Writes(m.op, c) THEN "write" ELSE "return"
  BY <1>1, <1>2, ReadEffect
<1>4. m.n = 6 => c = kv
  <2> SUFFICES ASSUME m.n = 6, NEW j \in 1 .. 7
               PROVE  KeyOrder[j] \in c <=> KeyOrder[j] \in kv
    BY <1>2, <1>3, SameConfig
  <2>1. KeyOrder[j] = KeyOrder[7] <=> j = 7
    BY KeyOrderIsOrder
  <2> QED BY <2>1, <1>1 DEF Reads
<1> HIDE DEF c
<1> QED BY <1>1, <1>2, <1>3, <1>4

(* What Base adds to the effect of a write: the call is on its way and, in *)
(* a direct store, what is written is durable.                             *)
LEMMA WriteStep ==
  ASSUME Base, NEW p \in Procs, WriteKey(p)
  PROVE  /\ Rest(p) /\ ~Idle(p) /\ call[p].pc = "write" /\ call[p].n \in 0 .. 6
         /\ UNCHANGED <<mode, running, image, reported, ota, target,
                        working, proven, armed, slips, errors, cuts>>
         /\ kv' \in SUBSET Keys /\ nvs' \in SUBSET Keys
         /\ \A j \in 1 .. 7 :
              KeyOrder[j] \in kv' <=> IF j = call[p].n + 1
                                        THEN KeyOrder[j] \in call[p].boot
                                        ELSE KeyOrder[j] \in kv
         /\ nvs' = IF build.direct THEN kv' ELSE nvs
         /\ call'[p].op = call[p].op /\ call[p].ok /\ call'[p].ok
         /\ call'[p].boot = call[p].boot /\ call'[p].slot = call[p].slot
         /\ \/ /\ call[p].n < 6 /\ call'[p].n = call[p].n + 1
               /\ call'[p].pc = "write"
            \/ /\ call[p].n = 6 /\ call'[p].n = 0
               /\ call'[p].pc = "commit"
<1>1. /\ TypeOK /\ call[p].pc = "write" /\ ~Idle(p) /\ call[p].n \in 0 .. 6
      /\ call[p].ok /\ (build.direct => nvs = kv)
  BY DEF Base, Phases, WriteKey, Idle, Wrote, DirectIsDurable
<1> QED BY <1>1, WriteEffect

(* What Base adds to the effect of a commit: the store holds what the      *)
(* command computed.                                                       *)
LEMMA CommitStep ==
  ASSUME Base, NEW p \in Procs, Commit(p)
  PROVE  /\ Rest(p) /\ ~Idle(p) /\ kv = call[p].boot
         /\ UNCHANGED <<kv, mode, image, ota, target, working, slips, errors, cuts>>
         /\ nvs' = kv
         /\ call[p].pc = "commit" /\ call'[p].pc = "return"
         /\ call'[p].op = call[p].op /\ call[p].ok /\ call'[p].ok
         /\ call'[p].boot = call[p].boot /\ call'[p].slot = call[p].slot
         /\ call[p].op = "boot" => armed' = {}
         /\ call[p].op = "done" => armed' = {target}
         /\ call[p].op # "boot" /\ call[p].op # "done" => armed' = armed
         /\ reported' = (call[p].op # "boot" /\ (call[p].op = "success" \/ reported))
         /\ running' = IF call[p].op = "boot" THEN call[p].slot ELSE running
         /\ proven' = IF call[p].op = "success" THEN proven \cup {running} ELSE proven
<1>1. TypeOK /\ call[p].pc = "commit" /\ ~Idle(p) /\ kv = call[p].boot /\ call[p].ok
  BY DEF Base, Phases, Commit, Idle
<1> QED BY <1>1, CommitEffect

(* What Base adds to the effect of a failure: what was written when no     *)
(* slip is recorded.                                                       *)
LEMMA FailStep ==
  ASSUME Base, NEW p \in Procs, WriteFails(p)
  PROVE  /\ Rest(p) /\ ~Idle(p)
         /\ UNCHANGED <<kv, nvs, mode, running, image, reported, ota, target,
                        working, proven, armed, cuts>>
         /\ call[p].pc \in {"write", "commit"} /\ call'[p].pc = "return"
         /\ call[p].pc = "commit" => kv = call[p].boot
         /\ ~call'[p].ok
         /\ call'[p].op = call[p].op /\ call'[p].n = call[p].n
         /\ call'[p].boot = call[p].boot /\ call'[p].slot = call[p].slot
         /\ p \in Failing /\ slips \subseteq slips'
         /\ p = "loader" /\ "flags" \notin slips' => kv \ {Try} = call[p].boot \ {Try}
         /\ call[p].op = "done" /\ "redo" \notin slips'
              => call[p].pc = "write" /\ call[p].n = 0
<1>1. /\ TypeOK /\ ~Idle(p)
      /\ call[p].pc = "commit" => kv = call[p].boot
  BY DEF Base, Phases, WriteFails, Idle
<1> QED BY <1>1, FailEffect

(* A command starts: nothing but its own record changes, and the history.  *)
LEMMA StartStep ==
  ASSUME Base, Serial, NEW p \in Procs,
         \/ p = "loader" /\ LoaderStart
         \/ p = "init" /\ InitStart
         \/ p = "ota" /\ (UpdateStart \/ DoneStart)
  PROVE  /\ Rest(p) /\ Idle(p) /\ call[p].op = "none"
         /\ call'[p].pc = "read" /\ call'[p].ok
         /\ UNCHANGED <<kv, nvs, mode, running, image, reported, ota, target,
                        proven, armed, errors, cuts>>
         /\ LoaderStart => /\ call'[p].op = "boot" /\ mode = "off"
                           /\ UNCHANGED <<working, slips>>
         /\ InitStart => /\ call'[p].op = "success" /\ mode = "ap" /\ ~reported
                         /\ image[running] = "good" /\ ota = "idle" /\ Idle("ota")
                         /\ working' = working \cup {running} /\ UNCHANGED slips
         /\ UpdateStart \/ DoneStart
              => /\ image[running] = "good" /\ mode = "ap" /\ reported
                 /\ Idle("init") /\ UNCHANGED working /\ slips \subseteq slips'
         /\ UpdateStart => /\ call'[p].op = "update" /\ ota = "idle"
                           /\ "report" \notin slips' => Successful(running) \in kv
                           /\ slips' \subseteq slips \cup {"report"}
         /\ DoneStart => /\ call'[p].op = "done" /\ ota = "flashed" /\ UNCHANGED slips
<1>1. PICK op \in Ops \ {"none"} :
        /\ Enter(p, op) /\ Idle(p)
        /\ UNCHANGED <<kv, nvs, mode, running, image, reported, ota, target,
                       proven, armed, errors, cuts>>
        /\ LoaderStart => op = "boot" /\ mode = "off" /\ UNCHANGED <<working, slips>>
        /\ InitStart => /\ op = "success" /\ mode = "ap" /\ ~reported
                        /\ image[running] = "good"
                        /\ working' = working \cup {running} /\ UNCHANGED slips
        /\ UpdateStart \/ DoneStart
             => /\ image[running] = "good" /\ mode = "ap" /\ reported
                /\ Idle("init") /\ UNCHANGED working /\ slips \subseteq slips'
        /\ UpdateStart => /\ op = "update" /\ ota = "idle"
                          /\ "report" \notin slips' => Successful(running) \in kv
                          /\ slips' \subseteq slips \cup {"report"}
        /\ DoneStart => op = "done" /\ ota = "flashed" /\ UNCHANGED slips
  <2>1. CASE LoaderStart /\ p = "loader"
    <3>1. ~InitStart /\ ~UpdateStart /\ ~DoneStart
      BY <2>1 DEF LoaderStart, InitStart, UpdateStart, DoneStart, MayWork
    <3> QED BY <2>1, <3>1 DEF LoaderStart, Ops, device, task, history, bounds
  <2>2. CASE InitStart /\ p = "init"
    <3>1. ~LoaderStart /\ ~UpdateStart /\ ~DoneStart
      BY <2>2 DEF LoaderStart, InitStart, UpdateStart, DoneStart, MayWork
    <3> QED BY <2>2, <3>1 DEF InitStart, Ops, device, task, bounds
  <2>3. CASE UpdateStart /\ p = "ota"
    <3>1. ~LoaderStart /\ ~InitStart /\ ~DoneStart
      BY <2>3 DEF LoaderStart, InitStart, UpdateStart, DoneStart, MayWork
    <3> QED BY <2>3, <3>1 DEF UpdateStart, MayWork, Ops, device, task, bounds
  <2>4. CASE DoneStart /\ p = "ota"
    <3>1. ~LoaderStart /\ ~InitStart /\ ~UpdateStart
      BY <2>4 DEF LoaderStart, InitStart, UpdateStart, DoneStart, MayWork
    <3> QED BY <2>4, <3>1 DEF DoneStart, MayWork, Ops, device, task, history, bounds
  <2> QED BY <2>1, <2>2, <2>3, <2>4
<1>2. /\ Rest(p) /\ call'[p].op = op /\ call'[p].pc = "read" /\ call'[p].ok
  BY <1>1, EnterEffect DEF Base
<1>3. call[p].op = "none"
  BY <1>1 DEF Base, Roles
<1>4. ~reported => ota = "idle" /\ Idle("ota")
  BY DEF Base, Turns
<1> QED BY <1>1, <1>2, <1>3, <1>4

(* A command ends. *)
LEMMA EndStep ==
  ASSUME Base, NEW p \in Procs,
         \/ p = "loader" /\ LoaderJump
         \/ p = "init" /\ InitEnd
         \/ p = "ota" /\ (UpdateEnd \/ DoneEnd)
  PROVE  /\ Rest(p) /\ ~Idle(p) /\ call[p].pc = "return"
         /\ call'[p].pc = "idle" /\ call'[p].op = "none" /\ call'[p].ok
         /\ UNCHANGED <<kv, nvs, image, target, working, slips, errors, cuts>>
         /\ p = "loader" => /\ mode = "off" /\ mode' = "ap"
                            /\ running' = call[p].slot
                            /\ reported' = FALSE /\ armed' = {}
                            /\ UNCHANGED <<ota, proven>>
         /\ p = "init" => /\ reported' = (call[p].ok \/ build.bare)
                          /\ proven' = IF call[p].ok THEN proven \cup {running} ELSE proven
                          /\ UNCHANGED <<mode, running, ota, armed>>
         /\ p = "ota" => UNCHANGED <<mode, running, reported, proven, armed>>
         /\ p = "ota" /\ UpdateEnd => /\ call[p].op = "update" /\ ota = "idle"
                         /\ ota' = IF call[p].ok THEN "updated" ELSE "idle"
         /\ p = "ota" /\ DoneEnd => /\ call[p].op = "done" /\ ota = "flashed"
                       /\ ota' = IF call[p].ok THEN "done" ELSE "flashed"
<1>1. Leave(p)
  BY DEF LoaderJump, InitEnd, UpdateEnd, DoneEnd
<1>2. /\ Rest(p) /\ call[p].pc = "return"
      /\ call'[p].op = "none" /\ call'[p].pc = "idle" /\ call'[p].ok = TRUE
  BY <1>1, LeaveEffect DEF Base
<1>3. ~Idle(p) /\ (p = "loader" => mode = "off")
  BY <1>2, Busy DEF Idle
<1>4. CASE p = "loader"
  BY <1>2, <1>3, <1>4 DEF LoaderJump, bounds
<1>5. CASE p = "init"
  <2>1. InitEnd
    BY <1>5
  <2>2. /\ reported' = (call["init"].ok \/ build.bare)
        /\ proven' = IF call["init"].ok THEN proven \cup {running} ELSE proven
        /\ UNCHANGED <<kv, nvs, image, target, working, slips, errors, cuts>>
        /\ UNCHANGED <<mode, running, ota, armed>>
    BY <2>1, Zenon DEF InitEnd, device, bounds
  <2> HIDE DEF InitEnd
  <2> QED BY <1>2, <1>3, <1>5, <2>2
<1>6. CASE p = "ota"
  BY <1>2, <1>3, <1>6 DEF UpdateEnd, DoneEnd, Base, Turns, device, history, bounds
<1> QED BY <1>4, <1>5, <1>6 DEF Procs

(* What a step of the installation does: no command that changes the slots *)
(* is on its way then.                                                     *)
LEMMA FlashStep ==
  ASSUME Base, Serial, FlashBegin \/ FlashEnd \/ FlashFail
  PROVE  /\ UNCHANGED <<kv, nvs, call, mode, running, reported, armed, slips, errors, cuts>>
         /\ mode = "ap" /\ call["ota"].op # "update"
         /\ FlashBegin => /\ ota = "updated" /\ ota' = "flashing" /\ reported
                          /\ image[running] = "good" /\ Idle("ota")
                          /\ target' = Target(kv)
                          /\ image' = [image EXCEPT ![Target(kv)] = "torn"]
                          /\ proven' = proven \ {Target(kv)}
                          /\ working' = working \ {Target(kv)}
         /\ FlashEnd => /\ ota = "flashing" /\ ota' = "flashed"
                        /\ \E q \in {"good", "bad"} : image' = [image EXCEPT ![target] = q]
                        /\ UNCHANGED <<target, working, proven>>
         /\ FlashFail => /\ ota = "flashing" /\ ota' = "idle"
                         /\ UNCHANGED <<image, target, working, proven>>
         /\ call["ota"].op = "done" => ~FlashBegin /\ ~FlashEnd /\ ~FlashFail
<1>1. call["ota"].op \in {"none", "update", "done"}
  BY DEF Base, Roles
<1>2. /\ ~ (FlashBegin /\ FlashEnd) /\ ~ (FlashBegin /\ FlashFail)
      /\ FlashEnd /\ FlashFail => FALSE
  BY DEF FlashBegin, FlashEnd, FlashFail
<1>3. CASE FlashBegin
  BY <1>1, <1>2, <1>3 DEF FlashBegin, MayWork, Base, Turns, bounds
<1>4. CASE FlashEnd
  BY <1>1, <1>2, <1>4 DEF FlashEnd, Base, Turns, history, bounds
<1>5. CASE FlashFail
  BY <1>1, <1>2, <1>5 DEF FlashFail, Base, Turns, device, history, bounds
<1> QED BY <1>3, <1>4, <1>5

(* A restart: the live store is what was durable, and a power cut at a     *)
(* moment the code does not survive is a mishap.                           *)
LEMMA RestartStep ==
  ASSUME Base, Reboot \/ PowerCut \/ Watchdog
  PROVE  /\ \A p \in Procs : call'[p].op = "none" /\ call'[p].pc = "idle" /\ call'[p].ok
         /\ kv' = nvs /\ mode' = "off" /\ ota' = "idle"
         /\ UNCHANGED <<nvs, running, image, reported, target, working, proven, armed>>
         /\ slips \subseteq slips'
         /\ \/ mode = "ap" /\ ota = "done"
            \/ mode = "ap" /\ image[running] # "good"
            \/ /\ build.direct /\ "fallback" \notin slips' => ~FallingBackToB
               /\ "done" \notin slips' => OneActive(nvs)
<1>1. Restart
  BY DEF Reboot, PowerCut, Watchdog
<1>2. /\ \A p \in Procs : call'[p].op = "none" /\ call'[p].pc = "idle" /\ call'[p].ok
      /\ kv' = nvs /\ mode' = "off" /\ ota' = "idle"
      /\ UNCHANGED <<nvs, running, image, reported, target, working, proven, armed>>
  BY <1>1 DEF Restart, NoCall
<1>3. /\ slips \subseteq slips'
      /\ \/ mode = "ap" /\ ota = "done"
         \/ mode = "ap" /\ image[running] # "good"
         \/ /\ build.direct /\ "fallback" \notin slips' => ~FallingBackToB
            /\ "done" \notin slips' => OneActive(nvs)
  BY DEF Reboot, PowerCut, Watchdog
<1> QED BY <1>2, <1>3

-----------------------------------------------------------------------------
(* DoneSelects: the target the OTA task noted is the one `done` switches   *)
(* to, as long as no `done` left its flags half written.                   *)

Switching ==
  \/ ota = "flashing"
  \/ /\ ota = "flashed"
     /\ \/ call["ota"].pc \in {"idle", "read"}
        \/ call["ota"].pc = "write" /\ call["ota"].n = 0
        \/ call["ota"].pc = "return" /\ ~call["ota"].ok

DoneFollows ==
  "redo" \notin slips =>
    /\ Switching => Target(kv) = target
    /\ call["ota"].op = "done" /\ call["ota"].pc \in {"write", "commit"}
         => Active(target) \in call["ota"].boot
    /\ ota = "done" \/ (call["ota"].op = "done" /\ call["ota"].pc = "return"
                          /\ call["ota"].ok)
         => Active(target) \in kv

(* bootctl done selects its target.                                        *)
LEMMA DoneCfgSelects ==
  ASSUME NEW c
  PROVE  Active(Target(c)) \in DoneCfg(c)
  BY DEF DoneCfg, Target, ActiveSlot, Other, Active, Bootable

(* DoneFollows, across every step.                                         *)
LEMMA DoneFollowsStep ==
  ASSUME Base, Serial, DoneFollows, [Next]_vars
  PROVE  DoneFollows'
<1> SUFFICES ASSUME "redo" \notin slips'
             PROVE  /\ Switching' => Target(kv') = target'
                    /\ call'["ota"].op = "done" /\ call'["ota"].pc \in {"write", "commit"}
                         => Active(target') \in call'["ota"].boot
                    /\ ota' = "done" \/ (call'["ota"].op = "done"
                                          /\ call'["ota"].pc = "return" /\ call'["ota"].ok)
                         => Active(target') \in kv'
  BY DEF DoneFollows
<1> USE DEF Idle
<1>1. CASE UNCHANGED vars
  BY <1>1 DEF vars, device, task, history, DoneFollows, Switching
<1>2. ASSUME NEW p \in Procs, p # "ota", Step(p) \/ WriteFails(p)
      PROVE  DoneFollows'
  <2>1. Rest(p) /\ ~Idle(p) /\ ota' = ota
    BY <1>2, ReadStep, WriteStep, CommitStep, FailStep DEF Step
  <2>2. ota = "idle" /\ call["ota"].pc = "idle" /\ call["ota"].op = "none"
    BY <1>2, <2>1, Busy, Alone DEF Procs, Base, Roles
  <2> QED BY <1>2, <2>1, <2>2 DEF DoneFollows, Switching, Rest, Procs
<1>3. CASE ReadKey("ota")
  <2>1. call["ota"].op = "update" \/ call["ota"].op = "done"
    BY <1>3, ReadStep, Busy DEF Procs
  <2>2. call["ota"].op = "done" => /\ Compute("done", kv) = DoneCfg(kv)
                                   /\ Writes("done", kv)
                                   /\ ota = "flashed"
    BY ComputeIs DEF Writes, Base, Turns
  <2>3. Active(Target(kv)) \in DoneCfg(kv)
    BY DoneCfgSelects
  <2>4. call["ota"].op = "update" => ota = "idle"
    BY DEF Base, Turns
  <2> QED BY <1>3, <2>1, <2>2, <2>3, <2>4, ReadStep DEF DoneFollows, Switching, Procs
<1>4. CASE WriteKey("ota")
  <2>1. call["ota"].op = "update" => ota = "idle"
    BY DEF Base, Turns
  <2>2. call["ota"].op = "update" \/ (call["ota"].op = "done" /\ ota = "flashed")
    BY <1>4, WriteStep, Busy DEF Procs, Base, Turns
  <2> QED BY <1>4, <2>1, <2>2, WriteStep DEF DoneFollows, Switching, Procs
<1>5. CASE Commit("ota")
  <2>1. call["ota"].op = "update" => ota = "idle"
    BY DEF Base, Turns
  <2>2. call["ota"].op = "update" \/ (call["ota"].op = "done" /\ ota = "flashed")
    BY <1>5, CommitStep, Busy DEF Procs, Base, Turns
  <2> QED BY <1>5, <2>1, <2>2, CommitStep DEF DoneFollows, Switching, Procs
<1>6. CASE WriteFails("ota")
  <2>1. call["ota"].op = "update" => ota = "idle"
    BY DEF Base, Turns
  <2>2. call["ota"].op = "update" \/ (call["ota"].op = "done" /\ ota = "flashed")
    BY <1>6, FailStep, Busy DEF Procs, Base, Turns
  <2> QED BY <1>6, <2>1, <2>2, FailStep DEF DoneFollows, Switching, Procs
<1>7. CASE LoaderStart \/ InitStart \/ LoaderJump \/ InitEnd
  <2>1. PICK p \in Procs : /\ p # "ota" /\ Rest(p)
                          /\ UNCHANGED <<kv, ota, target, slips>>
    BY <1>7, StartStep, EndStep DEF Procs
  <2> QED BY <2>1 DEF DoneFollows, Switching, Rest, Procs
<1>8. CASE UpdateStart \/ DoneStart
  BY <1>8, StartStep DEF DoneFollows, Switching, Procs
<1>9. CASE UpdateEnd \/ DoneEnd
  BY <1>9, EndStep DEF DoneFollows, Switching, Procs
<1>10. CASE FlashBegin \/ FlashEnd \/ FlashFail
  BY <1>10, FlashStep DEF DoneFollows, Switching, Base, Roles
<1>11. CASE Reboot \/ PowerCut \/ Watchdog
  BY <1>11, RestartStep DEF DoneFollows, Switching, Procs
<1> QED BY <1>1, <1>2, <1>3, <1>4, <1>5, <1>6, <1>7, <1>8, <1>9, <1>10, <1>11
   DEF Next, LoaderNext, InitNext, OtaNext, Reset, Step, Procs, DoneFollows

(* Unless a `done` failed half way before, the `done` that returned 0 has  *)
(* left the slot that was written active.                                  *)
THEOREM DoneSelectsTarget == ASSUME Serial PROVE Spec => []DoneSelects
<1>1. Init => Base /\ DoneFollows
  <2>1. Init => DoneFollows
    BY DEF Init, NoCall, DoneFollows, Switching, Procs
  <2> QED BY <2>1, BaseInit
<1>2. Base /\ DoneFollows /\ [Next]_vars => Base' /\ DoneFollows'
  BY BaseStep, DoneFollowsStep
<1>3. DoneFollows => DoneSelects
  BY DEF DoneFollows, DoneSelects, NoSlip
<1> QED BY <1>1, <1>2, <1>3, PTL DEF Spec

-----------------------------------------------------------------------------
(* BootableIsWhole: a half-written slot has no mark anywhere, and when it  *)
(* is slot a, slot b has the marks that keep the loader from a.            *)

MarksOf(s) == IF image[s] = "torn" THEN SlotKeys(s) ELSE {}

MarksAway == IF image["a"] = "torn" THEN {Active("b"), Successful("b")} ELSE {}

Unmarked(c) == /\ \A s \in Slots : c \cap MarksOf(s) = {}
               /\ MarksAway \subseteq c

(* The commands find the running slot when it is slot a, or b is active.   *)
Located(c) == Active("a") \in c \/ (running = "b" /\ Active("b") \in c)

(* What `update` has made sure of when it returns 0: the slot it unmarked  *)
(* is the one that will be written.                                        *)
Cleared(t, c) == /\ SlotKeys(t) \cap c = {}
                 /\ t = "a" => Successful("b") \in c

Updated == \/ call["ota"].op = "update" /\ call["ota"].pc = "return" /\ call["ota"].ok
           \/ ota = "updated"

Writing(p) == call[p].pc \in {"write", "commit"}

StoreUnmarked ==
  /\ Unmarked(kv) /\ Unmarked(nvs)
  /\ \A p \in Procs : Writing(p) => Unmarked(call[p].boot)

LoaderActivates ==
  /\ Writing("loader") => Active(call["loader"].slot) \in call["loader"].boot
  /\ call["loader"].pc = "return" => Active(call["loader"].slot) \in kv

RunningLocated ==
  /\ mode = "ap" /\ ota \in {"idle", "updated", "flashing"} => Located(kv)
  /\ \A p \in Procs :
       Writing(p) /\ call[p].op \in {"success", "update"} =>
          /\ Located(call[p].boot)
          /\ Active("a") \in call[p].boot <=> Active("a") \in kv

UpdateClears ==
  /\ call["ota"].op = "update" /\ Target(kv) = "a" => Successful("b") \in kv
  /\ call["ota"].op = "update" /\ Writing("ota") => Cleared(Target(kv), call["ota"].boot)
  /\ Updated => kv = nvs /\ Cleared(Target(kv), kv)

WrittenIsWhole ==
  /\ ota = "flashing" => image[Other(target)] # "torn"
  /\ ota \in {"flashed", "done"} => \A s \in Slots : image[s] # "torn"

MarkedIsWhole ==
  NoSlip({"flags", "report"}) =>
     StoreUnmarked /\ LoaderActivates /\ RunningLocated /\ UpdateClears /\ WrittenIsWhole

(* A property that is written takes the command's value, the others stay. *)
LEMMA MixStep ==
  ASSUME Base, NEW p \in Procs, WriteKey(p)
  PROVE  /\ kv' \subseteq kv \cup call[p].boot
         /\ kv \cap call[p].boot \subseteq kv'
<1>1. ASSUME NEW j \in 1 .. 7
      PROVE  /\ KeyOrder[j] \in kv' => KeyOrder[j] \in kv \cup call[p].boot
             /\ KeyOrder[j] \in kv \cap call[p].boot => KeyOrder[j] \in kv'
  BY WriteStep
<1>2. kv' \in SUBSET Keys /\ kv \in SUBSET Keys
  BY WriteStep DEF Base, TypeOK
<1> QED BY <1>1, <1>2, KeyOrderIsOrder

(* What is between two sets of flags that mark no torn image marks none.   *)
LEMMA UnmarkedMix ==
  ASSUME NEW c, NEW d, NEW e, Unmarked(c), Unmarked(d),
         e \subseteq c \cup d, c \cap d \subseteq e
  PROVE  Unmarked(e)
  BY DEF Unmarked

(* What is between two sets of flags that find the running slot finds it.  *)
LEMMA LocatedMix ==
  ASSUME NEW c, NEW d, NEW e, Located(c), Located(d),
         Active("a") \in c <=> Active("a") \in d,
         e \subseteq c \cup d, c \cap d \subseteq e
  PROVE  Located(e) /\ (Active("a") \in e <=> Active("a") \in c)
  BY DEF Located

(* The loader activates the slot it starts.                                *)
LEMMA BootActivates ==
  ASSUME NEW c \in SUBSET Keys
  PROVE  Active(Boot(c).slot) \in Boot(c).cfg
<1>1. \A d \in SUBSET Keys : Active(SuccessSlot(d).slot) \in SuccessSlot(d).cfg
  BY SuccessSlotFacts
<1>2. /\ FreshCfg \in SUBSET Keys
      /\ \A s \in Slots : c \ {Active(s), Bootable(s)} \in SUBSET Keys
  BY DEF FreshCfg, Keys, SlotKeys
<1>3. CASE \E d \in SUBSET Keys : Boot(c) = SuccessSlot(d)
  BY <1>1, <1>3
<1>4. CASE \E s \in Slots : Pending(c, s) /\ Boot(c) = [slot |-> s, cfg |-> c \cup {Try}]
  BY <1>4 DEF Pending
<1> QED BY <1>2, <1>3, <1>4, BootCases

(* The loader gives no mark to a half-written slot, *)
LEMMA UnmarkedBoot ==
  ASSUME NEW c \in SUBSET Keys, Unmarked(c)
  PROVE  Unmarked(Boot(c).cfg)
<1>1. CASE image["a"] = "torn"
  <2>1. /\ Active("a") \notin c /\ Successful("a") \notin c
        /\ Active("b") \in c /\ Successful("b") \in c
    BY <1>1 DEF Unmarked, MarksOf, MarksAway, SlotKeys, Slots
  <2>2. Boot(c) = [slot |-> "b", cfg |-> c]
    BY <2>1 DEF Boot, SuccessSlot, Pending, Slots
  <2> QED BY <2>2
<1>2. CASE image["a"] # "torn" /\ image["b"] = "torn"
  <2>1. Active("b") \notin c /\ Bootable("b") \notin c /\ Successful("b") \notin c
    BY <1>2 DEF Unmarked, MarksOf, SlotKeys, Slots
  <2>2. /\ Active("b") \notin Boot(c).cfg /\ Bootable("b") \notin Boot(c).cfg
        /\ Successful("b") \notin Boot(c).cfg
    BY <2>1 DEF Boot, TrySlot, SuccessSlot, FreshCfg, Pending, Slots,
       Active, Bootable, Successful, Try
  <2> QED BY <1>2, <2>2 DEF Unmarked, MarksOf, MarksAway, SlotKeys, Slots
<1>3. CASE image["a"] # "torn" /\ image["b"] # "torn"
  BY <1>3 DEF Unmarked, MarksOf, MarksAway, Slots
<1> QED BY <1>1, <1>2, <1>3

(* nor does `success`, which knows where the system runs, *)
LEMMA UnmarkedSuccess ==
  ASSUME NEW c \in SUBSET Keys, Unmarked(c), Located(c)
  PROVE  /\ Unmarked(SuccessCfg(c)) /\ Located(SuccessCfg(c))
         /\ Active("a") \in SuccessCfg(c) <=> Active("a") \in c
<1>1. /\ Located(SuccessCfg(c))
      /\ Active("a") \in SuccessCfg(c) <=> Active("a") \in c
  BY DEF Located, SuccessCfg, Active, Successful, Try
<1>2. Active(ActiveSlot(c)) \in c /\ ActiveSlot(c) \in Slots
  BY DEF ActiveSlot, Located, Slots
<1>3. image[ActiveSlot(c)] # "torn"
  BY <1>2 DEF Unmarked, MarksOf, SlotKeys
<1>4. \A s \in Slots : SuccessCfg(c) \cap MarksOf(s) = {}
  <2> SUFFICES ASSUME NEW s \in Slots, image[s] = "torn"
               PROVE  SuccessCfg(c) \cap SlotKeys(s) = {}
    BY DEF MarksOf
  <2>1. c \cap SlotKeys(s) = {} /\ s # ActiveSlot(c)
    BY <1>3 DEF Unmarked, MarksOf
  <2>2. Successful(ActiveSlot(c)) \notin SlotKeys(s)
    BY <2>1 DEF SlotKeys, Active, Bootable, Successful
  <2> QED BY <2>1, <2>2 DEF SuccessCfg
<1>5. MarksAway \subseteq SuccessCfg(c)
  BY DEF Unmarked, MarksAway, SuccessCfg, Active, Successful, Try
<1> QED BY <1>1, <1>4, <1>5 DEF Unmarked

(* and `update` leaves the other slot without a mark. *)
LEMMA UnmarkedUpdate ==
  ASSUME NEW c \in SUBSET Keys, Unmarked(c), Located(c),
         Target(c) = "a" => Successful("b") \in c
  PROVE  /\ Unmarked(UpdateCfg(c)) /\ Located(UpdateCfg(c))
         /\ Active("a") \in UpdateCfg(c) <=> Active("a") \in c
         /\ Cleared(Target(c), UpdateCfg(c))
<1>1. /\ Located(UpdateCfg(c))
      /\ Active("a") \in UpdateCfg(c) <=> Active("a") \in c
  BY DEF Located, UpdateCfg, Target, ActiveSlot, Other, SlotKeys,
     Active, Bootable, Successful
<1>2. Cleared(Target(c), UpdateCfg(c))
  BY DEF Cleared, UpdateCfg, SlotKeys, Active, Bootable, Successful
<1>3. image["a"] = "torn" => Target(c) = "a"
  BY DEF Unmarked, MarksOf, SlotKeys, Slots, Target, ActiveSlot, Other
<1>4. MarksAway \subseteq UpdateCfg(c)
  BY <1>3 DEF Unmarked, MarksAway, UpdateCfg, SlotKeys, Active, Bootable, Successful
<1> QED BY <1>1, <1>2, <1>4 DEF Unmarked, UpdateCfg

Whole ==
  StoreUnmarked /\ LoaderActivates /\ RunningLocated /\ UpdateClears /\ WrittenIsWhole

(* The target depends on one flag.                                         *)
LEMMA TargetByA ==
  ASSUME NEW c, NEW d, Active("a") \in c <=> Active("a") \in d
  PROVE  Target(c) = Target(d)
  BY DEF Target, ActiveSlot

(* Whole, when a key is read.                                              *)
LEMMA WholeRead ==
  ASSUME Base, Whole, NEW p \in Procs, ReadKey(p)
  PROVE  Whole'
<1>1. /\ Rest(p) /\ ~Idle(p) /\ call'[p].op = call[p].op
      /\ UNCHANGED <<kv, nvs, mode, running, image, ota, target>>
      /\ call[p].pc = "read" /\ kv \in SUBSET Keys
      /\ \/ call'[p].pc = "read"
         \/ /\ call'[p].boot = Compute(call[p].op, kv)
            /\ call'[p].slot = IF call[p].op = "boot" THEN Boot(kv).slot
                               ELSE call[p].slot
            /\ call'[p].pc = IF Writes(call[p].op, kv) THEN "write" ELSE "return"
  BY ReadStep DEF Base, TypeOK
<1>2. /\ \A c : Unmarked(c)' <=> Unmarked(c)
      /\ \A c : Located(c)' <=> Located(c)
  BY <1>1 DEF Unmarked, MarksOf, MarksAway, Located
<1>3. /\ Unmarked(kv) /\ Unmarked(nvs)
      /\ mode = "ap" /\ ota = "idle" => Located(kv)
      /\ call["ota"].op = "update" /\ Target(kv) = "a" => Successful("b") \in kv
  BY DEF Whole, StoreUnmarked, RunningLocated, UpdateClears
<1>4. call'[p].pc = "return" => call[p].op = "success"
  BY <1>1 DEF Writes
<1>5. CASE p = "loader"
  <2>1. call[p].op = "boot"
    BY <1>1, <1>5, Busy
  <2>2. Unmarked(Boot(kv).cfg) /\ Active(Boot(kv).slot) \in Boot(kv).cfg
    BY <1>1, <1>3, UnmarkedBoot, BootActivates
  <2>3. Writing("loader")' =>
          /\ call'["loader"].boot = Boot(kv).cfg
          /\ call'["loader"].slot = Boot(kv).slot
    BY <1>1, <1>5, <2>1, ComputeIs DEF Writing
  <2>4. ~Writing("init")' /\ ~Writing("ota")'
    BY <1>1, <1>5, Alone DEF Rest, Writing, Idle, Procs
  <2>5. StoreUnmarked'
    BY <1>1, <1>2, <1>3, <2>2, <2>3, <2>4 DEF StoreUnmarked, Procs
  <2>6. LoaderActivates'
    BY <1>4, <1>5, <2>1, <2>2, <2>3 DEF LoaderActivates
  <2>7. RunningLocated' /\ UpdateClears' /\ WrittenIsWhole'
    BY <1>1, <1>5, <1>2, <2>1, <2>4 DEF Whole, RunningLocated, UpdateClears,
       WrittenIsWhole, Updated, Writing, Rest, Procs
  <2> QED BY <2>5, <2>6, <2>7 DEF Whole
<1>6. CASE p = "init"
  <2>1. call[p].op = "success" /\ mode = "ap" /\ ota = "idle"
    BY <1>1, <1>6, Busy
  <2>2. /\ Unmarked(SuccessCfg(kv)) /\ Located(SuccessCfg(kv))
        /\ Active("a") \in SuccessCfg(kv) <=> Active("a") \in kv
    BY <1>1, <1>3, <2>1, UnmarkedSuccess
  <2>3. Writing("init")' => call'["init"].boot = SuccessCfg(kv)
    BY <1>1, <1>6, <2>1, ComputeIs DEF Writing
  <2>4. ~Writing("loader")' /\ ~Writing("ota")'
    BY <1>1, <1>6, Alone DEF Rest, Writing, Idle, Procs
  <2>5. StoreUnmarked'
    BY <1>1, <1>2, <1>3, <2>2, <2>3, <2>4 DEF StoreUnmarked, Procs
  <2>6. LoaderActivates'
    BY <1>1, <1>6, <2>4 DEF Whole, LoaderActivates, Rest, Procs
  <2>7. RunningLocated'
    BY <1>1, <1>2, <2>2, <2>3, <2>4 DEF Whole, RunningLocated, Procs
  <2>8. UpdateClears' /\ WrittenIsWhole'
    BY <1>1, <1>6, <2>4 DEF Whole, UpdateClears, WrittenIsWhole, Updated,
       Rest, Procs
  <2> QED BY <2>5, <2>6, <2>7, <2>8 DEF Whole
<1>7. CASE p = "ota"
  <2>0. \/ call[p].op = "update" /\ ota = "idle" /\ mode = "ap"
        \/ call[p].op = "done" /\ ota = "flashed"
    BY <1>1, <1>7, Busy DEF Base, Turns
  <2>1. ~Writing("loader")' /\ ~Writing("init")'
    BY <1>1, <1>7, Alone DEF Rest, Writing, Idle, Procs
  <2>2. LoaderActivates'
    BY <1>1, <1>7, <2>1 DEF Whole, LoaderActivates, Rest, Procs
  <2>3. WrittenIsWhole'
    BY <1>1 DEF Whole, WrittenIsWhole
  <2>4. CASE call[p].op = "update" /\ ota = "idle" /\ mode = "ap"
    <3>1. /\ Unmarked(UpdateCfg(kv)) /\ Located(UpdateCfg(kv))
          /\ Active("a") \in UpdateCfg(kv) <=> Active("a") \in kv
          /\ Cleared(Target(kv), UpdateCfg(kv))
      BY <1>1, <1>3, <1>7, <2>4, UnmarkedUpdate
    <3>2. Writing("ota")' => call'["ota"].boot = UpdateCfg(kv)
      BY <1>1, <1>7, <2>4, ComputeIs DEF Writing
    <3>3. StoreUnmarked'
      BY <1>1, <1>2, <1>3, <2>1, <3>1, <3>2 DEF StoreUnmarked, Procs
    <3>4. RunningLocated'
      BY <1>1, <1>2, <2>1, <3>1, <3>2 DEF Whole, RunningLocated, Procs
    <3>5. UpdateClears'
      BY <1>1, <1>4, <1>7, <2>4, <3>1, <3>2 DEF Whole, UpdateClears, Updated
    <3> QED BY <2>2, <2>3, <3>3, <3>4, <3>5 DEF Whole
  <2>5. CASE call[p].op = "done" /\ ota = "flashed"
    <3>1. \A c : Unmarked(c)
      BY <2>5 DEF Whole, WrittenIsWhole, Unmarked, MarksOf, MarksAway, Slots
    <3>2. StoreUnmarked'
      BY <1>2, <3>1 DEF StoreUnmarked
    <3>3. RunningLocated' /\ UpdateClears'
      BY <1>1, <1>7, <2>1, <2>5 DEF Whole, RunningLocated, UpdateClears, Updated, Procs
    <3> QED BY <2>2, <2>3, <3>2, <3>3 DEF Whole
  <2> QED BY <2>0, <2>4, <2>5
<1> QED BY <1>5, <1>6, <1>7 DEF Procs

(* Whole, when a key is written.                                           *)
LEMMA WholeWrite ==
  ASSUME Base, Whole, NEW p \in Procs, WriteKey(p)
  PROVE  Whole'
<1>1. /\ Rest(p) /\ ~Idle(p) /\ call'[p].op = call[p].op
      /\ UNCHANGED <<mode, running, image, ota, target>>
      /\ nvs' = IF build.direct THEN kv' ELSE nvs
      /\ Writing(p) /\ Writing(p)'
      /\ call'[p].boot = call[p].boot /\ call'[p].slot = call[p].slot
  BY WriteStep DEF Writing
<1>2. /\ kv' \subseteq kv \cup call[p].boot
      /\ kv \cap call[p].boot \subseteq kv'
  BY MixStep
<1>3. /\ \A c : Unmarked(c)' <=> Unmarked(c)
      /\ \A c : Located(c)' <=> Located(c)
  BY <1>1 DEF Unmarked, MarksOf, MarksAway, Located
<1>4. \A q \in Procs : q # p => Idle(q) /\ ~Writing(q)' /\ call'[q].pc = "idle"
  BY <1>1, Alone DEF Rest, Writing, Idle
<1>5. Unmarked(kv')
  BY <1>1, <1>2, UnmarkedMix DEF Whole, StoreUnmarked
<1>6. StoreUnmarked'
  BY <1>1, <1>3, <1>4, <1>5 DEF Whole, StoreUnmarked
<1>7. LoaderActivates'
  BY <1>1, <1>4 DEF Whole, LoaderActivates, Writing, Procs
<1>8. ASSUME mode = "ap", call[p].op \in {"success", "update"}
      PROVE  Located(kv') /\ (Active("a") \in call[p].boot <=> Active("a") \in kv')
  <2>1. ota = "idle"
    BY <1>1, <1>8, Busy DEF Base, Turns, Procs
  <2> QED BY <1>1, <1>2, <1>8, <2>1, LocatedMix DEF Whole, RunningLocated
<1>9. mode = "ap" => call[p].op \in {"success", "update"} \/ ota = "flashed"
  BY <1>1, Busy DEF Base, Turns, Procs
<1>10. RunningLocated'
  <2>1. mode = "off" => call[p].op = "boot"
    BY <1>1, Busy DEF Procs
  <2>2. mode \in {"off", "ap"}
    BY DEF Base, TypeOK
  <2> QED BY <1>1, <1>3, <1>4, <1>8, <1>9, <2>1, <2>2 DEF Whole, RunningLocated
<1>11. ~Updated'
  BY <1>1, <1>4, Busy DEF Base, Turns, Updated, Writing, Procs
<1>12. ASSUME call'["ota"].op = "update"
       PROVE  /\ p = "ota" /\ Target(kv') = Target(kv)
              /\ Target(kv) = "a" => Successful("b") \in kv'
  <2>1. p = "ota" /\ call[p].op = "update"
    BY <1>1, <1>4, <1>12 DEF Rest, Base, Roles, Procs
  <2>2. mode = "ap"
    BY <1>1, <2>1, Busy
  <2>3. Active("a") \in kv' <=> Active("a") \in kv
    BY <1>1, <1>8, <2>1, <2>2 DEF Whole, RunningLocated
  <2>4. Target(kv) = "a" => Successful("b") \in kv \cap call[p].boot
    BY <1>1, <2>1 DEF Whole, UpdateClears, Cleared
  <2> QED BY <1>2, <2>1, <2>3, <2>4, TargetByA
<1>13. UpdateClears'
  BY <1>1, <1>11, <1>12 DEF Whole, UpdateClears
<1>14. WrittenIsWhole'
  BY <1>1 DEF Whole, WrittenIsWhole
<1> QED BY <1>6, <1>7, <1>10, <1>13, <1>14 DEF Whole

(* Whole, when the store is committed.                                     *)
LEMMA WholeCommit ==
  ASSUME Base, Whole, NEW p \in Procs, Commit(p)
  PROVE  Whole'
<1>1. /\ Rest(p) /\ ~Idle(p) /\ kv = call[p].boot
      /\ UNCHANGED <<kv, mode, image, ota, target>>
      /\ nvs' = kv /\ call[p].pc = "commit" /\ call'[p].pc = "return"
      /\ call'[p].op = call[p].op /\ call'[p].slot = call[p].slot
      /\ running' = IF call[p].op = "boot" THEN call[p].slot ELSE running
  BY CommitStep
<1>2. \A q \in Procs : ~Writing(q)' /\ (q # p => Idle(q) /\ call'[q].pc = "idle")
  BY <1>1, Alone DEF Rest, Writing, Idle
<1>3. \A c : Unmarked(c)' <=> Unmarked(c)
  BY <1>1 DEF Unmarked, MarksOf, MarksAway
<1>4. StoreUnmarked'
  BY <1>1, <1>2, <1>3 DEF Whole, StoreUnmarked
<1>5. LoaderActivates'
  BY <1>1, <1>2 DEF Whole, LoaderActivates, Writing, Procs
<1>6. RunningLocated'
  <2>1. mode = "ap" => running' = running
    BY <1>1, Busy DEF Procs
  <2> QED BY <1>1, <1>2, <2>1 DEF Whole, RunningLocated, Located
<1>7. UpdateClears'
  <2>1. ~Idle("ota") /\ call["ota"].op = "update" => p = "ota"
    BY <1>1, <1>2 DEF Procs
  <2>2. ota # "updated"
    BY <1>1, Busy DEF Base, Turns, Procs
  <2> QED BY <1>1, <1>2, <2>1, <2>2 DEF Whole, UpdateClears, Updated, Writing, Rest,
          Base, Roles, Procs
<1>8. WrittenIsWhole'
  BY <1>1 DEF Whole, WrittenIsWhole
<1> QED BY <1>4, <1>5, <1>6, <1>7, <1>8 DEF Whole

(* Whole, when a write or a commit fails.                                  *)
LEMMA WholeFail ==
  ASSUME Base, Whole, NEW p \in Procs, WriteFails(p), "flags" \notin slips'
  PROVE  Whole'
<1>1. /\ Rest(p) /\ ~Idle(p)
      /\ UNCHANGED <<kv, nvs, mode, running, image, ota, target>>
      /\ Writing(p) /\ call'[p].pc = "return" /\ ~call'[p].ok
      /\ call'[p].op = call[p].op /\ call'[p].slot = call[p].slot
      /\ p = "loader" => kv \ {Try} = call[p].boot \ {Try}
  BY FailStep DEF Writing
<1>2. \A q \in Procs : ~Writing(q)' /\ (q # p => Idle(q) /\ call'[q].pc = "idle")
  BY <1>1, Alone DEF Rest, Writing, Idle
<1>3. \A c : Unmarked(c)' <=> Unmarked(c)
  BY <1>1 DEF Unmarked, MarksOf, MarksAway
<1>4. StoreUnmarked'
  BY <1>1, <1>2, <1>3 DEF Whole, StoreUnmarked
<1>5. LoaderActivates'
  <2>1. CASE p = "loader"
    <3>1. Active(call[p].slot) # Try
      BY DEF Active, Try
    <3> QED BY <1>1, <1>2, <2>1, <3>1 DEF Whole, LoaderActivates
  <2>2. CASE p # "loader"
    BY <1>2, <2>2 DEF LoaderActivates, Procs
  <2> QED BY <2>1, <2>2
<1>6. RunningLocated'
  BY <1>1, <1>2 DEF Whole, RunningLocated, Located
<1>7. UpdateClears'
  BY <1>1, <1>2 DEF Whole, UpdateClears, Updated, Rest, Procs
<1>8. WrittenIsWhole'
  BY <1>1 DEF Whole, WrittenIsWhole
<1> QED BY <1>4, <1>5, <1>6, <1>7, <1>8 DEF Whole

(* Whole, when a command starts.                                           *)
LEMMA WholeStart ==
  ASSUME Base, Serial, Whole, "report" \notin slips',
         LoaderStart \/ InitStart \/ UpdateStart \/ DoneStart
  PROVE  Whole'
<1>1. PICK p \in Procs : \/ p = "loader" /\ LoaderStart
                         \/ p = "init" /\ InitStart
                         \/ p = "ota" /\ (UpdateStart \/ DoneStart)
  BY DEF Procs
<1>2. /\ Rest(p) /\ Idle(p) /\ call'[p].pc = "read"
      /\ UNCHANGED <<kv, nvs, mode, running, image, ota, target>>
  BY <1>1, StartStep
<1>3. \A q \in Procs : /\ Writing(q)' => Writing(q) /\ call'[q] = call[q]
                       /\ call'[q].pc = "return" => call'[q] = call[q]
  BY <1>2 DEF Rest, Writing
<1>4. /\ \A c : Unmarked(c)' <=> Unmarked(c)
      /\ \A c : Located(c)' <=> Located(c)
  BY <1>2 DEF Unmarked, MarksOf, MarksAway, Located
<1>5. StoreUnmarked' /\ RunningLocated' /\ WrittenIsWhole'
  BY <1>2, <1>3, <1>4 DEF Whole, StoreUnmarked, RunningLocated, WrittenIsWhole
<1>6. LoaderActivates'
  BY <1>2, <1>3 DEF Whole, LoaderActivates, Procs
<1>7. UpdateClears'
  <2>1. call'["ota"].op = "update" => UpdateStart \/ call["ota"].op = "update"
    BY <1>1, <1>2, StartStep DEF Rest, Procs
  <2>2. UpdateStart /\ Target(kv) = "a" => Successful("b") \in kv
    BY <1>1, StartStep DEF Whole, RunningLocated, Located, Target, ActiveSlot,
       Other, LoaderStart, InitStart, MayWork, UpdateStart
  <2>3. Updated' => Updated
    BY <1>2, <1>3 DEF Updated, Procs
  <2>4. call'["ota"].op = "update" /\ Writing("ota")' => call["ota"].op = "update" /\ Writing("ota")
    BY <1>3 DEF Procs
  <2> QED BY <1>2, <1>3, <2>1, <2>2, <2>3, <2>4 DEF Whole, UpdateClears, Procs
<1> QED BY <1>5, <1>6, <1>7 DEF Whole

(* Whole, when a command ends.                                             *)
LEMMA WholeEnd ==
  ASSUME Base, Whole, LoaderJump \/ InitEnd \/ UpdateEnd \/ DoneEnd
  PROVE  Whole'
<1>1. PICK p \in Procs : \/ p = "loader" /\ LoaderJump
                         \/ p = "init" /\ InitEnd
                         \/ p = "ota" /\ (UpdateEnd \/ DoneEnd)
  BY DEF Procs
<1>2. /\ Rest(p) /\ ~Idle(p) /\ call[p].pc = "return"
      /\ call'[p].pc = "idle" /\ call'[p].op = "none"
      /\ UNCHANGED <<kv, nvs, image, target>>
  BY <1>1, EndStep
<1>3. \A q \in Procs : call'[q].pc = "idle" /\ ~Writing(q)'
  BY <1>2, Alone DEF Rest, Writing, Idle
<1>4. \A c : Unmarked(c)' <=> Unmarked(c)
  BY <1>2 DEF Unmarked, MarksOf, MarksAway
<1>5. StoreUnmarked' /\ LoaderActivates'
  BY <1>2, <1>3, <1>4 DEF Whole, StoreUnmarked, LoaderActivates, Procs
<1>6. CASE p = "loader"
  <2>1. /\ running' = call["loader"].slot /\ ota' = ota /\ ota = "idle"
        /\ call["loader"].slot \in Slots /\ call'["ota"].op = "none"
    BY <1>1, <1>2, <1>3, <1>6, EndStep, Busy DEF Base, Roles, TypeOK, Calls, Procs, Idle, Rest
  <2>2. Located(kv)'
    BY <1>2, <1>6, <2>1 DEF Whole, LoaderActivates, Located, Slots
  <2> QED BY <1>2, <1>3, <1>5, <2>1, <2>2 DEF Whole, RunningLocated, UpdateClears,
          Updated, WrittenIsWhole
<1>7. CASE p = "init"
  <2>1. UNCHANGED <<mode, running, ota>> /\ ota = "idle" /\ call'["ota"] = call["ota"]
    BY <1>1, <1>2, <1>7, EndStep, Busy DEF Rest, Procs
  <2> QED BY <1>2, <1>3, <1>5, <2>1 DEF Whole, RunningLocated, UpdateClears, Located,
          Updated, WrittenIsWhole, Procs
<1>8. CASE p = "ota"
  <2>1. /\ UNCHANGED <<mode, running>>
        /\ \/ /\ call["ota"].op = "update" /\ ota = "idle"
              /\ ota' = IF call["ota"].ok THEN "updated" ELSE "idle"
           \/ /\ call["ota"].op = "done" /\ ota = "flashed"
              /\ ota' = IF call["ota"].ok THEN "done" ELSE "flashed"
    BY <1>1, <1>8, EndStep
  <2> QED BY <1>2, <1>3, <1>5, <1>8, <2>1 DEF Whole, RunningLocated, UpdateClears,
          Located, Updated, WrittenIsWhole
<1> QED BY <1>6, <1>7, <1>8 DEF Procs

(* The slot that is written is the one `update` cleared, and the running   *)
(* one, which works, is the other.                                         *)
LEMMA WholeFlash ==
  ASSUME Base, Serial, Whole, FlashBegin \/ FlashEnd \/ FlashFail
  PROVE  Whole'
<1>1. /\ UNCHANGED <<kv, nvs, call, mode, running>>
      /\ mode = "ap" /\ call["ota"].op # "update"
  BY FlashStep
<1>2. image \in [Slots -> Images] /\ target \in Slots
  BY DEF Base, TypeOK
<1>3. LoaderActivates'
  BY <1>1 DEF Whole, LoaderActivates, Writing
<1>4. CASE FlashBegin
  <2> DEFINE t == Target(kv)
  <2>1. /\ ota = "updated" /\ ota' = "flashing" /\ target' = t
        /\ image' = [image EXCEPT ![t] = "torn"]
        /\ \A q \in Procs : Idle(q)
    BY <1>4, <1>1, FlashStep DEF Base, Turns, Procs
  <2>2. /\ t \in Slots /\ Other(t) \in Slots /\ Other(t) # t /\ Slots = {t, Other(t)}
        /\ Other(t) = ActiveSlot(kv)
    BY DEF Target, Other, ActiveSlot, Slots
  <2>3. Cleared(t, kv) /\ nvs = kv /\ Located(kv) /\ Unmarked(kv)
    BY <2>1, <1>1 DEF Whole, UpdateClears, Updated, RunningLocated, StoreUnmarked
  <2>4. Active(Other(t)) \in kv
    BY <2>2, <2>3 DEF Located, ActiveSlot
  <2>5. image[Other(t)] # "torn"
    BY <2>2, <2>3, <2>4 DEF Unmarked, MarksOf, SlotKeys
  <2>6. image'[t] = "torn" /\ image'[Other(t)] # "torn"
    BY <1>2, <2>1, <2>2, <2>5
  <2>7. Unmarked(kv)'
    <3>1. kv \cap SlotKeys(t) = {}
      BY <2>3 DEF Cleared
    <3>2. t = "a" => Active("b") \in kv /\ Successful("b") \in kv
      BY <2>3, <2>4 DEF Cleared, Other
    <3>3. \A s \in Slots : kv \cap MarksOf(s)' = {}
      BY <2>2, <2>6, <3>1 DEF MarksOf
    <3>4. MarksAway' \subseteq kv
      BY <2>2, <2>6, <3>2 DEF MarksAway, Slots
    <3> QED BY <1>1, <3>3, <3>4 DEF Unmarked
  <2>8. StoreUnmarked'
    BY <1>1, <2>1, <2>3, <2>7 DEF StoreUnmarked, Writing, Idle
  <2>9. RunningLocated' /\ UpdateClears' /\ WrittenIsWhole'
    BY <1>1, <2>1, <2>3, <2>6 DEF RunningLocated, UpdateClears, Updated,
       WrittenIsWhole, Writing, Idle, Located
  <2> QED BY <1>3, <2>8, <2>9 DEF Whole
<1>5. CASE FlashEnd
  <2>1. PICK q \in {"good", "bad"} : image' = [image EXCEPT ![target] = q]
    BY <1>5, FlashStep
  <2>2. ota = "flashing" /\ ota' = "flashed" /\ target' = target
    BY <1>5, FlashStep
  <2>3. \A s \in Slots : image'[s] # "torn"
    <3>1. image[Other(target)] # "torn"
      BY <2>2 DEF Whole, WrittenIsWhole
    <3>2. \A s \in Slots : s = target \/ s = Other(target)
      BY <1>2 DEF Slots, Other
    <3> QED BY <1>2, <2>1, <3>1, <3>2
  <2>4. \A c : Unmarked(c)'
    BY <2>3 DEF Unmarked, MarksOf, MarksAway, Slots
  <2>5. StoreUnmarked' /\ WrittenIsWhole'
    BY <2>2, <2>3, <2>4 DEF StoreUnmarked, WrittenIsWhole
  <2>6. RunningLocated' /\ UpdateClears'
    BY <1>1, <2>2 DEF Whole, RunningLocated, Located, UpdateClears, Updated, Writing
  <2> QED BY <1>3, <2>5, <2>6 DEF Whole
<1>6. CASE FlashFail
  <2>1. ota = "flashing" /\ ota' = "idle" /\ UNCHANGED <<image, target>>
    BY <1>6, FlashStep
  <2>2. \A c : Unmarked(c)' <=> Unmarked(c)
    BY <2>1 DEF Unmarked, MarksOf, MarksAway
  <2>3. StoreUnmarked'
    BY <1>1, <2>2 DEF Whole, StoreUnmarked, Writing
  <2>4. RunningLocated' /\ UpdateClears' /\ WrittenIsWhole'
    BY <1>1, <2>1 DEF Whole, RunningLocated, Located, UpdateClears, Updated, Writing,
       WrittenIsWhole
  <2> QED BY <1>3, <2>3, <2>4 DEF Whole
<1> QED BY <1>4, <1>5, <1>6

(* Whole, when the device starts again.                                    *)
LEMMA WholeRestart ==
  ASSUME Base, Whole, Reboot \/ PowerCut \/ Watchdog
  PROVE  Whole'
<1>1. /\ \A p \in Procs : call'[p].op = "none" /\ call'[p].pc = "idle"
      /\ kv' = nvs /\ mode' = "off" /\ ota' = "idle"
      /\ UNCHANGED <<nvs, image, target>>
  BY RestartStep
<1>2. \A c : Unmarked(c)' <=> Unmarked(c)
  BY <1>1 DEF Unmarked, MarksOf, MarksAway
<1> QED BY <1>1, <1>2 DEF Whole, StoreUnmarked, LoaderActivates, RunningLocated,
        UpdateClears, Updated, WrittenIsWhole, Writing, Procs

(* A slip is not forgotten.                                                *)
LEMMA SlipsStay ==
  ASSUME Base, Serial, [Next]_vars
  PROVE  slips \subseteq slips'
<1>1. ASSUME NEW p \in Procs, Step(p) \/ WriteFails(p)
      PROVE  slips \subseteq slips'
  BY <1>1, ReadStep, WriteStep, CommitStep, FailStep DEF Step
<1>2. CASE LoaderStart \/ InitStart \/ UpdateStart \/ DoneStart
  BY <1>2, StartStep DEF Procs
<1>3. CASE LoaderJump \/ InitEnd \/ UpdateEnd \/ DoneEnd
  BY <1>3, EndStep DEF Procs
<1> QED BY <1>1, <1>2, <1>3, FlashStep, RestartStep DEF Next, LoaderNext, InitNext,
        OtaNext, Reset, Procs, vars, history

(* MarkedIsWhole, across every step.                                       *)
LEMMA MarkedIsWholeStep ==
  ASSUME Base, Serial, MarkedIsWhole, [Next]_vars
  PROVE  MarkedIsWhole'
<1> SUFFICES ASSUME NoSlip({"flags", "report"})'
             PROVE  Whole'
  BY DEF MarkedIsWhole, Whole
<1>1. NoSlip({"flags", "report"}) /\ "flags" \notin slips' /\ "report" \notin slips'
  BY SlipsStay DEF NoSlip
<1>2. Whole
  BY <1>1 DEF MarkedIsWhole, Whole
<1>3. CASE UNCHANGED vars
  BY <1>2, <1>3 DEF vars, device, task, Whole, StoreUnmarked, Unmarked, MarksOf,
     MarksAway, LoaderActivates, RunningLocated, Located, UpdateClears, Updated,
     WrittenIsWhole, Writing
<1>4. ASSUME NEW p \in Procs, Step(p) \/ WriteFails(p)
      PROVE  Whole'
  BY <1>1, <1>2, <1>4, WholeRead, WholeWrite, WholeCommit, WholeFail DEF Step
<1> QED BY <1>1, <1>2, <1>3, <1>4, WholeStart, WholeEnd, WholeFlash, WholeRestart
        DEF Next, LoaderNext, InitNext, OtaNext, Reset, Procs

(* The flags that survive a power cut never call a half-written slot       *)
(* bootable, wherever a set failed or the power was cut before, but after  *)
(* a mishap of the loader's flags or of the report.                        *)
THEOREM BootableImageIsWhole == ASSUME Serial PROVE Spec => []BootableIsWhole
<1>1. Init => Base /\ MarkedIsWhole
  <2>1. Init => MarkedIsWhole
    BY DEF Init, NoCall, MarkedIsWhole, StoreUnmarked, Unmarked, MarksOf,
       MarksAway, LoaderActivates, RunningLocated, UpdateClears, Updated,
       WrittenIsWhole, Writing, Procs
  <2> QED BY <2>1, BaseInit
<1>2. Base /\ MarkedIsWhole /\ [Next]_vars => Base' /\ MarkedIsWhole'
  BY BaseStep, MarkedIsWholeStep
<1>3. MarkedIsWhole => BootableIsWhole
  BY DEF MarkedIsWhole, BootableIsWhole, StoreUnmarked, Unmarked, MarksOf, SlotKeys
<1> QED BY <1>1, <1>2, <1>3, PTL DEF Spec

-----------------------------------------------------------------------------
(* DurableIsConsistent: with a store that commits as a whole.  The live    *)
(* flags may be half written; what each command needs of them is enough    *)
(* for what it commits to be consistent.                                   *)

Consistent(c) == OneActive(c) /\ Nested(c)

SomeActive(c) == \E s \in Slots : Active(s) \in c

NestedAt(c, s) == c \cap {Active(s), Successful(s)} # {} => Bootable(s) \in c

(* `update` may be run again on flags that a failed one left half cleared, *)
SemiConsistent(c) == OneActive(c) /\ NestedAt(c, ActiveSlot(c))

(* and `done` on flags that a failed one left half switched.               *)
MarkedBootable(c) == \A s \in Slots : Successful(s) \in c => Bootable(s) \in c

LoaderConsistent ==
  /\ mode = "off" /\ call["loader"].pc \in {"idle", "read"} => kv = nvs
  /\ Writing("loader") => /\ Consistent(call["loader"].boot)
                          /\ SomeActive(call["loader"].boot)
  /\ call["loader"].pc = "return" => Consistent(kv) /\ SomeActive(kv)

InitConsistent ==
  /\ mode = "ap" /\ ~reported => Consistent(kv) /\ SomeActive(kv)
  /\ Writing("init") =>
       call["init"].boot = (kv \ {Try}) \cup {Successful(ActiveSlot(kv))}

UpdateConsistent ==
  /\ mode = "ap" /\ ota = "idle" => SemiConsistent(kv)
  /\ call["ota"].op = "update" /\ Writing("ota") => call["ota"].boot = UpdateCfg(kv)
  /\ Updated \/ ota = "flashing" => Consistent(kv)

DoneConsistent ==
  /\ ota = "flashed" => MarkedBootable(kv)
  /\ call["ota"].op = "done" /\ Writing("ota") =>
       /\ Consistent(call["ota"].boot)
       /\ \A s \in Slots : /\ Successful(s) \in call["ota"].boot <=> Successful(s) \in kv
                           /\ Bootable(s) \in kv => Bootable(s) \in call["ota"].boot

StaysConsistent ==
  ~build.direct /\ NoSlip({"flags"}) =>
    /\ Consistent(nvs)
    /\ LoaderConsistent /\ InitConsistent /\ UpdateConsistent /\ DoneConsistent

(* From consistent flags the loader makes consistent flags.                *)
LEMMA ConsistentFacts ==
  ASSUME NEW c \in SUBSET Keys, Consistent(c)
  PROVE  /\ SemiConsistent(c) /\ MarkedBootable(c)
         /\ Consistent(Boot(c).cfg) /\ SomeActive(Boot(c).cfg)
<1>1. SemiConsistent(c)
  BY DEF Consistent, Nested, SemiConsistent, NestedAt, ActiveSlot, Slots
<1>2. MarkedBootable(c)
  BY DEF Consistent, Nested, MarkedBootable
<1>3. Consistent(Boot(c).cfg) /\ SomeActive(Boot(c).cfg)
  BY BootKeeps DEF Consistent, SomeActive
<1> QED BY <1>1, <1>2, <1>3

(* The try flag is no part of consistency.                                 *)
LEMMA TryIsNoMatter ==
  ASSUME NEW c, NEW d, c \ {Try} = d \ {Try}, Consistent(c), SomeActive(c)
  PROVE  Consistent(d) /\ SomeActive(d)
<1>1. \A s \in Slots : /\ Active(s) \in c <=> Active(s) \in d
                       /\ Bootable(s) \in c <=> Bootable(s) \in d
                       /\ Successful(s) \in c <=> Successful(s) \in d
  BY DEF Active, Bootable, Successful, Try
<1> QED BY <1>1 DEF Consistent, OneActive, Nested, SomeActive

(* What `success` writes, and every moment of writing it. *)
LEMMA SuccessMix ==
  ASSUME NEW c, NEW e, Consistent(c), SomeActive(c),
         NEW d, d = (c \ {Try}) \cup {Successful(ActiveSlot(c))},
         e \subseteq c \cup d, c \cap d \subseteq e
  PROVE  /\ Consistent(e) /\ SomeActive(e)
         /\ d = (e \ {Try}) \cup {Successful(ActiveSlot(e))}
<1>1. ActiveSlot(c) \in Slots /\ Active(ActiveSlot(c)) \in c
  BY DEF SomeActive, ActiveSlot, Slots
<1>2. \A k : k # Try /\ k # Successful(ActiveSlot(c)) => (k \in e <=> k \in c)
  OBVIOUS
<1>3. \A s \in Slots : /\ Active(s) \in e <=> Active(s) \in c
                       /\ Bootable(s) \in e <=> Bootable(s) \in c
                       /\ Successful(s) \in e => Successful(s) \in c \/ s = ActiveSlot(c)
  BY <1>2 DEF Active, Bootable, Successful, Try
<1>4. ActiveSlot(e) = ActiveSlot(c)
  BY <1>3 DEF ActiveSlot, Slots
<1>5. OneActive(e) /\ SomeActive(e)
  BY <1>3 DEF Consistent, OneActive, SomeActive
<1>6. Nested(e)
  BY <1>1, <1>3 DEF Consistent, Nested
<1>7. d = (e \ {Try}) \cup {Successful(ActiveSlot(e))}
  <2>1. Successful(ActiveSlot(c)) # Try
    BY DEF Successful, Try
  <2> QED BY <1>2, <1>4, <2>1
<1> QED BY <1>5, <1>6, <1>7 DEF Consistent

(* Between the flags before and after bootctl update.                      *)
LEMMA UpdateMix ==
  ASSUME NEW c, NEW e, SemiConsistent(c),
         e \subseteq c \cup UpdateCfg(c), c \cap UpdateCfg(c) \subseteq e
  PROVE  /\ SemiConsistent(e) /\ UpdateCfg(e) = UpdateCfg(c)
         /\ Consistent(UpdateCfg(c))
<1>1. UpdateCfg(c) \subseteq e /\ e \subseteq c
  BY DEF UpdateCfg
<1> DEFINE s == ActiveSlot(c)
           t == Other(s)
<1>2. s \in Slots /\ t \in Slots /\ s # t /\ Slots = {s, t} /\ Target(c) = t
  BY DEF ActiveSlot, Other, Target, Slots
<1>3. \A k \in SlotKeys(s) : k \in c <=> k \in UpdateCfg(c)
  BY <1>2 DEF UpdateCfg, SlotKeys, Active, Bootable, Successful
<1>4. SlotKeys(t) \cap UpdateCfg(c) = {}
  BY <1>2 DEF UpdateCfg
<1>5. \A k \in SlotKeys(s) : k \in c <=> k \in e
  BY <1>1, <1>3
<1>6. ActiveSlot(e) = s
  <2>1. CASE Active("a") \in c
    <3>1. s = "a" /\ Active("a") \in e
      BY <1>5, <2>1 DEF ActiveSlot, SlotKeys
    <3> QED BY <3>1 DEF ActiveSlot
  <2>2. CASE Active("a") \notin c
    BY <1>1, <2>2 DEF ActiveSlot
  <2> QED BY <2>1, <2>2
<1>7. Target(e) = t
  BY <1>6 DEF Target
<1> HIDE DEF s, t
<1>8. UpdateCfg(e) = UpdateCfg(c)
  BY <1>1, <1>2, <1>7 DEF UpdateCfg
<1>9. SemiConsistent(e)
  <2>1. OneActive(e)
    BY <1>1 DEF SemiConsistent, OneActive
  <2>2. NestedAt(e, s)
    BY <1>5 DEF SemiConsistent, NestedAt, SlotKeys, s
  <2> QED BY <1>6, <2>1, <2>2 DEF SemiConsistent
<1>10. Consistent(UpdateCfg(c))
  <2>1. OneActive(UpdateCfg(c))
    BY <1>1 DEF SemiConsistent, OneActive
  <2>2. NestedAt(UpdateCfg(c), s)
    BY <1>3 DEF SemiConsistent, NestedAt, SlotKeys, s
  <2>3. Nested(UpdateCfg(c))
    BY <1>2, <1>4, <2>2 DEF Nested, NestedAt, SlotKeys
  <2> QED BY <2>1, <2>3 DEF Consistent
<1> QED BY <1>8, <1>9, <1>10

(* Running `done` on half-switched flags selects a slot all the same. *)
LEMMA DoneIsConsistent ==
  ASSUME NEW c, MarkedBootable(c)
  PROVE  /\ Consistent(DoneCfg(c))
         /\ \A s \in Slots : /\ Successful(s) \in DoneCfg(c) <=> Successful(s) \in c
                             /\ Bootable(s) \in c => Bootable(s) \in DoneCfg(c)
<1> DEFINE s == ActiveSlot(c)
           t == Other(s)
           d == DoneCfg(c)
<1>1. s \in Slots /\ t \in Slots /\ s # t /\ Slots = {s, t} /\ Target(c) = t
  BY DEF ActiveSlot, Other, Target, Slots
<1>2. d = (c \cup {Active(t), Bootable(t)}) \ {Active(s)}
  BY <1>1 DEF DoneCfg
<1> HIDE DEF s, t, d
<1>3. /\ Active(s) \notin d /\ Bootable(t) \in d
      /\ \A r \in Slots : /\ Successful(r) \in d <=> Successful(r) \in c
                          /\ Bootable(r) \in c => Bootable(r) \in d
  BY <1>1, <1>2 DEF Active, Bootable, Successful
<1>4. OneActive(d) /\ Nested(d)
  BY <1>1, <1>3 DEF OneActive, Nested, MarkedBootable
<1> QED BY <1>3, <1>4 DEF Consistent, d

(* Between the flags before and after bootctl done.                        *)
LEMMA DoneMix ==
  ASSUME NEW c, NEW d, NEW e, MarkedBootable(c), Consistent(d),
         \A s \in Slots : /\ Successful(s) \in d <=> Successful(s) \in c
                          /\ Bootable(s) \in c => Bootable(s) \in d,
         e \subseteq c \cup d, c \cap d \subseteq e
  PROVE  /\ MarkedBootable(e)
         /\ \A s \in Slots : /\ Successful(s) \in d <=> Successful(s) \in e
                             /\ Bootable(s) \in e => Bootable(s) \in d
  BY DEF MarkedBootable

Steady ==
  Consistent(nvs) /\ LoaderConsistent /\ InitConsistent /\ UpdateConsistent /\ DoneConsistent

(* Steady, when a key is read.                                             *)
LEMMA SteadyRead ==
  ASSUME Base, Steady, NEW p \in Procs, ReadKey(p)
  PROVE  Steady'
<1>1. /\ Rest(p) /\ ~Idle(p) /\ call'[p].op = call[p].op
      /\ UNCHANGED <<kv, nvs, mode, ota, reported>>
      /\ call[p].pc = "read" /\ call[p].ok /\ kv \in SUBSET Keys
      /\ \/ call'[p].pc = "read"
         \/ /\ call'[p].boot = Compute(call[p].op, kv)
            /\ call'[p].pc = IF Writes(call[p].op, kv) THEN "write" ELSE "return"
  BY ReadStep DEF Base, TypeOK
<1>2. \A q \in Procs : q # p => call'[q] = call[q] /\ call'[q].pc = "idle" /\ ~Writing(q)'
  BY <1>1, Alone DEF Rest, Writing, Idle
<1>3. call'[p].pc = "return" => call[p].op = "success"
  BY <1>1 DEF Writes
<1>4. Consistent(nvs)'
  BY <1>1 DEF Steady
<1>5. CASE p = "loader"
  <2>1. call[p].op = "boot" /\ mode = "off" /\ ota = "idle"
    BY <1>1, <1>5, Busy
  <2>2. Consistent(kv)
    BY <1>1, <1>5, <2>1 DEF Steady, LoaderConsistent
  <2>3. Consistent(Boot(kv).cfg) /\ SomeActive(Boot(kv).cfg)
    BY <1>1, <2>2, ConsistentFacts
  <2>4. LoaderConsistent'
    BY <1>1, <1>3, <1>5, <2>1, <2>3, ComputeIs DEF Steady, LoaderConsistent, Writing
  <2>5. InitConsistent' /\ UpdateConsistent' /\ DoneConsistent'
    BY <1>1, <1>2, <1>5, <2>1 DEF InitConsistent, UpdateConsistent, DoneConsistent,
       Updated, Procs
  <2> QED BY <1>4, <2>4, <2>5 DEF Steady
<1>6. CASE p = "init"
  <2>1. /\ call[p].op = "success" /\ mode = "ap" /\ ota = "idle"
        /\ call'["ota"].pc = "idle" /\ call'["loader"].pc = "idle"
        /\ ~Writing("loader")' /\ ~Writing("ota")'
    BY <1>1, <1>2, <1>6, Busy DEF Procs
  <2>2. Writing("init")' =>
          call'["init"].boot = (kv \ {Try}) \cup {Successful(ActiveSlot(kv))}
    BY <1>1, <1>6, <2>1, ComputeIs DEF Writing, Writes, SuccessCfg
  <2>3. LoaderConsistent' /\ InitConsistent' /\ UpdateConsistent' /\ DoneConsistent'
    BY <1>1, <2>1, <2>2 DEF Steady, LoaderConsistent, InitConsistent,
       UpdateConsistent, DoneConsistent, Updated
  <2> QED BY <1>4, <2>3 DEF Steady
<1>7. CASE p = "ota"
  <2>1. /\ mode = "ap" /\ call'["loader"].pc = "idle"
        /\ ~Writing("loader")' /\ ~Writing("init")'
        /\ call'["ota"].pc # "return"
        /\ \/ call["ota"].op = "update" /\ ota = "idle"
           \/ call["ota"].op = "done" /\ ota = "flashed"
    BY <1>1, <1>2, <1>3, <1>7, Busy DEF Procs, Base, Turns
  <2>2. call["ota"].op = "update" /\ Writing("ota")' => call'["ota"].boot = UpdateCfg(kv)
    BY <1>1, <1>7, ComputeIs DEF Writing
  <2>3. call["ota"].op = "done" /\ Writing("ota")' => call'["ota"].boot = DoneCfg(kv)
    BY <1>1, <1>7, ComputeIs DEF Writing
  <2>4. LoaderConsistent' /\ InitConsistent' /\ UpdateConsistent'
    BY <1>1, <1>7, <2>1, <2>2 DEF Steady, LoaderConsistent, InitConsistent,
       UpdateConsistent, Updated
  <2>5. DoneConsistent'
    BY <1>1, <1>7, <2>1, <2>3, DoneIsConsistent DEF Steady, DoneConsistent
  <2> QED BY <1>4, <2>4, <2>5 DEF Steady
<1> QED BY <1>5, <1>6, <1>7 DEF Procs

(* Steady, when a key is written.                                          *)
LEMMA SteadyWrite ==
  ASSUME Base, Steady, ~build.direct, NEW p \in Procs, WriteKey(p)
  PROVE  Steady'
<1>1. /\ Rest(p) /\ ~Idle(p) /\ call'[p].op = call[p].op
      /\ UNCHANGED <<nvs, mode, ota, reported>>
      /\ Writing(p) /\ Writing(p)' /\ call[p].pc # "return" /\ call'[p].pc # "return"
      /\ call'[p].pc \in {"write", "commit"}
      /\ call'[p].boot = call[p].boot
      /\ kv' \subseteq kv \cup call[p].boot /\ kv \cap call[p].boot \subseteq kv'
  BY WriteStep, MixStep DEF Writing
<1>2. \A q \in Procs : q # p => call'[q] = call[q] /\ call'[q].pc = "idle" /\ ~Writing(q)'
  BY <1>1, Alone DEF Rest, Writing, Idle
<1>3. Consistent(nvs)'
  BY <1>1 DEF Steady
<1>4. CASE p = "loader"
  <2>1. call[p].op = "boot" /\ mode = "off" /\ ota = "idle"
    BY <1>1, <1>4, Busy
  <2>2. LoaderConsistent'
    BY <1>1, <1>4 DEF Steady, LoaderConsistent
  <2>3. InitConsistent' /\ UpdateConsistent' /\ DoneConsistent'
    BY <1>1, <1>2, <1>4, <2>1 DEF InitConsistent, UpdateConsistent, DoneConsistent,
       Updated, Procs
  <2> QED BY <1>3, <2>2, <2>3 DEF Steady
<1>5. CASE p = "init"
  <2>1. /\ mode = "ap" /\ ota = "idle" /\ ~reported
        /\ call'["ota"].pc = "idle" /\ call'["loader"].pc = "idle"
        /\ ~Writing("loader")' /\ ~Writing("ota")'
    BY <1>1, <1>2, <1>5, Busy DEF Procs
  <2>2. /\ Consistent(kv) /\ SomeActive(kv)
        /\ call["init"].boot = (kv \ {Try}) \cup {Successful(ActiveSlot(kv))}
    BY <1>1, <1>5, <2>1 DEF Steady, InitConsistent
  <2>3. /\ Consistent(kv') /\ SomeActive(kv')
        /\ call["init"].boot = (kv' \ {Try}) \cup {Successful(ActiveSlot(kv'))}
    <3> DEFINE d == call["init"].boot
    <3>1. kv' \subseteq kv \cup d /\ kv \cap d \subseteq kv'
      BY <1>1, <1>5
    <3> HIDE DEF d
    <3> QED BY <2>2, <3>1, SuccessMix DEF d
  <2>4. SemiConsistent(kv')
    BY <2>3, ConsistentFacts, WriteStep
  <2>5. LoaderConsistent' /\ InitConsistent' /\ UpdateConsistent' /\ DoneConsistent'
    BY <1>1, <1>5, <2>1, <2>3, <2>4 DEF LoaderConsistent, InitConsistent,
       UpdateConsistent, DoneConsistent, Updated
  <2> QED BY <1>3, <2>5 DEF Steady
<1>6. CASE p = "ota"
  <2>1. /\ mode = "ap" /\ reported /\ call'["loader"].pc = "idle"
        /\ ~Writing("loader")' /\ ~Writing("init")'
        /\ \/ call["ota"].op = "update" /\ ota = "idle"
           \/ call["ota"].op = "done" /\ ota = "flashed"
    BY <1>1, <1>2, <1>6, Busy DEF Procs, Base, Turns
  <2>2. LoaderConsistent' /\ InitConsistent'
    BY <1>1, <2>1 DEF LoaderConsistent, InitConsistent
  <2>3. CASE call["ota"].op = "update" /\ ota = "idle"
    <3>1. SemiConsistent(kv) /\ call["ota"].boot = UpdateCfg(kv)
      BY <1>1, <1>6, <2>1, <2>3 DEF Steady, UpdateConsistent
    <3>2. SemiConsistent(kv') /\ UpdateCfg(kv') = UpdateCfg(kv)
      BY <1>1, <1>6, <3>1, UpdateMix
    <3>3. UpdateConsistent' /\ DoneConsistent'
      BY <1>1, <1>6, <2>1, <2>3, <3>1, <3>2 DEF UpdateConsistent, DoneConsistent, Updated
    <3> QED BY <1>3, <2>2, <3>3 DEF Steady
  <2>4. CASE call["ota"].op = "done" /\ ota = "flashed"
    <3>1. /\ MarkedBootable(kv) /\ Consistent(call["ota"].boot)
          /\ \A s \in Slots :
               /\ Successful(s) \in call["ota"].boot <=> Successful(s) \in kv
               /\ Bootable(s) \in kv => Bootable(s) \in call["ota"].boot
      BY <1>1, <1>6, <2>4 DEF Steady, DoneConsistent
    <3>2. /\ MarkedBootable(kv')
          /\ \A s \in Slots :
               /\ Successful(s) \in call["ota"].boot <=> Successful(s) \in kv'
               /\ Bootable(s) \in kv' => Bootable(s) \in call["ota"].boot
      BY <1>1, <1>6, <3>1, DoneMix
    <3>3. UpdateConsistent' /\ DoneConsistent'
      BY <1>1, <1>6, <2>4, <3>1, <3>2 DEF UpdateConsistent, DoneConsistent, Updated
    <3> QED BY <1>3, <2>2, <3>3 DEF Steady
  <2> QED BY <2>1, <2>3, <2>4
<1> QED BY <1>4, <1>5, <1>6 DEF Procs

(* Steady, when the store is committed.                                    *)
LEMMA SteadyCommit ==
  ASSUME Base, Steady, NEW p \in Procs, Commit(p)
  PROVE  Steady'
<1>1. /\ Rest(p) /\ ~Idle(p) /\ kv = call[p].boot /\ Writing(p) /\ kv \in SUBSET Keys
      /\ UNCHANGED <<kv, mode, ota>>
      /\ nvs' = kv /\ call[p].pc = "commit" /\ call'[p].pc = "return"
      /\ call'[p].op = call[p].op
      /\ call[p].op = "boot" \/ (~reported' => ~reported)
  BY CommitStep DEF Writing, Base, TypeOK
<1>2. \A q \in Procs : ~Writing(q)' /\ (q # p => call'[q] = call[q] /\ call'[q].pc = "idle")
  BY <1>1, Alone DEF Rest, Writing, Idle
<1>3. CASE p = "loader"
  <2>1. Consistent(kv) /\ SomeActive(kv) /\ mode = "off" /\ ota = "idle"
    BY <1>1, <1>3, Busy DEF Steady, LoaderConsistent
  <2> QED BY <1>1, <1>2, <1>3, <2>1 DEF Steady, LoaderConsistent, InitConsistent,
          UpdateConsistent, DoneConsistent, Updated, Procs
<1>4. CASE p = "init"
  <2>1. mode = "ap" /\ ~reported /\ ota = "idle" /\ call[p].op = "success"
    BY <1>1, <1>4, Busy
  <2>2. Consistent(kv) /\ SomeActive(kv)
    BY <2>1 DEF Steady, InitConsistent
  <2>3. SemiConsistent(kv)
    BY <1>1, <2>2, ConsistentFacts
  <2> QED BY <1>1, <1>2, <1>4, <2>1, <2>2, <2>3 DEF Steady, LoaderConsistent,
          InitConsistent, UpdateConsistent, DoneConsistent, Updated, Procs
<1>5. CASE p = "ota"
  <2>1. /\ mode = "ap" /\ reported
        /\ \/ call["ota"].op = "update" /\ ota = "idle"
           \/ call["ota"].op = "done" /\ ota = "flashed"
    BY <1>1, <1>5, Busy DEF Base, Turns
  <2>2. Consistent(kv)
    <3>1. CASE call["ota"].op = "update" /\ ota = "idle"
      <4>1. SemiConsistent(kv) /\ kv = UpdateCfg(kv)
        BY <1>1, <1>5, <2>1, <3>1 DEF Steady, UpdateConsistent
      <4> QED BY <4>1, UpdateMix
    <3>2. CASE call["ota"].op = "done" /\ ota = "flashed"
      BY <1>1, <1>5, <3>2 DEF Steady, DoneConsistent
    <3> QED BY <2>1, <3>1, <3>2
  <2>3. SemiConsistent(kv) /\ MarkedBootable(kv)
    BY <1>1, <2>2, ConsistentFacts
  <2> QED BY <1>1, <1>2, <1>5, <2>1, <2>2, <2>3 DEF Steady, LoaderConsistent,
          InitConsistent, UpdateConsistent, DoneConsistent, Updated, Procs
<1> QED BY <1>3, <1>4, <1>5 DEF Procs

(* Steady, when a write or a commit fails.                                 *)
LEMMA SteadyFail ==
  ASSUME Base, Steady, NEW p \in Procs, WriteFails(p), "flags" \notin slips'
  PROVE  Steady'
<1>1. /\ Rest(p) /\ ~Idle(p) /\ Writing(p)
      /\ UNCHANGED <<kv, nvs, mode, ota, reported>>
      /\ call'[p].pc = "return" /\ ~call'[p].ok
      /\ p = "loader" => kv \ {Try} = call[p].boot \ {Try}
  BY FailStep DEF Writing
<1>2. \A q \in Procs : ~Writing(q)' /\ (q # p => call'[q] = call[q] /\ call'[q].pc = "idle")
  BY <1>1, Alone DEF Rest, Writing, Idle
<1>3. ~Updated' \/ Updated
  BY <1>1, <1>2 DEF Updated, Procs
<1>4. LoaderConsistent'
  <2>1. CASE p = "loader"
    <3>1. Consistent(kv) /\ SomeActive(kv)
      BY <1>1, <2>1, TryIsNoMatter DEF Steady, LoaderConsistent
    <3> QED BY <1>1, <1>2, <2>1, <3>1 DEF LoaderConsistent
  <2>2. CASE p # "loader"
    BY <1>1, <1>2, <2>2 DEF Steady, LoaderConsistent, Procs
  <2> QED BY <2>1, <2>2
<1> QED BY <1>1, <1>2, <1>3, <1>4 DEF Steady, InitConsistent, UpdateConsistent,
        DoneConsistent, Procs

(* Steady, when a command starts.                                          *)
LEMMA SteadyStart ==
  ASSUME Base, Serial, Steady, LoaderStart \/ InitStart \/ UpdateStart \/ DoneStart
  PROVE  Steady'
<1>1. PICK p \in Procs : \/ p = "loader" /\ LoaderStart
                         \/ p = "init" /\ InitStart
                         \/ p = "ota" /\ (UpdateStart \/ DoneStart)
  BY DEF Procs
<1>2. /\ Rest(p) /\ Idle(p) /\ call'[p].pc = "read"
      /\ UNCHANGED <<kv, nvs, mode, ota, reported>>
  BY <1>1, StartStep
<1>3. \A q \in Procs : /\ Writing(q)' => Writing(q) /\ call'[q] = call[q]
                       /\ call'[q].pc = "return" => call'[q] = call[q]
                       /\ call'[q].pc \in {"idle", "read"} => call[q].pc \in {"idle", "read"}
  BY <1>2 DEF Rest, Writing, Idle
<1> QED BY <1>2, <1>3 DEF Steady, LoaderConsistent, InitConsistent, UpdateConsistent,
        DoneConsistent, Updated, Procs

(* Steady, when a command ends.                                            *)
LEMMA SteadyEnd ==
  ASSUME Base, Steady, LoaderJump \/ InitEnd \/ UpdateEnd \/ DoneEnd
  PROVE  Steady'
<1>1. PICK p \in Procs : \/ p = "loader" /\ LoaderJump
                         \/ p = "init" /\ InitEnd
                         \/ p = "ota" /\ (UpdateEnd \/ DoneEnd)
  BY DEF Procs
<1>2. /\ Rest(p) /\ ~Idle(p) /\ call[p].pc = "return"
      /\ call'[p].pc = "idle" /\ kv \in SUBSET Keys
      /\ UNCHANGED <<kv, nvs>>
  BY <1>1, EndStep DEF Base, TypeOK
<1>3. \A q \in Procs : call'[q].pc = "idle" /\ ~Writing(q)'
  BY <1>2, Alone DEF Rest, Writing, Idle
<1>4. CASE p = "loader"
  <2>1. mode' = "ap" /\ ota' = "idle" /\ Consistent(kv) /\ SomeActive(kv)
    BY <1>1, <1>2, <1>4, EndStep, Busy DEF Steady, LoaderConsistent
  <2>2. SemiConsistent(kv)
    BY <1>2, <2>1, ConsistentFacts
  <2> QED BY <1>2, <1>3, <2>1, <2>2 DEF Steady, LoaderConsistent, InitConsistent,
          UpdateConsistent, DoneConsistent, Updated, Procs
<1>5. CASE p = "init"
  <2>1. /\ mode' = "ap" /\ mode = "ap" /\ ota = "idle" /\ ota' = "idle"
        /\ ~reported' => ~reported
    <3>1. /\ mode = "ap" /\ ota = "idle" /\ UNCHANGED <<mode, ota>>
          /\ reported => call[p].ok
      BY <1>1, <1>2, <1>5, EndStep, Busy
    <3>2. reported' = (call[p].ok \/ build.bare)
      BY <1>1, <1>5, EndStep
    <3> QED BY <3>1, <3>2
  <2> QED BY <1>2, <1>3, <2>1 DEF Steady, LoaderConsistent, InitConsistent,
          UpdateConsistent, DoneConsistent, Updated, Procs
<1>6. CASE p = "ota"
  <2>1. /\ UNCHANGED <<mode, reported>> /\ mode = "ap"
        /\ \/ /\ call["ota"].op = "update" /\ ota = "idle"
              /\ ota' = IF call["ota"].ok THEN "updated" ELSE "idle"
           \/ /\ call["ota"].op = "done" /\ ota = "flashed"
              /\ ota' = IF call["ota"].ok THEN "done" ELSE "flashed"
    BY <1>1, <1>2, <1>6, EndStep, Busy
  <2> QED BY <1>2, <1>3, <1>6, <2>1 DEF Steady, LoaderConsistent, InitConsistent,
          UpdateConsistent, DoneConsistent, Updated, Procs
<1> QED BY <1>4, <1>5, <1>6 DEF Procs

(* Steady, when an image is written.                                       *)
LEMMA SteadyFlash ==
  ASSUME Base, Serial, Steady, FlashBegin \/ FlashEnd \/ FlashFail
  PROVE  Steady'
<1>1. /\ UNCHANGED <<kv, nvs, call, mode, reported>>
      /\ mode = "ap" /\ call["ota"].op \notin {"update", "done"}
      /\ \/ ota = "updated" /\ ota' = "flashing"
         \/ ota = "flashing" /\ ota' = "flashed"
         \/ ota = "flashing" /\ ota' = "idle"
  BY FlashStep
<1>2. Consistent(kv) /\ kv \in SUBSET Keys
  BY <1>1 DEF Steady, UpdateConsistent, Updated, Base, TypeOK
<1>3. SemiConsistent(kv) /\ MarkedBootable(kv)
  BY <1>2, ConsistentFacts
<1> QED BY <1>1, <1>2, <1>3 DEF Steady, LoaderConsistent, InitConsistent,
        UpdateConsistent, DoneConsistent, Updated, Writing

(* Steady, when the device starts again.                                   *)
LEMMA SteadyRestart ==
  ASSUME Base, Steady, Reboot \/ PowerCut \/ Watchdog
  PROVE  Steady'
<1>1. /\ \A p \in Procs : call'[p].op = "none" /\ call'[p].pc = "idle"
      /\ kv' = nvs /\ mode' = "off" /\ ota' = "idle" /\ UNCHANGED nvs
  BY RestartStep
<1> QED BY <1>1 DEF Steady, LoaderConsistent, InitConsistent, UpdateConsistent,
        DoneConsistent, Updated, Writing, Procs

(* StaysConsistent, across every step.                                     *)
LEMMA StaysConsistentStep ==
  ASSUME Base, Serial, StaysConsistent, [Next]_vars
  PROVE  StaysConsistent'
<1> SUFFICES ASSUME ~build'.direct, NoSlip({"flags"})'
             PROVE  Steady'
  BY DEF StaysConsistent, Steady
<1>1. NoSlip({"flags"}) /\ "flags" \notin slips'
  BY SlipsStay DEF NoSlip
<1>2. build' = build
  BY DEF Next, LoaderNext, InitNext, OtaNext, Reset, vars
<1>3. Steady /\ ~build.direct
  BY <1>1, <1>2 DEF StaysConsistent, Steady
<1>4. CASE UNCHANGED vars
  BY <1>3, <1>4 DEF vars, device, task, Steady, LoaderConsistent, InitConsistent,
     UpdateConsistent, DoneConsistent, Updated, Writing
<1>5. ASSUME NEW p \in Procs, Step(p) \/ WriteFails(p)
      PROVE  Steady'
  BY <1>1, <1>3, <1>5, SteadyRead, SteadyWrite, SteadyCommit, SteadyFail DEF Step
<1> QED BY <1>3, <1>4, <1>5, SteadyStart, SteadyEnd, SteadyFlash, SteadyRestart
        DEF Next, LoaderNext, InitNext, OtaNext, Reset, Procs

(* With a store that commits as a whole, what survives a power cut is      *)
(* consistent at every moment, whichever sets and commits fail and where,  *)
(* as long as the loader's choice reached the store.                       *)
THEOREM DurableStaysConsistent == ASSUME Serial PROVE Spec => []DurableIsConsistent
<1>1. Init => Base /\ StaysConsistent
  <2>1. Init => StaysConsistent
    BY DEF Init, NoCall, StaysConsistent, Consistent, OneActive, Nested, Slots,
       LoaderConsistent, InitConsistent, UpdateConsistent, DoneConsistent,
       Updated, Writing, Procs
  <2> QED BY <2>1, BaseInit
<1>2. Base /\ StaysConsistent /\ [Next]_vars => Base' /\ StaysConsistent'
  BY BaseStep, StaysConsistentStep
<1>3. StaysConsistent => DurableIsConsistent
  BY DEF StaysConsistent, DurableIsConsistent, Consistent
<1> QED BY <1>1, <1>2, <1>3, PTL DEF Spec

-----------------------------------------------------------------------------
(* SuccessfulIsWorking, for every build: with a direct store the loader    *)
(* may read flags that a power cut left half written.                      *)

Trusted(c) == \A s \in Slots : Successful(s) \in c => s \in working

(* The flags under which slot s runs: the commands take it for the running *)
(* one, and both slots are active only while slot a is known to work.      *)
Serves(c, s) ==
  /\ Active(s) \in c /\ ActiveSlot(c) = s
  /\ Bootable(s) \in c \/ Successful(s) \in c
  /\ OneActive(c) \/ "a" \in working

(* Flags from which the loader cannot be led to start slot b with slot a   *)
(* active: a half-written `done` or fallback shows itself.                 *)
Sound(c) ==
  /\ Active("a") \in c /\ Successful("b") \in c =>
       Bootable("a") \in c \/ Successful("a") \in c \/ Active("b") \in c
  /\ ~SomeActive(c) /\ Successful("b") \in c => Bootable("a") \in c
  /\ Active("b") \in c /\ Bootable("b") \notin c =>
       Successful("b") \in c \/ "a" \in working

(* The flags while `done` is at work, first or again: the running slot can *)
(* still be told from what was written.                                    *)
Switches(c) ==
  IF running = "a" THEN Successful("b") \notin c
  ELSE /\ Active("b") \in c \/ Bootable("a") \in c
       /\ Bootable("b") \in c \/ Successful("b") \in c

MarksTrusted ==
  /\ Trusted(kv) /\ Trusted(nvs)
  /\ \A p \in Procs : Writing(p) => Trusted(call[p].boot)

StoreSound ==
  /\ ~FallingBackToB => Sound(kv)
  /\ ~build.direct \/ ~FallingBackToB => Sound(nvs)

(* The loader decides on sound flags with one slot active at most. *)
LoaderServes ==
  /\ mode = "off" /\ call["loader"].pc \in {"idle", "read"} => OneActive(kv)
  /\ call["loader"].pc = "write" =>
       \E c \in SUBSET Keys :
          /\ OneActive(c) /\ Sound(c)
          /\ call["loader"].boot = Boot(c).cfg /\ call["loader"].slot = Boot(c).slot
          /\ \A j \in 1 .. 7 : j > call["loader"].n =>
               (KeyOrder[j] \in kv <=> KeyOrder[j] \in c)
  /\ call["loader"].pc = "commit" => Serves(call["loader"].boot, call["loader"].slot)
  /\ call["loader"].pc = "return" => Serves(kv, call["loader"].slot)

RunningServed ==
  /\ mode = "ap" /\ ota \in {"idle", "updated", "flashing"} => Serves(kv, running)
  /\ \A p \in Procs :
       Writing(p) /\ call[p].op \in {"success", "update"} =>
          /\ Serves(call[p].boot, running)
          /\ kv \cap SlotKeys(running) \subseteq call[p].boot

RunningWorks ==
  /\ \A s \in working : image[s] = "good"
  /\ ~Idle("init") \/ (mode = "ap" /\ reported) => running \in working

OtherCleared ==
  /\ call["ota"].op = "update" /\ Writing("ota") =>
       SlotKeys(Other(running)) \cap call["ota"].boot = {}
  /\ Updated => kv = nvs
  /\ Updated \/ ota = "flashing" => SlotKeys(Other(running)) \cap kv = {}
  /\ ota = "flashing" => target \notin working

DoneSwitches ==
  /\ ota \in {"flashed", "done"} => Switches(kv)
  /\ call["ota"].op = "done" /\ Writing("ota") =>
       /\ Switches(call["ota"].boot) /\ OneActive(call["ota"].boot)
       /\ kv \cap {Bootable("a"), Bootable("b"), Successful("b")} \subseteq call["ota"].boot
       /\ Successful("b") \in call["ota"].boot => Successful("b") \in kv
  /\ ota = "done" \/ (Finished("done") /\ call["ota"].ok) => OneActive(kv)

Works ==
  /\ MarksTrusted /\ StoreSound /\ LoaderServes /\ RunningServed
  /\ RunningWorks /\ OtherCleared /\ DoneSwitches

MarkedWorks == NoSlip({"flags", "fallback", "done"}) => Works

(* Flags that serve a slot are sound.                                      *)
LEMMA ServesIsSound ==
  ASSUME NEW c, NEW s \in Slots, Serves(c, s)
  PROVE  Sound(c)
  BY DEF Serves, Sound, ActiveSlot, SomeActive, OneActive, Slots

(* So are those of a switch from a slot that works.                        *)
LEMMA SwitchesIsSound ==
  ASSUME NEW c, Switches(c), running \in working, running \in Slots
  PROVE  Sound(c)
  BY DEF Switches, Sound, SomeActive, Slots

(* From sound flags the loader starts a slot that the commands will take   *)
(* for the running one, and it trusts no slot anew.                        *)
LEMMA BootServes ==
  ASSUME NEW c \in SUBSET Keys, OneActive(c), Sound(c)
  PROVE  /\ Boot(c).slot \in Slots /\ Boot(c).cfg \in SUBSET Keys
         /\ Serves(Boot(c).cfg, Boot(c).slot)
         /\ \A s \in Slots : Successful(s) \in Boot(c).cfg => Successful(s) \in c
<1> USE DEF Active, Bootable, Successful, Try, Slots
<1>1. Boot(c).slot \in Slots /\ Boot(c).cfg \in SUBSET Keys
  BY ComputeType, ComputeIs DEF Ops
<1>2. CASE /\ \A s \in Slots : Active(s) \notin c
           /\ Boot(c) = SuccessSlot(FreshCfg)
  <2>1. Boot(c) = [slot |-> "a", cfg |-> FreshCfg]
    BY <1>2 DEF SuccessSlot, FreshCfg
  <2>2. Boot(c).slot = "a" /\ Boot(c).cfg = FreshCfg
    BY <2>1
  <2>3. Serves(FreshCfg, "a")
    BY DEF FreshCfg, Serves, ActiveSlot, OneActive
  <2> QED BY <1>1, <2>2, <2>3 DEF FreshCfg
<1>3. CASE \E s \in Slots : /\ Pending(c, s)
                            /\ Boot(c) = [slot |-> s, cfg |-> c \cup {Try}]
  <2>1. PICK s \in Slots : /\ Pending(c, s)
                           /\ Boot(c) = [slot |-> s, cfg |-> c \cup {Try}]
    BY <1>3
  <2>2. Boot(c).slot = s /\ Boot(c).cfg = c \cup {Try}
    BY <2>1
  <2>3. Serves(c \cup {Try}, s)
    BY <2>1 DEF Pending, Serves, ActiveSlot, OneActive
  <2> QED BY <1>1, <2>2, <2>3
<1>4. ASSUME NEW d \in SUBSET c, Boot(c) = SuccessSlot(d),
             \/ \A s \in Slots : Active(s) \notin d
             \/ d = c /\ \A s \in Slots : ~Pending(c, s)
      PROVE  /\ Serves(Boot(c).cfg, Boot(c).slot)
             /\ \A s \in Slots : Successful(s) \in Boot(c).cfg => Successful(s) \in c
  <2>1. OneActive(d)
    BY DEF OneActive
  <2>2. CASE {Active("a"), Successful("a")} \subseteq d
    <3>1. Boot(c).slot = "a" /\ Boot(c).cfg = d
      BY <1>4, <2>2 DEF SuccessSlot
    <3> QED BY <2>1, <2>2, <3>1 DEF Serves, ActiveSlot
  <2>3. CASE /\ ~ ({Active("a"), Successful("a")} \subseteq d)
             /\ {Active("b"), Successful("b")} \subseteq d
    <3>1. Boot(c).slot = "b" /\ Boot(c).cfg = d
      BY <1>4, <2>3 DEF SuccessSlot
    <3> QED BY <2>1, <2>3, <3>1 DEF Serves, ActiveSlot, OneActive
  <2>4. CASE /\ ~ ({Active("a"), Successful("a")} \subseteq d)
             /\ ~ ({Active("b"), Successful("b")} \subseteq d)
             /\ Successful("a") \in d
    <3>1. Boot(c).slot = "a" /\ Boot(c).cfg = d \cup {Active("a")}
      BY <1>4, <2>4 DEF SuccessSlot
    <3>2. Active("b") \in d => "a" \in working
      BY <1>4, <2>4 DEF Sound, Pending
    <3> QED BY <2>4, <3>1, <3>2 DEF Serves, ActiveSlot, OneActive
  <2>5. CASE /\ ~ ({Active("a"), Successful("a")} \subseteq d)
             /\ ~ ({Active("b"), Successful("b")} \subseteq d)
             /\ Successful("a") \notin d /\ Successful("b") \in d
    <3>1. /\ Boot(c).slot = "b"
          /\ Boot(c).cfg = d \cup {Active("b"), Bootable("b")}
      BY <1>4, <2>5 DEF SuccessSlot
    <3>2. Active("a") \notin d
      BY <1>4, <2>5 DEF Sound, Pending
    <3> QED BY <2>5, <3>1, <3>2 DEF Serves, ActiveSlot, OneActive
  <2>6. CASE Successful("a") \notin d /\ Successful("b") \notin d
    <3>1. /\ Boot(c).slot = "a"
          /\ Boot(c).cfg = d \cup {Active("a"), Bootable("a")}
      BY <1>4, <2>6 DEF SuccessSlot
    <3>2. Active("b") \in d => "a" \in working
      BY <1>4, <2>6 DEF Sound, Pending
    <3> QED BY <2>6, <3>1, <3>2 DEF Serves, ActiveSlot, OneActive
  <2> QED BY <2>2, <2>3, <2>4, <2>5, <2>6
<1>5. CASE \E s \in Slots :
             Pending(c, s) /\ Boot(c) = SuccessSlot(c \ {Active(s), Bootable(s)})
  <2>1. PICK s \in Slots :
          Pending(c, s) /\ Boot(c) = SuccessSlot(c \ {Active(s), Bootable(s)})
    BY <1>5
  <2>2. \A t \in Slots : Active(t) \notin c \ {Active(s), Bootable(s)}
    BY <2>1 DEF Pending, OneActive
  <2> QED BY <1>1, <1>4, <2>1, <2>2
<1>6. CASE (\A s \in Slots : ~Pending(c, s)) /\ Boot(c) = SuccessSlot(c)
  BY <1>1, <1>4, <1>6
<1> QED BY <1>2, <1>3, <1>5, <1>6, BootCases

(* Every moment of the loader's write, the fallback to slot b apart, is    *)
(* sound again: the order of the properties sees to it.                    *)
LEMMA BootMidSound ==
  ASSUME NEW c \in SUBSET Keys, OneActive(c), Sound(c),
         NEW n \in 0 .. 6, NEW e,
         \A j \in 1 .. 7 : KeyOrder[j] \in e <=> IF j <= n THEN KeyOrder[j] \in Boot(c).cfg
                                                 ELSE KeyOrder[j] \in c,
         ~ (Boot(c).slot = "b" /\ n \in 1 .. 3)
  PROVE  Sound(e)
<1> DEFINE d == Boot(c).cfg
<1>1. /\ Active("a") \in e <=> IF 1 <= n THEN Active("a") \in d ELSE Active("a") \in c
      /\ Bootable("a") \in e <=> IF 2 <= n THEN Bootable("a") \in d ELSE Bootable("a") \in c
      /\ Successful("a") \in e <=>
           IF 3 <= n THEN Successful("a") \in d ELSE Successful("a") \in c
      /\ Active("b") \in e <=> IF 4 <= n THEN Active("b") \in d ELSE Active("b") \in c
      /\ Bootable("b") \in e <=> IF 5 <= n THEN Bootable("b") \in d ELSE Bootable("b") \in c
      /\ Successful("b") \in e <=>
           IF 6 <= n THEN Successful("b") \in d ELSE Successful("b") \in c
  BY KeyOrderFacts
<1>2. Sound(d)
  BY BootServes, ServesIsSound
<1> USE DEF Active, Bootable, Successful, Try, Slots
<1>3. CASE /\ \A s \in Slots : Active(s) \notin c
           /\ Boot(c) = SuccessSlot(FreshCfg)
  <2>1. Boot(c) = [slot |-> "a", cfg |-> FreshCfg]
    BY <1>3 DEF SuccessSlot, FreshCfg
  <2>2. d = FreshCfg
    BY <2>1
  <2> QED BY <1>1, <1>3, <2>2 DEF FreshCfg, Sound, SomeActive
<1>4. CASE \E s \in Slots : /\ Pending(c, s)
                            /\ Boot(c) = [slot |-> s, cfg |-> c \cup {Try}]
  <2>1. d = c \cup {Try}
    BY <1>4
  <2> QED BY <1>1, <2>1 DEF Sound, SomeActive
<1>5. CASE \E s \in Slots :
             Pending(c, s) /\ Boot(c) = SuccessSlot(c \ {Active(s), Bootable(s)})
  <2>1. PICK s \in Slots :
          Pending(c, s) /\ Boot(c) = SuccessSlot(c \ {Active(s), Bootable(s)})
    BY <1>5
  <2> DEFINE b == c \ {Active(s), Bootable(s)}
  <2>2. /\ Active("a") \notin b /\ Active("b") \notin b
        /\ Bootable("a") \in b <=> Bootable("a") \in c /\ s = "b"
        /\ Bootable("b") \in b <=> Bootable("b") \in c /\ s = "a"
        /\ \A t \in Slots : Successful(t) \in b <=> Successful(t) \in c
    BY <2>1 DEF Pending, OneActive
  <2>3. /\ Active(s) \in c /\ Bootable(s) \in c /\ Successful(s) \notin c
        /\ Active(Other(s)) \notin c
    BY <2>1 DEF Pending, OneActive, Other
  <2> HIDE DEF b
  <2>4. CASE Successful("a") \in c
    <3>1. d = b \cup {Active("a")}
      BY <2>1, <2>2, <2>4 DEF SuccessSlot, b
    <3> QED BY <1>1, <2>2, <2>3, <2>4, <3>1 DEF Sound, SomeActive, Other
  <2>5. CASE Successful("a") \notin c /\ Successful("b") \in c
    <3>1. d = b \cup {Active("b"), Bootable("b")} /\ Boot(c).slot = "b"
      BY <2>1, <2>2, <2>5 DEF SuccessSlot, b
    <3>2. n = 0 \/ n \in 4 .. 6
      BY <3>1
    <3> QED BY <1>1, <2>2, <2>3, <2>5, <3>1, <3>2 DEF Sound, SomeActive, Other
  <2>6. CASE Successful("a") \notin c /\ Successful("b") \notin c
    <3>1. d = b \cup {Active("a"), Bootable("a")}
      BY <2>1, <2>2, <2>6 DEF SuccessSlot, b
    <3> QED BY <1>1, <2>2, <2>3, <2>6, <3>1 DEF Sound, SomeActive, Other
  <2> QED BY <2>4, <2>5, <2>6
<1>6. CASE (\A s \in Slots : ~Pending(c, s)) /\ (\E s \in Slots : Active(s) \in c)
           /\ Boot(c) = SuccessSlot(c)
  <2>1. CASE \/ {Active("a"), Successful("a")} \subseteq c
             \/ {Active("b"), Successful("b")} \subseteq c
    <3>1. d = c
      BY <1>6, <2>1 DEF SuccessSlot
    <3> QED BY <1>1, <3>1 DEF Sound, SomeActive
  <2>2. CASE /\ ~ ({Active("a"), Successful("a")} \subseteq c)
             /\ ~ ({Active("b"), Successful("b")} \subseteq c)
             /\ Successful("a") \in c
    <3>1. d = c \cup {Active("a")}
      BY <1>6, <2>2 DEF SuccessSlot
    <3> QED BY <1>1, <1>6, <2>2, <3>1 DEF Sound, SomeActive
  <2>3. CASE /\ ~ ({Active("a"), Successful("a")} \subseteq c)
             /\ ~ ({Active("b"), Successful("b")} \subseteq c)
             /\ Successful("a") \notin c /\ Successful("b") \in c
    <3>1. Boot(c).slot = "b" /\ d = c \cup {Active("b"), Bootable("b")}
      BY <1>6, <2>3 DEF SuccessSlot
    <3>2. n = 0 \/ n \in 4 .. 6
      BY <3>1
    <3> QED BY <1>1, <1>6, <2>3, <3>1, <3>2 DEF Sound, SomeActive, Pending
  <2>4. CASE Successful("a") \notin c /\ Successful("b") \notin c
    <3>1. d = c \cup {Active("a"), Bootable("a")}
      BY <1>6, <2>4 DEF SuccessSlot
    <3> QED BY <1>1, <1>2, <1>6, <2>4, <3>1 DEF Sound, SomeActive, Pending
  <2> QED BY <2>1, <2>2, <2>3, <2>4
<1> QED BY <1>3, <1>4, <1>5, <1>6, BootCases

(* The mixtures of flags in between: `success` and `update` leave the      *)
(* running slot its flags, *)
LEMMA ServesMix ==
  ASSUME NEW c, NEW d, NEW e, NEW s \in Slots, Serves(c, s), Serves(d, s),
         e \subseteq c \cup d, c \cap d \subseteq e, c \cap SlotKeys(s) \subseteq d
  PROVE  Serves(e, s) /\ e \cap SlotKeys(s) \subseteq d
  BY DEF Serves, ActiveSlot, OneActive, SlotKeys, Slots

(* bootctl success keeps the flags of its slot and adds no other mark.     *)
LEMMA ServesSuccess ==
  ASSUME NEW c, NEW s \in Slots, Serves(c, s)
  PROVE  /\ Serves(SuccessCfg(c), s)
         /\ c \cap SlotKeys(s) \subseteq SuccessCfg(c)
         /\ \A t \in Slots : Successful(t) \in SuccessCfg(c) => Successful(t) \in c \/ t = s
<1> USE DEF Active, Bootable, Successful, Try, Slots
<1>1. ActiveSlot(c) = s
  BY DEF Serves
<1>2. CASE SuccessCfg(c) = c
  BY <1>2
<1>3. CASE SuccessCfg(c) = (c \ {Try}) \cup {Successful(s)}
  <2>1. Serves(SuccessCfg(c), s)
    BY <1>3 DEF Serves, ActiveSlot, OneActive
  <2>2. c \cap SlotKeys(s) \subseteq SuccessCfg(c)
    BY <1>3 DEF SlotKeys
  <2> QED BY <1>3, <2>1, <2>2
<1> QED BY <1>1, <1>2, <1>3 DEF SuccessCfg

(* bootctl update keeps the flags of the running slot and clears the       *)
(* other.                                                                  *)
LEMMA ServesUpdate ==
  ASSUME NEW c, NEW s \in Slots, Serves(c, s)
  PROVE  /\ Target(c) = Other(s)
         /\ Serves(UpdateCfg(c), s)
         /\ c \cap SlotKeys(s) \subseteq UpdateCfg(c)
         /\ SlotKeys(Other(s)) \cap UpdateCfg(c) = {}
<1>1. Target(c) = Other(s)
  BY DEF Serves, Target
<1>2. SlotKeys(s) \cap SlotKeys(Other(s)) = {}
  BY DEF SlotKeys, Other, Slots, Active, Bootable, Successful
<1>3. UpdateCfg(c) = c \ SlotKeys(Other(s))
  BY <1>1 DEF UpdateCfg
<1>4. {Active(s), Bootable(s), Successful(s)} = SlotKeys(s)
  BY DEF SlotKeys
<1>5. Serves(UpdateCfg(c), s)
  <2>1. \A k \in SlotKeys(s) : k \in UpdateCfg(c) <=> k \in c
    BY <1>2, <1>3
  <2>2. Active("a") \in UpdateCfg(c) => Active("a") \in c
    BY <1>3
  <2> QED BY <1>3, <1>4, <2>1, <2>2 DEF Serves, ActiveSlot, OneActive, Slots
<1> QED BY <1>1, <1>2, <1>3, <1>5

(* `done` keeps the marks by which the running slot can be told, also when *)
(* it is run again on what a failed one has left.                          *)
LEMMA SwitchesDone ==
  ASSUME NEW c, Switches(c), running \in Slots
  PROVE  /\ Switches(DoneCfg(c)) /\ OneActive(DoneCfg(c))
         /\ c \cap {Bootable("a"), Bootable("b"), Successful("b")} \subseteq DoneCfg(c)
         /\ \A s \in Slots : Successful(s) \in DoneCfg(c) <=> Successful(s) \in c
<1> USE DEF Active, Bootable, Successful, Slots
<1>1. CASE Active("a") \in c
  <2>1. DoneCfg(c) = (c \cup {Active("b"), Bootable("b")}) \ {Active("a")}
    BY <1>1 DEF DoneCfg, Target, ActiveSlot, Other
  <2> QED BY <2>1 DEF Switches, OneActive
<1>2. CASE Active("a") \notin c
  <2>1. DoneCfg(c) = (c \cup {Active("a"), Bootable("a")}) \ {Active("b")}
    BY <1>2 DEF DoneCfg, Target, ActiveSlot, Other
  <2> QED BY <2>1 DEF Switches, OneActive
<1> QED BY <1>1, <1>2

(* In between slot a is bootable before b's active flag goes.              *)
LEMMA SwitchesMix ==
  ASSUME NEW c, NEW d, NEW e, Switches(c), Switches(d), running \in Slots,
         e \subseteq c \cup d, c \cap d \subseteq e,
         c \cap {Bootable("a"), Bootable("b"), Successful("b")} \subseteq d,
         Active("b") \in c /\ Active("b") \notin e
           => (Bootable("a") \in d => Bootable("a") \in c)
  PROVE  Switches(e)
  BY DEF Switches, Slots

(* Flags that serve the running slot and say nothing of the other can be   *)
(* switched.                                                               *)
LEMMA SwitchesFrom ==
  ASSUME NEW c, running \in Slots, Serves(c, running),
         SlotKeys(Other(running)) \cap c = {}
  PROVE  Switches(c)
  BY DEF Serves, Switches, SlotKeys, Other, Slots

(* The try flag says nothing of the slots. *)
LEMMA ServesNoTry ==
  ASSUME NEW c, NEW d, NEW s \in Slots, c \ {Try} = d \ {Try}, Serves(d, s)
  PROVE  Serves(c, s)
<1>1. \A t \in Slots : /\ Active(t) \in c <=> Active(t) \in d
                       /\ Bootable(t) \in c <=> Bootable(t) \in d
                       /\ Successful(t) \in c <=> Successful(t) \in d
  BY DEF Active, Bootable, Successful, Try, Slots
<1> QED BY <1>1 DEF Serves, ActiveSlot, OneActive, Slots

(* Works, when a key is read.                                              *)
LEMMA WorksRead ==
  ASSUME Base, Works, NEW p \in Procs, ReadKey(p)
  PROVE  Works'
<1>1. /\ Rest(p) /\ ~Idle(p) /\ call'[p].op = call[p].op
      /\ UNCHANGED <<kv, nvs, mode, running, image, reported, ota, target, working>>
      /\ call[p].pc = "read" /\ call[p].ok /\ kv \in SUBSET Keys /\ running \in Slots
      /\ \/ call'[p].pc = "read"
         \/ /\ call'[p].n = 0
            /\ call'[p].boot = Compute(call[p].op, kv)
            /\ call'[p].slot = IF call[p].op = "boot" THEN Boot(kv).slot ELSE call[p].slot
            /\ call'[p].pc = IF Writes(call[p].op, kv) THEN "write" ELSE "return"
  BY ReadStep DEF Base, TypeOK
<1>2. \A q \in Procs : q # p => /\ call'[q] = call[q] /\ call[q].pc = "idle"
                                /\ call'[q].pc = "idle" /\ ~Writing(q) /\ ~Writing(q)'
  BY <1>1, Alone DEF Rest, Writing, Idle
<1>3. /\ call'[p].pc = "return" => call[p].op = "success"
      /\ call'[p].pc # "idle"
  BY <1>1 DEF Writes
<1>4. /\ \A c : Trusted(c)' = Trusted(c) /\ Sound(c)' = Sound(c)
      /\ \A c, s : Serves(c, s)' = Serves(c, s)
      /\ \A c : Switches(c)' = Switches(c)
  BY <1>1 DEF Trusted, Sound, Serves, Switches
<1>5. ~FallingBackToB /\ ~FallingBackToB'
  BY <1>1, <1>2 DEF FallingBackToB, Procs
<1>6. Trusted(kv) /\ Trusted(nvs) /\ Sound(kv) /\ Sound(nvs)
  BY <1>5 DEF Works, MarksTrusted, StoreSound
<1>7. StoreSound'
  BY <1>1, <1>4, <1>6 DEF StoreSound
<1>8. RunningWorks'
  BY <1>1, <1>2 DEF Works, RunningWorks, Idle, Procs
<1>9. MarksTrusted'
  <2>1. Writing(p)' => Trusted(call'[p].boot)
    <3>1. SUFFICES ASSUME Writing(p)'
                   PROVE  Trusted(Compute(call[p].op, kv))
      BY <1>1 DEF Writing
    <3>2. CASE call[p].op = "boot"
      <4>1. p = "loader" /\ mode = "off"
        BY <1>1, <3>2, Busy DEF Procs
      <4>2. OneActive(kv)
        BY <1>1, <4>1 DEF Works, LoaderServes
      <4> QED BY <1>1, <1>6, <3>2, <4>2, BootServes, ComputeIs DEF Trusted
    <3>3. CASE call[p].op = "success"
      <4>1. p = "init" /\ mode = "ap" /\ ota = "idle"
        BY <1>1, <3>3, Busy DEF Procs
      <4>2. Serves(kv, running) /\ running \in working
        BY <1>1, <4>1 DEF Works, RunningServed, RunningWorks
      <4>3. \A t \in Slots : Successful(t) \in SuccessCfg(kv)
                              => Successful(t) \in kv \/ t = running
        BY <1>1, <4>2, ServesSuccess
      <4>4. Compute(call[p].op, kv) = SuccessCfg(kv)
        BY <3>3, ComputeIs
      <4> QED BY <1>6, <4>2, <4>3, <4>4 DEF Trusted
    <3>4. CASE call[p].op = "update"
      BY <1>6, <3>4, ComputeIs DEF Trusted, UpdateCfg
    <3>5. CASE call[p].op = "done"
      <4>1. Successful("a") \in DoneCfg(kv) => Successful("a") \in kv
        BY DEF DoneCfg, Active, Bootable, Successful
      <4>2. Successful("b") \in DoneCfg(kv) => Successful("b") \in kv
        BY DEF DoneCfg, Active, Bootable, Successful
      <4> QED BY <1>6, <3>5, <4>1, <4>2, ComputeIs DEF Trusted, Slots
    <3> QED BY <1>1, <3>2, <3>3, <3>4, <3>5, Busy DEF Procs
  <2> QED BY <1>1, <1>2, <1>4, <1>6, <2>1 DEF MarksTrusted
<1>10. CASE p = "loader"
  <2>1. call[p].op = "boot" /\ mode = "off" /\ ota = "idle" /\ call'[p].pc # "return"
    BY <1>1, <1>3, <1>10, Busy
  <2>2. OneActive(kv)
    BY <1>1, <1>10, <2>1 DEF Works, LoaderServes
  <2>3. call'[p].pc = "write" => call'[p].boot = Boot(kv).cfg /\ call'[p].slot = Boot(kv).slot
    BY <1>1, <2>1, ComputeIs
  <2>4. call'[p].pc \in {"read", "write"}
    BY <1>1, <2>1
  <2>5. LoaderServes'
    <3>1. call'["loader"].pc = "write" =>
            \E c \in SUBSET Keys :
              /\ OneActive(c) /\ Sound(c)'
              /\ call'["loader"].boot = Boot(c).cfg /\ call'["loader"].slot = Boot(c).slot
              /\ \A j \in 1 .. 7 : j > call'["loader"].n =>
                   (KeyOrder[j] \in kv' <=> KeyOrder[j] \in c)
      BY <1>1, <1>4, <1>6, <1>10, <2>2, <2>3
    <3> QED BY <1>1, <1>10, <2>2, <2>4, <3>1 DEF LoaderServes
  <2>6. /\ mode' = "off" /\ ota' = "idle" /\ call'["ota"].pc = "idle"
        /\ call'["init"].pc = "idle" /\ call'["ota"].op = "none"
        /\ ~Writing("ota")' /\ ~Writing("init")' /\ call'["loader"].op = "boot"
    BY <1>1, <1>2, <1>10, <2>1 DEF Procs, Base, Roles, Idle
  <2>7. RunningServed' /\ OtherCleared' /\ DoneSwitches'
    BY <2>6 DEF RunningServed, OtherCleared, DoneSwitches, Updated, Finished, Procs
  <2> QED BY <1>7, <1>8, <1>9, <2>5, <2>7 DEF Works
<1>11. CASE p = "init"
  <2>1. /\ call[p].op = "success" /\ mode = "ap" /\ ota = "idle"
        /\ call'["ota"].pc = "idle" /\ call'["ota"].op = "none"
        /\ call'["loader"].pc = "idle" /\ ~Writing("loader")' /\ ~Writing("ota")'
    BY <1>1, <1>2, <1>11, Busy DEF Procs, Base, Roles, Idle
  <2>2. Serves(kv, running)
    BY <2>1 DEF Works, RunningServed
  <2>3. Writing("init")' => call'["init"].boot = SuccessCfg(kv)
    BY <1>1, <1>11, <2>1, ComputeIs DEF Writing
  <2>4. RunningServed'
    BY <1>1, <1>4, <1>11, <2>1, <2>2, <2>3, ServesSuccess DEF RunningServed, Procs
  <2>5. LoaderServes' /\ OtherCleared' /\ DoneSwitches'
    BY <1>1, <2>1 DEF LoaderServes, OtherCleared, DoneSwitches, Updated, Finished
  <2> QED BY <1>7, <1>8, <1>9, <2>4, <2>5 DEF Works
<1>12. CASE p = "ota"
  <2>1. /\ mode = "ap" /\ call'["loader"].pc = "idle"
        /\ ~Writing("loader")' /\ ~Writing("init")' /\ call'["ota"].pc # "return"
        /\ \/ call["ota"].op = "update" /\ ota = "idle"
           \/ call["ota"].op = "done" /\ ota = "flashed"
    BY <1>1, <1>2, <1>3, <1>12, Busy DEF Procs, Base, Turns
  <2>2. LoaderServes'
    BY <1>1, <2>1 DEF LoaderServes
  <2>3. CASE call["ota"].op = "update"
    <3>1. Serves(kv, running) /\ ota = "idle"
      BY <2>1, <2>3 DEF Works, RunningServed
    <3>2. Writing("ota")' => call'["ota"].boot = UpdateCfg(kv)
      BY <1>1, <1>12, <2>3, ComputeIs DEF Writing
    <3>3. RunningServed' /\ OtherCleared'
      BY <1>1, <1>4, <1>12, <2>1, <2>3, <3>1, <3>2, ServesUpdate
         DEF RunningServed, OtherCleared, Updated, Procs
    <3>4. DoneSwitches'
      BY <1>1, <1>12, <2>1, <2>3 DEF DoneSwitches, Finished
    <3> QED BY <1>7, <1>8, <1>9, <2>2, <3>3, <3>4 DEF Works
  <2>4. CASE call["ota"].op = "done"
    <3>1. Switches(kv) /\ ota = "flashed"
      BY <2>1, <2>4 DEF Works, DoneSwitches
    <3>2. Writing("ota")' => call'["ota"].boot = DoneCfg(kv)
      BY <1>1, <1>12, <2>4, ComputeIs DEF Writing
    <3>3. DoneSwitches'
      BY <1>1, <1>4, <1>12, <2>1, <2>4, <3>1, <3>2, SwitchesDone
         DEF DoneSwitches, Finished, Slots
    <3>4. RunningServed' /\ OtherCleared'
      BY <1>1, <1>12, <2>1, <2>4, <3>1 DEF RunningServed, OtherCleared, Updated, Procs
    <3> QED BY <1>7, <1>8, <1>9, <2>2, <3>3, <3>4 DEF Works
  <2> QED BY <2>1, <2>3, <2>4
<1> QED BY <1>10, <1>11, <1>12 DEF Procs

(* Works, when a key is written.                                           *)
LEMMA WorksWrite ==
  ASSUME Base, Works, NEW p \in Procs, WriteKey(p), UNCHANGED build
  PROVE  Works'
<1> DEFINE m == call[p]
           d == call[p].boot
<1>1. /\ Rest(p) /\ ~Idle(p) /\ m.pc = "write" /\ m.n \in 0 .. 6
      /\ UNCHANGED <<mode, running, image, reported, ota, target, working>>
      /\ kv' \in SUBSET Keys /\ nvs' \in SUBSET Keys
      /\ \A j \in 1 .. 7 : KeyOrder[j] \in kv' <=> IF j = m.n + 1 THEN KeyOrder[j] \in d
                                                   ELSE KeyOrder[j] \in kv
      /\ nvs' = IF build.direct THEN kv' ELSE nvs
      /\ call'[p].op = m.op /\ call'[p].boot = d /\ call'[p].slot = m.slot
      /\ \/ m.n < 6 /\ call'[p].n = m.n + 1 /\ call'[p].pc = "write"
         \/ m.n = 6 /\ call'[p].n = 0 /\ call'[p].pc = "commit"
  BY WriteStep
<1>2. \A q \in Procs : q # p => /\ call'[q] = call[q] /\ call[q].pc = "idle"
                                /\ call'[q].pc = "idle" /\ ~Writing(q) /\ ~Writing(q)'
  BY <1>1, Alone DEF Rest, Writing, Idle
<1>3. Writing(p) /\ Writing(p)' /\ d \in SUBSET Keys /\ kv \in SUBSET Keys
      /\ running \in Slots /\ call'[p].pc \notin {"idle", "read", "return"}
  BY <1>1 DEF Writing, Base, TypeOK, Calls
<1>4. /\ \A c : Trusted(c)' = Trusted(c) /\ Sound(c)' = Sound(c)
      /\ \A c, s : Serves(c, s)' = Serves(c, s)
      /\ \A c : Switches(c)' = Switches(c)
  BY <1>1 DEF Trusted, Sound, Serves, Switches
<1>5. kv' \subseteq kv \cup d /\ kv \cap d \subseteq kv'
  BY MixStep
<1>6. MarksTrusted'
  <2>1. Trusted(kv) /\ Trusted(nvs) /\ Trusted(d)
    BY <1>3 DEF Works, MarksTrusted
  <2>2. Trusted(kv') /\ Trusted(nvs')
    BY <1>1, <1>5, <2>1 DEF Trusted
  <2> QED BY <1>1, <1>2, <1>4, <2>1, <2>2 DEF MarksTrusted
<1>7. RunningWorks'
  BY <1>1, <1>2, <1>3 DEF Works, RunningWorks, Idle, Procs
<1>8. CASE p = "loader"
  <2>1. mode = "off" /\ ota = "idle"
    BY <1>1, <1>8, Busy
  <2>2. PICK c \in SUBSET Keys :
          /\ OneActive(c) /\ Sound(c)
          /\ d = Boot(c).cfg /\ m.slot = Boot(c).slot
          /\ \A j \in 1 .. 7 : j > m.n => (KeyOrder[j] \in kv <=> KeyOrder[j] \in c)
    BY <1>1, <1>8 DEF Works, LoaderServes
  <2>3. Wrote(m)
    BY <1>1 DEF Base, Phases
  <2>4. Serves(d, m.slot) /\ m.slot \in Slots
    BY <2>2, BootServes
  <2>5. \A j \in 1 .. 7 : KeyOrder[j] \in kv' <=> IF j <= m.n + 1 THEN KeyOrder[j] \in d
                                                  ELSE KeyOrder[j] \in c
    BY <1>1, <2>2, <2>3 DEF Wrote
  <2>6. ~FallingBackToB' => Sound(kv')
    <3>1. CASE m.n = 6
      <4>1. \A j \in 1 .. 7 : KeyOrder[j] \in kv' <=> KeyOrder[j] \in d
        BY <2>5, <3>1
      <4>2. kv' = d
        BY <1>1, <1>3, <4>1, SameConfig
      <4> QED BY <2>4, <4>2, ServesIsSound
    <3>2. CASE m.n < 6
      <4>1. m.n + 1 \in 0 .. 6 /\ call'["loader"].n = m.n + 1 /\ call'["loader"].pc = "write"
        BY <1>1, <1>8, <3>2
      <4>2. ~FallingBackToB' => ~ (m.slot = "b" /\ m.n + 1 \in 1 .. 3)
        BY <1>1, <1>8, <4>1 DEF FallingBackToB
      <4> HIDE DEF m
      <4>3. ~ (Boot(c).slot = "b" /\ m.n + 1 \in 1 .. 3) => Sound(kv')
        BY <2>2, <2>5, <4>1, BootMidSound DEF m
      <4> QED BY <2>2, <4>2, <4>3
    <3> QED BY <1>1, <3>1, <3>2
  <2>7. StoreSound'
    BY <1>1, <1>4, <2>6 DEF Works, StoreSound
  <2>8. LoaderServes'
    <3>1. call'["loader"].pc = "write" =>
            \E b \in SUBSET Keys :
              /\ OneActive(b) /\ Sound(b)'
              /\ call'["loader"].boot = Boot(b).cfg /\ call'["loader"].slot = Boot(b).slot
              /\ \A j \in 1 .. 7 : j > call'["loader"].n =>
                   (KeyOrder[j] \in kv' <=> KeyOrder[j] \in b)
      <4>1. call'["loader"].pc = "write" => call'["loader"].n = m.n + 1
        BY <1>1, <1>8
      <4>2. \A j \in 1 .. 7 : j > m.n + 1 => (KeyOrder[j] \in kv' <=> KeyOrder[j] \in c)
        BY <1>1, <2>5
      <4>3. OneActive(c) /\ Sound(c)'
        BY <1>4, <2>2
      <4>4. call'["loader"].boot = Boot(c).cfg /\ call'["loader"].slot = Boot(c).slot
        BY <1>1, <1>8, <2>2
      <4> HIDE DEF m, d
      <4> QED BY <4>1, <4>2, <4>3, <4>4
    <3>2. call'["loader"].pc = "commit" =>
            Serves(call["loader"].boot, call["loader"].slot)'
      BY <1>1, <1>4, <1>8, <2>4
    <3> QED BY <1>3, <1>8, <3>1, <3>2 DEF LoaderServes
  <2>9. /\ mode' = "off" /\ ota' = "idle" /\ call'["ota"].pc = "idle"
        /\ call'["ota"].op = "none" /\ call'["loader"].op = "boot"
        /\ ~Writing("ota")' /\ ~Writing("init")'
    BY <1>1, <1>2, <1>8, <2>1, Busy DEF Procs, Base, Roles, Idle
  <2>10. RunningServed' /\ OtherCleared' /\ DoneSwitches'
    BY <2>9 DEF RunningServed, OtherCleared, DoneSwitches, Updated, Finished, Procs
  <2> QED BY <1>6, <1>7, <2>7, <2>8, <2>10 DEF Works
<1>9. ASSUME p # "loader", Sound(kv')
      PROVE  StoreSound' /\ LoaderServes'
  <2>1. /\ mode = "ap" /\ call'["loader"].pc = "idle" /\ call["loader"].pc = "idle"
    BY <1>1, <1>2, <1>9, Busy DEF Procs
  <2>2. ~FallingBackToB /\ ~FallingBackToB'
    BY <2>1 DEF FallingBackToB
  <2>3. StoreSound'
    BY <1>1, <1>4, <1>9, <2>2 DEF Works, StoreSound
  <2> QED BY <1>1, <2>1, <2>3 DEF LoaderServes
<1>10. CASE p # "loader" /\ m.op \in {"success", "update"}
  <2>1. /\ mode = "ap" /\ ota = "idle"
        /\ p = "init" => m.op = "success" /\ call'["ota"].op = "none"
                         /\ call'["ota"].pc = "idle"
        /\ p = "ota" => m.op = "update"
    BY <1>1, <1>2, <1>10, Busy DEF Procs, Base, Turns, Roles, Idle
  <2>2. /\ Serves(kv, running) /\ Serves(d, running)
        /\ kv \cap SlotKeys(running) \subseteq d
    BY <1>3, <1>10, <2>1 DEF Works, RunningServed
  <2>3. Serves(kv', running) /\ kv' \cap SlotKeys(running) \subseteq d
    BY <1>3, <1>5, <2>2, ServesMix
  <2>4. StoreSound' /\ LoaderServes'
    BY <1>3, <1>9, <1>10, <2>3, ServesIsSound
  <2>5. RunningServed'
    BY <1>1, <1>2, <1>4, <2>2, <2>3 DEF RunningServed
  <2>6. OtherCleared'
    <3>1. call'["ota"].pc # "return" /\ ota' = "idle"
      BY <1>1, <1>3, <2>1, <1>10 DEF Procs
    <3>2. call'["ota"].op = "update" /\ Writing("ota")' =>
            SlotKeys(Other(running)) \cap call'["ota"].boot = {}
      BY <1>1, <1>3, <1>10, <2>1 DEF Works, OtherCleared, Procs
    <3> QED BY <1>1, <3>1, <3>2 DEF OtherCleared, Updated
  <2>7. DoneSwitches'
    BY <1>1, <1>10, <2>1 DEF DoneSwitches, Finished, Procs
  <2> QED BY <1>6, <1>7, <2>4, <2>5, <2>6, <2>7 DEF Works
<1>11. CASE p # "loader" /\ m.op \notin {"success", "update"}
  <2>1. p = "ota" /\ m.op = "done" /\ ota = "flashed" /\ mode = "ap" /\ reported
    BY <1>1, <1>11, Busy DEF Procs, Base, Turns
  <2>2. /\ Switches(kv) /\ Switches(d) /\ OneActive(d)
        /\ kv \cap {Bootable("a"), Bootable("b"), Successful("b")} \subseteq d
        /\ Successful("b") \in d => Successful("b") \in kv
        /\ running \in working
    BY <1>3, <2>1 DEF Works, DoneSwitches, RunningWorks
  <2>3. Active("b") \in kv /\ Active("b") \notin kv'
           => (Bootable("a") \in d => Bootable("a") \in kv)
    <3>1. Wrote(m)
      BY <1>1 DEF Base, Phases
    <3>2. Active("b") \in kv /\ Active("b") \notin kv' => m.n + 1 = 4
      BY <1>1, KeyOrderFacts
    <3>3. m.n + 1 = 4 => (Bootable("a") \in d <=> Bootable("a") \in kv)
      BY <3>1, KeyOrderFacts DEF Wrote
    <3> QED BY <3>2, <3>3
  <2>4. Switches(kv')
    BY <1>3, <1>5, <2>2, <2>3, SwitchesMix
  <2>5. StoreSound' /\ LoaderServes'
    BY <1>3, <1>9, <1>11, <2>2, <2>4, SwitchesIsSound
  <2>6. DoneSwitches'
    <3>1. call'["ota"].pc # "return" /\ ota' = "flashed" /\ call'["ota"].boot = d
      BY <1>1, <1>3, <2>1
    <3>2. /\ kv' \cap {Bootable("a"), Bootable("b"), Successful("b")} \subseteq d
          /\ Successful("b") \in d => Successful("b") \in kv'
      BY <1>5, <2>2
    <3> QED BY <1>1, <1>4, <2>1, <2>2, <2>4, <3>1, <3>2 DEF DoneSwitches, Finished
  <2>7. RunningServed' /\ OtherCleared'
    BY <1>1, <1>2, <2>1 DEF RunningServed, OtherCleared, Updated, Procs
  <2> QED BY <1>6, <1>7, <2>5, <2>6, <2>7 DEF Works
<1> QED BY <1>8, <1>10, <1>11

(* Works, when the store is committed.                                     *)
LEMMA WorksCommit ==
  ASSUME Base, Works, NEW p \in Procs, Commit(p)
  PROVE  Works'
<1>1. /\ Rest(p) /\ ~Idle(p) /\ kv = call[p].boot /\ nvs' = kv
      /\ UNCHANGED <<kv, mode, image, ota, target, working>>
      /\ call[p].pc = "commit" /\ call'[p].pc = "return"
      /\ call'[p].op = call[p].op /\ call[p].ok /\ call'[p].ok
      /\ call'[p].boot = call[p].boot /\ call'[p].slot = call[p].slot
      /\ call[p].op # "boot" => running' = running
      /\ call[p].op = "boot" => running' = call[p].slot
      /\ call[p].op # "boot" /\ call[p].op # "success" => (reported' <=> reported)
  <2>1. reported' = (call[p].op # "boot" /\ (call[p].op = "success" \/ reported))
    BY CommitStep
  <2>2. call[p].op # "boot" /\ call[p].op # "success" => (reported' <=> reported)
    BY <2>1, Zenon
  <2> QED BY <2>2, CommitStep
<1>2. \A q \in Procs : q # p => /\ call'[q] = call[q] /\ call[q].pc = "idle"
                                /\ call'[q].pc = "idle" /\ ~Writing(q)'
  BY <1>1, Alone DEF Rest, Writing, Idle
<1>3. Writing(p) /\ ~Writing(p)' /\ ~FallingBackToB /\ ~FallingBackToB'
  BY <1>1, <1>2 DEF Writing, FallingBackToB, Procs
<1>4. /\ \A c : Trusted(c)' = Trusted(c) /\ Sound(c)' = Sound(c)
      /\ \A c, s : Serves(c, s)' = Serves(c, s)
      /\ running' = running => \A c : Switches(c)' <=> Switches(c)
  <2>1. /\ \A c : Trusted(c)' = Trusted(c) /\ Sound(c)' = Sound(c)
        /\ \A c, s : Serves(c, s)' = Serves(c, s)
    BY <1>1 DEF Trusted, Sound, Serves
  <2>2. ASSUME running' = running
        PROVE  \A c : Switches(c)' <=> Switches(c)
    BY <2>2 DEF Switches
  <2> QED BY <2>1, <2>2
<1>5. MarksTrusted' /\ StoreSound'
  BY <1>1, <1>2, <1>3, <1>4 DEF Works, MarksTrusted, StoreSound
<1>6. CASE p = "loader"
  <2>1. /\ mode = "off" /\ ota = "idle" /\ call[p].op = "boot"
        /\ call'["ota"].pc = "idle" /\ call'["ota"].op = "none"
        /\ call'["init"].pc = "idle"
    BY <1>1, <1>2, <1>6, Busy DEF Procs, Base, Roles, Idle
  <2>2. LoaderServes'
    BY <1>1, <1>4, <1>6 DEF Works, LoaderServes
  <2>3. RunningServed' /\ OtherCleared' /\ DoneSwitches'
    BY <1>1, <1>2, <1>3, <2>1 DEF RunningServed, OtherCleared, DoneSwitches,
       Updated, Finished, Procs
  <2>4. RunningWorks'
    BY <1>1, <2>1 DEF Works, RunningWorks, Idle
  <2> QED BY <1>5, <2>2, <2>3, <2>4 DEF Works
<1>7. CASE p = "init"
  <2>1. /\ mode = "ap" /\ ota = "idle" /\ call[p].op = "success"
        /\ call'["ota"].pc = "idle" /\ call'["ota"].op = "none"
        /\ call'["loader"].pc = "idle"
    BY <1>1, <1>2, <1>7, Busy DEF Procs, Base, Roles, Idle
  <2>2. running \in working
    BY <1>1, <1>7 DEF Works, RunningWorks
  <2>3. LoaderServes' /\ OtherCleared' /\ DoneSwitches' /\ RunningWorks'
    BY <1>1, <1>3, <2>1, <2>2 DEF Works, LoaderServes, OtherCleared, DoneSwitches,
       RunningWorks, Updated, Finished, Writing, Idle
  <2>4. RunningServed'
    BY <1>1, <1>2, <1>3, <1>4, <2>1 DEF Works, RunningServed
  <2> QED BY <1>5, <2>3, <2>4 DEF Works
<1>8. CASE p = "ota"
  <2>1. /\ mode = "ap" /\ reported /\ call'["init"].pc = "idle"
        /\ call'["loader"].pc = "idle" /\ running' = running /\ (reported' <=> reported)
        /\ \/ call["ota"].op = "update" /\ ota = "idle"
           \/ call["ota"].op = "done" /\ ota = "flashed"
    BY <1>1, <1>2, <1>8, Busy DEF Procs, Base, Turns
  <2>2. LoaderServes' /\ RunningWorks'
    BY <1>1, <1>8, <2>1 DEF Works, LoaderServes, RunningWorks, Idle
  <2>3. RunningServed'
    BY <1>1, <1>2, <1>3, <1>4, <2>1 DEF Works, RunningServed
  <2>4. CASE call["ota"].op = "update"
    <3>1. SlotKeys(Other(running)) \cap kv = {} /\ ota = "idle"
      BY <1>1, <1>3, <1>8, <2>1, <2>4 DEF Works, OtherCleared
    <3>2. OtherCleared' /\ DoneSwitches'
      BY <1>1, <1>3, <1>8, <2>1, <2>4, <3>1 DEF OtherCleared, DoneSwitches,
         Updated, Finished
    <3> QED BY <1>5, <2>2, <2>3, <3>2 DEF Works
  <2>5. CASE call["ota"].op = "done"
    <3>1. Switches(kv) /\ OneActive(kv) /\ ota = "flashed"
      BY <1>1, <1>3, <1>8, <2>1, <2>5 DEF Works, DoneSwitches
    <3>2. OtherCleared' /\ DoneSwitches'
      BY <1>1, <1>3, <1>4, <1>8, <2>1, <2>5, <3>1 DEF OtherCleared, DoneSwitches,
         Updated, Finished
    <3> QED BY <1>5, <2>2, <2>3, <3>2 DEF Works
  <2> QED BY <2>1, <2>4, <2>5
<1> QED BY <1>6, <1>7, <1>8 DEF Procs

(* Works, when a write or a commit fails.                                  *)
LEMMA WorksFail ==
  ASSUME Base, Works, NEW p \in Procs, WriteFails(p), "flags" \notin slips',
         UNCHANGED build
  PROVE  Works'
<1>1. /\ Rest(p) /\ ~Idle(p)
      /\ UNCHANGED <<kv, nvs, mode, running, image, reported, ota, target, working>>
      /\ call[p].pc \in {"write", "commit"} /\ call'[p].pc = "return" /\ ~call'[p].ok
      /\ call'[p].op = call[p].op /\ call'[p].slot = call[p].slot
      /\ p = "loader" => kv \ {Try} = call[p].boot \ {Try}
  BY FailStep
<1>2. \A q \in Procs : q # p => /\ call'[q] = call[q] /\ call[q].pc = "idle"
                                /\ call'[q].pc = "idle" /\ ~Writing(q)'
  BY <1>1, Alone DEF Rest, Writing, Idle
<1>3. ~Writing(p)' /\ ~FallingBackToB' /\ (p # "loader" => ~FallingBackToB)
  BY <1>1, <1>2 DEF Writing, FallingBackToB, Procs
<1>4. /\ \A c : Trusted(c)' = Trusted(c) /\ Sound(c)' = Sound(c)
      /\ \A c, s : Serves(c, s)' = Serves(c, s)
      /\ \A c : Switches(c)' = Switches(c)
  BY <1>1 DEF Trusted, Sound, Serves, Switches
<1>5. MarksTrusted' /\ RunningWorks'
  BY <1>1, <1>2, <1>3, <1>4 DEF Works, MarksTrusted, RunningWorks, Idle, Procs
<1>6. RunningServed'
  BY <1>1, <1>2, <1>3, <1>4 DEF Works, RunningServed
<1>7. OtherCleared' /\ DoneSwitches'
  <2>1. Updated' => Updated
    BY <1>1, <1>2 DEF Updated, Procs
  <2>2. Finished("done")' /\ call'["ota"].ok => Finished("done") /\ call["ota"].ok
    BY <1>1, <1>2 DEF Finished, Procs
  <2>3. OtherCleared'
    BY <1>1, <1>2, <1>3, <2>1 DEF Works, OtherCleared, Procs
  <2>4. DoneSwitches'
    BY <1>1, <1>2, <1>3, <1>4, <2>2 DEF Works, DoneSwitches, Procs
  <2> QED BY <2>3, <2>4
<1>8. CASE p = "loader"
  <2>1. Serves(call[p].boot, call[p].slot) /\ call[p].slot \in Slots
    BY <1>1, <1>8, BootServes DEF Works, LoaderServes, Base, TypeOK, Calls
  <2>2. Serves(kv, call[p].slot) /\ Sound(kv)
    BY <1>1, <1>8, <2>1, ServesNoTry, ServesIsSound
  <2>3. StoreSound' /\ LoaderServes'
    BY <1>1, <1>4, <1>8, <2>2 DEF Works, StoreSound, LoaderServes, Base, DirectIsDurable
  <2> QED BY <1>5, <1>6, <1>7, <2>3 DEF Works
<1>9. CASE p # "loader"
  <2>1. StoreSound' /\ LoaderServes'
    BY <1>1, <1>2, <1>3, <1>4, <1>9 DEF Works, StoreSound, LoaderServes, Procs
  <2> QED BY <1>5, <1>6, <1>7, <2>1 DEF Works
<1> QED BY <1>8, <1>9

(* A slot that is added to the working ones takes nothing away. *)
LEMMA WorkingGrows ==
  ASSUME working \subseteq working', running' = running
  PROVE  /\ \A c : (Trusted(c) => Trusted(c)') /\ (Sound(c) => Sound(c)')
         /\ \A c, s : Serves(c, s) => Serves(c, s)'
         /\ \A c : Switches(c) => Switches(c)'
<1>1. \A c : (Trusted(c) => Trusted(c)') /\ (Sound(c) => Sound(c)')
  BY DEF Trusted, Sound
<1>2. \A c, s : Serves(c, s) => Serves(c, s)'
  BY DEF Serves
<1>3. \A c : Switches(c) => Switches(c)'
  BY DEF Switches
<1> QED BY <1>1, <1>2, <1>3

(* Works, when a command starts.                                           *)
LEMMA WorksStart ==
  ASSUME Base, Serial, Works, NEW p \in Procs, UNCHANGED build,
         \/ p = "loader" /\ LoaderStart
         \/ p = "init" /\ InitStart
         \/ p = "ota" /\ (UpdateStart \/ DoneStart)
  PROVE  Works'
<1>1. /\ Rest(p) /\ Idle(p) /\ call'[p].pc = "read"
      /\ UNCHANGED <<kv, nvs, mode, running, image, reported, ota, target>>
      /\ working \subseteq working'
      /\ \A s \in working' : s \in working \/ image[s] = "good"
      /\ \A s \in working' : s \in working \/ (s = running /\ ota = "idle")
      /\ p = "init" => running \in working' /\ mode = "ap"
      /\ p = "ota" => reported /\ mode = "ap"
      /\ p = "loader" => mode = "off"
  BY StartStep DEF Procs
<1>2. \A q \in Procs : (Writing(q)' => Writing(q) /\ call'[q] = call[q])
  BY <1>1 DEF Rest, Writing
<1>3. /\ \A c : (Trusted(c) => Trusted(c)') /\ (Sound(c) => Sound(c)')
      /\ \A c, s : Serves(c, s) => Serves(c, s)'
      /\ \A c : Switches(c) => Switches(c)'
  BY <1>1, WorkingGrows
<1>4. FallingBackToB' <=> FallingBackToB
  BY <1>1 DEF FallingBackToB, Idle, Rest, Procs
<1>5. MarksTrusted' /\ StoreSound'
  BY <1>1, <1>2, <1>3, <1>4 DEF Works, MarksTrusted, StoreSound
<1>6. call'["loader"] = call["loader"] \/ (Idle("loader") /\ call'["loader"].pc = "read")
  BY <1>1 DEF Rest, Procs
<1>7. LoaderServes'
  <2>1. mode' = "off" /\ call'["loader"].pc \in {"idle", "read"} => OneActive(kv)
    BY <1>1, <1>6 DEF Works, LoaderServes, Idle
  <2>2. call'["loader"].pc = "write" =>
          \E c \in SUBSET Keys :
             /\ OneActive(c) /\ Sound(c)'
             /\ call'["loader"].boot = Boot(c).cfg /\ call'["loader"].slot = Boot(c).slot
             /\ \A j \in 1 .. 7 : j > call'["loader"].n =>
                  (KeyOrder[j] \in kv <=> KeyOrder[j] \in c)
    BY <1>3, <1>6 DEF Works, LoaderServes
  <2>3. /\ call'["loader"].pc = "commit" =>
             Serves(call["loader"].boot, call["loader"].slot)'
        /\ call'["loader"].pc = "return" => Serves(kv, call["loader"].slot)'
    BY <1>1, <1>3, <1>6 DEF Works, LoaderServes
  <2> QED BY <1>1, <2>1, <2>2, <2>3 DEF LoaderServes
<1>8. RunningServed'
  BY <1>1, <1>2, <1>3 DEF Works, RunningServed
<1>9. RunningWorks'
  <2>1. \A s \in working' : image'[s] = "good"
    BY <1>1 DEF Works, RunningWorks
  <2>2. ~Idle("init")' \/ (mode' = "ap" /\ reported') => running' \in working'
    BY <1>1 DEF Works, RunningWorks, Idle, Rest, Procs
  <2> QED BY <2>1, <2>2 DEF RunningWorks
<1>10. call'["ota"].pc \in {"read", "write", "commit", "return"} /\ call'["ota"] # call["ota"]
         => call'["ota"].pc = "read"
  BY <1>1 DEF Rest, Procs
<1>11. OtherCleared'
  <2>1. Updated' => Updated
    BY <1>1, <1>10 DEF Updated
  <2>2. ota = "flashing" => target \notin working'
    BY <1>1 DEF Works, OtherCleared
  <2> QED BY <1>1, <1>2, <2>1, <2>2 DEF Works, OtherCleared, Procs
<1>12. DoneSwitches'
  <2>1. Finished("done")' /\ call'["ota"].ok => Finished("done") /\ call["ota"].ok
    BY <1>10 DEF Finished
  <2> QED BY <1>1, <1>2, <1>3, <2>1 DEF Works, DoneSwitches, Procs
<1> QED BY <1>5, <1>7, <1>8, <1>9, <1>11, <1>12 DEF Works

(* Works, when a command ends.                                             *)
LEMMA WorksEnd ==
  ASSUME Base, Works, NEW p \in Procs, UNCHANGED build,
         \/ p = "loader" /\ LoaderJump
         \/ p = "init" /\ InitEnd
         \/ p = "ota" /\ (UpdateEnd \/ DoneEnd)
  PROVE  Works'
<1>1. /\ Rest(p) /\ ~Idle(p) /\ call[p].pc = "return"
      /\ call'[p].pc = "idle" /\ call'[p].op = "none"
      /\ UNCHANGED <<kv, nvs, image, target, working>>
  BY EndStep
<1>2. \A q \in Procs : ~Writing(q) /\ ~Writing(q)' /\ call'[q].pc = "idle"
  BY <1>1, Alone DEF Rest, Writing, Idle
<1>3. ~FallingBackToB /\ ~FallingBackToB'
  BY <1>2 DEF FallingBackToB, Writing, Procs
<1>4. /\ \A c : Trusted(c)' = Trusted(c) /\ Sound(c)' = Sound(c)
      /\ \A c, s : Serves(c, s)' = Serves(c, s)
  BY <1>1 DEF Trusted, Sound, Serves
<1>5. MarksTrusted' /\ StoreSound'
  BY <1>1, <1>2, <1>3, <1>4 DEF Works, MarksTrusted, StoreSound
<1>6. ~ (call'["ota"].pc = "return") /\ (\A op : ~Finished(op)')
  BY <1>2 DEF Finished, Procs
<1>7. CASE p = "loader"
  <2>1. /\ mode' = "ap" /\ running' = call[p].slot /\ reported' = FALSE
        /\ ota = "idle" /\ ota' = "idle"
    BY <1>1, <1>7, EndStep, Busy
  <2>2. Serves(kv, call["loader"].slot)
    BY <1>1, <1>7 DEF Works, LoaderServes
  <2>3. RunningServed' /\ LoaderServes'
    BY <1>1, <1>2, <1>4, <1>7, <2>1, <2>2 DEF RunningServed, LoaderServes, Procs
  <2>4. RunningWorks' /\ OtherCleared' /\ DoneSwitches'
    BY <1>1, <1>2, <1>6, <2>1 DEF Works, RunningWorks, OtherCleared, DoneSwitches,
       Updated, Idle, Procs
  <2> QED BY <1>5, <2>3, <2>4 DEF Works
<1>8. CASE p = "init"
  <2>1. mode' = mode /\ mode = "ap" /\ running' = running /\ ota' = ota /\ ota = "idle"
    BY <1>1, <1>8, EndStep, Busy
  <2>2. running \in working
    BY <1>1, <1>8 DEF Works, RunningWorks
  <2>3. RunningServed' /\ LoaderServes'
    BY <1>1, <1>2, <1>4, <2>1 DEF Works, RunningServed, LoaderServes, Procs
  <2>4. RunningWorks' /\ OtherCleared' /\ DoneSwitches'
    BY <1>1, <1>2, <1>6, <2>1, <2>2 DEF Works, RunningWorks, OtherCleared, DoneSwitches,
       Updated, Idle, Procs
  <2> QED BY <1>5, <2>3, <2>4 DEF Works
<1>9. CASE p = "ota"
  <2>1. /\ mode' = mode /\ mode = "ap" /\ running' = running /\ (reported' <=> reported)
        /\ reported
    BY <1>1, <1>9, EndStep, Busy
  <2>2. \/ /\ call["ota"].op = "update" /\ ota = "idle"
           /\ ota' = IF call["ota"].ok THEN "updated" ELSE "idle"
        \/ /\ call["ota"].op = "done" /\ ota = "flashed"
           /\ ota' = IF call["ota"].ok THEN "done" ELSE "flashed"
    BY <1>9, EndStep
  <2>3. LoaderServes' /\ RunningWorks'
    BY <1>1, <1>2, <2>1 DEF Works, LoaderServes, RunningWorks, Idle, Procs
  <2>4. RunningServed'
    BY <1>1, <1>2, <1>4, <2>1, <2>2 DEF Works, RunningServed
  <2>5. Updated' => Updated
    BY <1>1, <1>6, <1>9, <2>2 DEF Updated
  <2>6. ota' # "flashing"
    BY <2>2
  <2>7. OtherCleared'
    BY <1>1, <1>2, <2>1, <2>5, <2>6 DEF Works, OtherCleared, Procs
  <2>8. /\ ota' \in {"flashed", "done"} => ota = "flashed"
        /\ ota' = "done" => Finished("done") /\ call["ota"].ok
    BY <1>1, <1>9, <2>2 DEF Finished
  <2>9. \A c : Switches(c)' <=> Switches(c)
    BY <2>1 DEF Switches
  <2>10. DoneSwitches'
    BY <1>1, <1>2, <1>6, <2>8, <2>9 DEF Works, DoneSwitches, Procs
  <2> QED BY <1>5, <2>3, <2>4, <2>7, <2>10 DEF Works
<1> QED BY <1>7, <1>8, <1>9 DEF Procs

(* Works, when an image is written.                                        *)
LEMMA WorksFlash ==
  ASSUME Base, Serial, Works, UNCHANGED build, FlashBegin \/ FlashEnd \/ FlashFail
  PROVE  Works'
<1>1. /\ UNCHANGED <<kv, nvs, call, mode, running, reported>>
      /\ mode = "ap" /\ call["ota"].op # "update"
  BY FlashStep
<1>2. /\ image \in [Slots -> Images] /\ target \in Slots /\ running \in Slots
      /\ working \in SUBSET Slots
  BY DEF Base, TypeOK
<1>3. call["loader"].pc = "idle" /\ ~FallingBackToB /\ ~FallingBackToB'
  BY <1>1 DEF Base, Turns, Idle, FallingBackToB
<1>4. LoaderServes'
  BY <1>1, <1>3 DEF LoaderServes
<1>5. CASE FlashBegin
  <2> DEFINE t == Target(kv)
  <2>1. /\ ota = "updated" /\ ota' = "flashing" /\ target' = t /\ reported
        /\ image' = [image EXCEPT ![t] = "torn"]
        /\ working' = working \ {t}
        /\ Idle("ota") /\ Idle("init")
    BY <1>5, FlashStep DEF Base, Turns
  <2>2. \A q \in Procs : ~Writing(q) /\ call[q].pc = "idle"
    BY <1>3, <2>1 DEF Writing, Idle, Procs
  <2>3. Serves(kv, running)
    BY <1>1, <2>1 DEF Works, RunningServed
  <2>4. t = Other(running) /\ t # running /\ t \in Slots
    BY <1>2, <2>3 DEF Serves, Target, Other, Slots
  <2> HIDE DEF t
  <2>5. kv = nvs /\ SlotKeys(t) \cap kv = {}
    BY <2>1, <2>4 DEF Works, OtherCleared, Updated
  <2>6. OneActive(kv)
    BY <2>4, <2>5 DEF OneActive, SlotKeys
  <2>7. Serves(kv, running)' /\ Sound(kv)'
    <3>1. Serves(kv, running)'
      BY <1>1, <2>3, <2>6 DEF Serves
    <3> QED BY <1>1, <1>2, <3>1, ServesIsSound DEF Serves, Sound, ActiveSlot,
            SomeActive, OneActive, Slots
  <2>8. Trusted(kv)'
    <3>1. Successful(t) \notin kv
      BY <2>5 DEF SlotKeys
    <3> QED BY <1>1, <2>1, <3>1 DEF Works, MarksTrusted, Trusted
  <2>9. MarksTrusted' /\ StoreSound'
    BY <1>1, <2>2, <2>5, <2>7, <2>8 DEF MarksTrusted, StoreSound, Writing
  <2>10. RunningServed'
    BY <1>1, <2>1, <2>2, <2>7 DEF RunningServed, Writing
  <2>11. RunningWorks'
    <3>1. running \in working /\ running' = running
      BY <1>1, <2>1 DEF Works, RunningWorks
    <3>2. \A s \in working' : image'[s] = "good"
      BY <1>2, <2>1, <2>4 DEF Works, RunningWorks
    <3> QED BY <2>1, <2>4, <3>1, <3>2 DEF RunningWorks
  <2>12. OtherCleared' /\ DoneSwitches'
    BY <1>1, <2>1, <2>2, <2>4, <2>5 DEF OtherCleared, DoneSwitches, Updated, Finished,
       Writing, Procs
  <2> QED BY <1>4, <2>9, <2>10, <2>11, <2>12 DEF Works
<1>6. CASE FlashEnd \/ FlashFail
  <2>1. /\ ota = "flashing" /\ ota' \in {"flashed", "idle"}
        /\ UNCHANGED <<target, working>>
        /\ \A s \in Slots : s # target => image'[s] = image[s]
    <3>1. CASE FlashEnd
      BY <1>2, <3>1, FlashStep
    <3>2. CASE FlashFail
      BY <1>2, <3>2, FlashStep
    <3> QED BY <1>6, <3>1, <3>2
  <2>2. /\ \A c : Trusted(c)' = Trusted(c) /\ Sound(c)' = Sound(c)
        /\ \A c, s : Serves(c, s)' = Serves(c, s)
        /\ \A c : Switches(c)' = Switches(c)
    BY <1>1, <2>1 DEF Trusted, Sound, Serves, Switches
  <2>3. Serves(kv, running) /\ SlotKeys(Other(running)) \cap kv = {} /\ target \notin working
    BY <1>1, <2>1 DEF Works, RunningServed, OtherCleared
  <2>4. Switches(kv)
    BY <1>2, <2>3, SwitchesFrom
  <2>5. MarksTrusted' /\ StoreSound'
    BY <1>1, <1>3, <2>2 DEF Works, MarksTrusted, StoreSound, Writing
  <2>6. RunningServed'
    BY <1>1, <2>1, <2>2, <2>3 DEF Works, RunningServed, Writing
  <2>7. RunningWorks'
    BY <1>1, <1>2, <2>1, <2>3 DEF Works, RunningWorks, Idle
  <2>8. call["ota"].op = "none"
    BY <1>1, <2>1 DEF Base, Roles, Turns
  <2>9. OtherCleared' /\ DoneSwitches'
    BY <1>1, <2>1, <2>2, <2>4, <2>8 DEF OtherCleared, DoneSwitches, Updated, Finished
  <2> QED BY <1>4, <2>5, <2>6, <2>7, <2>9 DEF Works
<1> QED BY <1>5, <1>6

(* A restart finds sound flags with one slot active at most: the power cut *)
(* that does not is a mishap, and a watchdog bites before the OTA task     *)
(* could have changed anything.                                            *)
LEMMA WorksRestart ==
  ASSUME Base, Works, UNCHANGED build, Reboot \/ PowerCut \/ Watchdog,
         "fallback" \notin slips', "done" \notin slips',
         ~build.direct => OneActive(nvs)
  PROVE  Works'
<1>1. /\ \A p \in Procs : call'[p].op = "none" /\ call'[p].pc = "idle" /\ call'[p].ok
      /\ kv' = nvs /\ mode' = "off" /\ ota' = "idle"
      /\ UNCHANGED <<nvs, running, image, reported, target, working>>
      /\ \/ mode = "ap" /\ ota = "done"
         \/ mode = "ap" /\ image[running] # "good"
         \/ /\ build.direct => ~FallingBackToB
            /\ OneActive(nvs)
  BY RestartStep
<1>2. \A p \in Procs : ~Writing(p)' /\ call'[p].pc = "idle"
  BY <1>1 DEF Writing
<1>3. build.direct => ~FallingBackToB
  BY <1>1 DEF Base, Turns, Idle, FallingBackToB
<1>4. Sound(nvs)
  BY <1>3 DEF Works, StoreSound
<1>5. OneActive(nvs)
  <2>1. CASE ~build.direct
    BY <2>1
  <2>2. CASE build.direct
    <3>1. kv = nvs
      BY <2>2 DEF Base, DirectIsDurable
    <3>2. CASE mode = "ap" /\ ota = "done"
      BY <3>1, <3>2 DEF Works, DoneSwitches
    <3>3. CASE mode = "ap" /\ image[running] # "good"
      <4>1. running \notin working
        BY <3>3 DEF Works, RunningWorks
      <4>2. ota = "idle"
        BY <3>3, <4>1 DEF Works, RunningWorks, Base, Turns
      <4>3. Serves(kv, running)
        BY <3>3, <4>2 DEF Works, RunningServed
      <4> QED BY <3>1, <4>1, <4>3 DEF Serves, OneActive, ActiveSlot, Slots
    <3> QED BY <1>1, <3>2, <3>3
  <2> QED BY <2>1, <2>2
<1>6. \A c : Trusted(c)' = Trusted(c) /\ Sound(c)' = Sound(c)
  BY <1>1 DEF Trusted, Sound
<1>7. MarksTrusted' /\ StoreSound'
  BY <1>1, <1>2, <1>4, <1>6 DEF Works, MarksTrusted, StoreSound
<1>8. LoaderServes' /\ RunningServed' /\ RunningWorks' /\ OtherCleared' /\ DoneSwitches'
  BY <1>1, <1>2, <1>5 DEF Works, LoaderServes, RunningServed, RunningWorks,
     OtherCleared, DoneSwitches, Updated, Finished, Idle, Procs
<1> QED BY <1>7, <1>8 DEF Works

(* MarkedWorks, across every step.                                         *)
LEMMA MarkedWorksStep ==
  ASSUME Base, Serial, StaysConsistent, MarkedWorks, [Next]_vars
  PROVE  MarkedWorks'
<1> SUFFICES ASSUME NoSlip({"flags", "fallback", "done"})'
             PROVE  Works'
  BY DEF MarkedWorks
<1>1. /\ NoSlip({"flags", "fallback", "done"})
      /\ "flags" \notin slips' /\ "fallback" \notin slips' /\ "done" \notin slips'
  BY SlipsStay DEF NoSlip
<1>2. UNCHANGED build
  BY DEF Next, LoaderNext, InitNext, OtaNext, Reset, vars
<1>3. Works
  BY <1>1 DEF MarkedWorks
<1>4. ~build.direct => OneActive(nvs)
  BY <1>1 DEF StaysConsistent, Consistent, NoSlip
<1>5. CASE UNCHANGED vars
  <2>1. /\ \A c : Trusted(c)' = Trusted(c) /\ Sound(c)' = Sound(c)
        /\ \A c, s : Serves(c, s)' = Serves(c, s)
        /\ \A c : Switches(c)' = Switches(c)
    BY <1>5 DEF vars, device, history, Trusted, Sound, Serves, Switches
  <2>2. UNCHANGED <<kv, nvs, call, build, mode, running, image, reported, ota, target,
                    working>>
    BY <1>5 DEF vars, device, task, history
  <2> QED BY <1>3, <2>1, <2>2 DEF Works, MarksTrusted, StoreSound, FallingBackToB,
          LoaderServes, RunningServed, RunningWorks, OtherCleared, DoneSwitches,
          Writing, Updated, Finished, Idle
<1>6. ASSUME NEW p \in Procs, Step(p) \/ WriteFails(p)
      PROVE  Works'
  BY <1>1, <1>2, <1>3, <1>6, WorksRead, WorksWrite, WorksCommit, WorksFail DEF Step
<1> QED BY <1>1, <1>2, <1>3, <1>4, <1>5, <1>6, WorksStart, WorksEnd, WorksFlash,
        WorksRestart DEF Next, LoaderNext, InitNext, OtaNext, Reset, Procs

(* What the loader boots without a trial has been booted before: in every  *)
(* build, wherever sets fail or the power is cut, a slot whose durable     *)
(* flags say successful holds an image that got as far as reporting, but   *)
(* for the three mishaps named.                                            *)
THEOREM SuccessfulSlotWorks == ASSUME Serial PROVE Spec => []SuccessfulIsWorking
<1>1. Init => Base /\ StaysConsistent /\ MarkedWorks
  <2>1. Init => StaysConsistent
    BY DEF Init, NoCall, StaysConsistent, Consistent, OneActive, Nested, Slots,
       LoaderConsistent, InitConsistent, UpdateConsistent, DoneConsistent,
       Updated, Writing, Procs
  <2>2. Init => MarkedWorks
    BY DEF Init, NoCall, MarkedWorks, Works, MarksTrusted, StoreSound, LoaderServes,
       RunningServed, RunningWorks, OtherCleared, DoneSwitches, Trusted, Sound,
       SomeActive, OneActive, Slots, Updated, Finished, Idle, Writing, Procs
  <2> QED BY <2>1, <2>2, BaseInit
<1>2. Base /\ StaysConsistent /\ MarkedWorks /\ [Next]_vars
        => Base' /\ StaysConsistent' /\ MarkedWorks'
  BY BaseStep, StaysConsistentStep, MarkedWorksStep
<1>3. MarkedWorks => SuccessfulIsWorking
  BY DEF MarkedWorks, Works, MarksTrusted, Trusted, SuccessfulIsWorking
<1> QED BY <1>1, <1>2, <1>3, PTL DEF Spec

-----------------------------------------------------------------------------
(* RecoversInTwoBoots: as long as slot a works any trusted flags lead back *)
(* to it; while it does not, slot b is marked, and some slot is active.    *)

NoTrace(c) == SlotKeys("b") \cap c = {}

(* With `bootctl success` the OTA task waits for the mark, so b is marked  *)
(* when a is overwritten.  With plain `bootctl` the report may be lost,    *)
(* and a slot that reported keeps its mark until it is cleared altogether. *)
Remembers(c) ==
  IF build.bare
    THEN "b" \in proven => \/ Successful("b") \in c
                           \/ "a" \in working /\ NoTrace(c)
    ELSE "b" \in working /\ "a" \notin working => Successful("b") \in c

FirstIsA ==
  working = {} => /\ NoTrace(kv) /\ NoTrace(nvs)
                  /\ \A p \in Procs : Writing(p) => NoTrace(call[p].boot)

ProvenWorks ==
  /\ proven \subseteq working
  /\ ota \in {"flashing", "flashed", "done"} =>
       target = Other(running) /\ target \notin proven

Remembered ==
  /\ Remembers(kv) /\ Remembers(nvs)
  /\ \A p \in Procs : Writing(p) =>
       /\ Remembers(call[p].boot)
       /\ Successful("b") \in call[p].boot =>
            Successful("b") \in kv \/ (p = "init" /\ running = "b")

ReportMarks ==
  /\ ~build.bare /\ mode = "ap" /\ reported /\ ota \in {"idle", "updated", "flashing"}
       => Successful(running) \in kv
  /\ Writing("init") => Successful(running) \in call["init"].boot
  /\ call["init"].pc = "return" /\ call["init"].ok => Successful(running) \in kv

(* Plain `bootctl` reports once in a boot, so what it finds is durable.    *)
ReportsOnce ==
  build.bare /\ \/ mode = "off"
                \/ ~reported /\ call["init"].pc \in {"idle", "read"}
                \/ call["init"].pc = "return" /\ call["init"].ok
    => (Successful("b") \in kv => Successful("b") \in nvs)

StaysActive ==
  /\ "b" \in working /\ "a" \notin working =>
       /\ SomeActive(nvs) \/ (build.direct /\ FallingBackToB)
       /\ mode = "off" /\ call["loader"].pc \in {"idle", "read"} => SomeActive(kv)
  /\ call["ota"].op = "done" /\ Writing("ota") => SomeActive(call["ota"].boot)

Returns == FirstIsA /\ ProvenWorks /\ Remembered /\ ReportMarks /\ ReportsOnce /\ StaysActive

(* The mishaps that RecoversInTwoBoots excludes. *)
Unslipped == NoSlip(IF build.direct THEN Slips \ {"report"} ELSE {"flags"})

(* With a store that commits as a whole two of the mishaps cannot happen.  *)
LateSlips == ~build.direct /\ NoSlip({"flags"}) => NoSlip({"fallback", "done"})

StaysRecoverable == Unslipped => Returns

(* The slot the loader falls back to.                                      *)
LEMMA SuccessSlotIsMarked ==
  ASSUME NEW c
  PROVE  /\ SuccessSlot(c).slot = "b" => Successful("b") \in c
         /\ Successful("b") \in c /\ Successful("a") \notin c => SuccessSlot(c).slot = "b"
         /\ SuccessSlot(c).slot \in Slots
  BY DEF SuccessSlot, Slots

(* The loader begins afresh, starts a trial, or falls to a marked slot.    *)
LEMMA BootIs ==
  ASSUME NEW c \in SUBSET Keys
  PROVE  \/ ~SomeActive(c) /\ Boot(c).slot = "a" /\ Boot(c).cfg = FreshCfg
         \/ SomeActive(c) /\ Try \notin c /\ Boot(c).cfg = c \cup {Try}
         \/ /\ SomeActive(c)
            /\ \E d \in SUBSET c :
                 /\ Boot(c) = SuccessSlot(d)
                 /\ \A s \in Slots : Successful(s) \in d <=> Successful(s) \in c
<1>1. CASE (\A s \in Slots : Active(s) \notin c) /\ Boot(c) = SuccessSlot(FreshCfg)
  <2>1. Boot(c) = [slot |-> "a", cfg |-> FreshCfg]
    BY <1>1 DEF SuccessSlot, FreshCfg, Active, Bootable, Successful, Try
  <2> QED BY <1>1, <2>1 DEF SomeActive
<1>2. ASSUME NEW s \in Slots, Pending(c, s), Try \notin c,
             Boot(c) = [slot |-> s, cfg |-> c \cup {Try}]
      PROVE  SomeActive(c) /\ Try \notin c /\ Boot(c).cfg = c \cup {Try}
  BY <1>2 DEF Pending, SomeActive
<1>3. ASSUME NEW s \in Slots, Pending(c, s),
             Boot(c) = SuccessSlot(c \ {Active(s), Bootable(s)})
      PROVE  /\ SomeActive(c)
             /\ \E d \in SUBSET c :
                  /\ Boot(c) = SuccessSlot(d)
                  /\ \A t \in Slots : Successful(t) \in d <=> Successful(t) \in c
  <2>1. \A t \in Slots : Successful(t) \in c \ {Active(s), Bootable(s)}
                           <=> Successful(t) \in c
    BY DEF Active, Bootable, Successful
  <2> QED BY <1>3, <2>1 DEF Pending, SomeActive
<1>4. CASE (\E s \in Slots : Active(s) \in c) /\ Boot(c) = SuccessSlot(c)
  BY <1>4 DEF SomeActive
<1> QED BY <1>1, <1>2, <1>3, <1>4, BootCases

(* While slot a works, two boots from any trusted flags reach a slot that  *)
(* works: b is started a second time in a row only when it is marked.      *)
LEMMA RecoversByA ==
  ASSUME NEW c \in SUBSET Keys, "a" \in working, Trusted(c)
  PROVE  Recovers(c)
<1>1. SUFFICES ASSUME Boot(c).slot # "a", Successful("b") \notin c
               PROVE  Boot(Boot(c).cfg).slot = "a"
  <2>1. Boot(c).slot \in Slots
    BY ComputeType DEF Ops
  <2>2. Boot(c).slot # "a" /\ Successful("b") \in c => Boot(c).slot \in working
    BY <2>1 DEF Trusted, Slots
  <2> QED BY <2>1, <2>2 DEF Recovers, Slots
<1>2. ASSUME NEW b, Boot(c) = SuccessSlot(b), Successful("b") \notin b
      PROVE  FALSE
  BY <1>1, <1>2, SuccessSlotIsMarked DEF Slots
<1>3. Successful("b") \notin FreshCfg
  BY DEF FreshCfg, Active, Bootable, Successful, Try
<1>4. PICK s \in Slots : Pending(c, s) /\ Boot(c) = [slot |-> s, cfg |-> c \cup {Try}]
  BY <1>1, <1>2, <1>3, BootCases
<1> DEFINE d == c \cup {Try}
<1>5. Boot(c).cfg = d /\ d \in SUBSET Keys /\ Try \in d
  BY <1>4 DEF Keys
<1>6. Successful("b") \notin d
  BY <1>1 DEF Successful, Try
<1> HIDE DEF d
<1>7. Boot(d).slot \in Slots
  BY <1>5, ComputeType DEF Ops
<1>8. \A b \in SUBSET d : Boot(d) = SuccessSlot(b) => Boot(d).slot = "a"
  BY <1>6, <1>7, SuccessSlotIsMarked DEF Slots
<1>9. Boot(d) = SuccessSlot(FreshCfg) => Boot(d).slot = "a"
  BY <1>3, <1>7, SuccessSlotIsMarked DEF Slots
<1> QED BY <1>5, <1>8, <1>9, BootCases

(* While it does not, it takes b's mark and an active slot: without one    *)
(* the loader begins afresh with slot a.                                   *)
LEMMA RecoversByB ==
  ASSUME NEW c \in SUBSET Keys, Trusted(c), "a" \notin working,
         Successful("b") \in c, SomeActive(c)
  PROVE  Recovers(c)
<1>1. "b" \in working /\ Successful("a") \notin c
  BY DEF Trusted, Slots
<1>2. ASSUME NEW d \in SUBSET Keys, SomeActive(d),
             Successful("b") \in d, Successful("a") \notin d
      PROVE  \/ Boot(d).slot = "b"
             \/ Try \notin d /\ Boot(d).cfg = d \cup {Try}
  BY <1>2, BootIs, SuccessSlotIsMarked DEF Slots
<1>3. CASE Boot(c).slot = "b"
  BY <1>1, <1>3 DEF Recovers
<1>4. CASE Boot(c).cfg = c \cup {Try}
  <2>1. c \cup {Try} \in SUBSET Keys /\ SomeActive(c \cup {Try})
    BY DEF Keys, SomeActive
  <2>2. Successful("b") \in c \cup {Try} /\ Successful("a") \notin c \cup {Try}
    BY <1>1 DEF Successful, Try
  <2>3. Boot(c \cup {Try}).slot = "b"
    BY <1>2, <2>1, <2>2
  <2> QED BY <1>1, <1>4, <2>3 DEF Recovers
<1> QED BY <1>1, <1>2, <1>3, <1>4

(* What the commands make of the marks of slot b. *)
LEMMA NoTraceBoot ==
  ASSUME NEW c \in SUBSET Keys, NoTrace(c)
  PROVE  NoTrace(Boot(c).cfg)
<1>1. CASE Boot(c).cfg = FreshCfg \/ Boot(c).cfg = c \cup {Try}
  BY <1>1 DEF NoTrace, FreshCfg, SlotKeys, Active, Bootable, Successful, Try
<1>2. ASSUME NEW d \in SUBSET c, Boot(c) = SuccessSlot(d)
      PROVE  NoTrace(Boot(c).cfg)
  <2>1. NoTrace(d) /\ Successful("b") \notin d
    BY DEF NoTrace, SlotKeys
  <2>2. SuccessSlot(d).cfg \subseteq d \cup {Active("a"), Bootable("a")}
    BY <2>1 DEF SuccessSlot
  <2> QED BY <1>2, <2>1, <2>2 DEF NoTrace, SlotKeys, Active, Bootable, Successful
<1> QED BY <1>1, <1>2, BootIs

(* The loader keeps the mark of a slot that works.                         *)
LEMMA RemembersBoot ==
  ASSUME NEW c \in SUBSET Keys, Remembers(c), working \subseteq Slots,
         proven \subseteq working,
         "b" \in working /\ "a" \notin working => SomeActive(c)
  PROVE  Remembers(Boot(c).cfg)
<1>1. CASE Successful("b") \in c /\ SomeActive(c)
  <2>1. ASSUME NEW d, Boot(c) = SuccessSlot(d), Successful("b") \in d
        PROVE  Successful("b") \in Boot(c).cfg
    BY <2>1 DEF SuccessSlot
  <2>2. Successful("b") \in Boot(c).cfg
    BY <1>1, <2>1, BootIs DEF Slots
  <2> QED BY <2>2 DEF Remembers
<1>2. CASE Successful("b") \in c /\ ~SomeActive(c)
  <2>1. Boot(c).cfg = FreshCfg
    BY <1>2, BootIs
  <2>2. NoTrace(FreshCfg)
    BY DEF NoTrace, FreshCfg, SlotKeys, Active, Bootable, Successful, Try
  <2> QED BY <1>2, <2>1, <2>2 DEF Remembers
<1>3. CASE Successful("b") \notin c
  BY <1>3, NoTraceBoot DEF Remembers
<1> QED BY <1>1, <1>2, <1>3

(* So does bootctl success, which adds that of its slot.                   *)
LEMMA RemembersSuccess ==
  ASSUME NEW c, NEW s \in Slots, Serves(c, s), Remembers(c)
  PROVE  /\ Remembers(SuccessCfg(c)) /\ Successful(s) \in SuccessCfg(c)
         /\ Successful("b") \in SuccessCfg(c) => Successful("b") \in c \/ s = "b"
<1>1. ActiveSlot(c) = s
  BY DEF Serves
<1>2. /\ Successful(s) \in SuccessCfg(c)
      /\ Successful("b") \in SuccessCfg(c) => Successful("b") \in c \/ s = "b"
      /\ Successful("b") \in c => Successful("b") \in SuccessCfg(c)
  BY <1>1 DEF SuccessCfg, SuccessWrites, Successful, Try
<1>3. s = "a" /\ NoTrace(c) => NoTrace(SuccessCfg(c))
  BY <1>1 DEF SuccessCfg, NoTrace, SlotKeys, Active, Bootable, Successful, Try
<1> QED BY <1>2, <1>3 DEF Remembers, Slots

(* So does bootctl update.                                                 *)
LEMMA RemembersUpdate ==
  ASSUME NEW c, NEW s \in Slots, Serves(c, s), Remembers(c), s \in working
  PROVE  /\ Remembers(UpdateCfg(c))
         /\ Successful("b") \in UpdateCfg(c) => Successful("b") \in c
<1>1. UpdateCfg(c) = c \ SlotKeys(Other(s)) /\ Target(c) = Other(s)
  BY ServesUpdate DEF UpdateCfg
<1>2. CASE s = "a"
  <2>1. Other(s) = "b" /\ "a" \in working
    BY <1>2 DEF Other
  <2>2. NoTrace(UpdateCfg(c))
    BY <1>1, <2>1 DEF NoTrace
  <2> QED BY <1>1, <2>1, <2>2 DEF Remembers
<1>3. CASE s = "b"
  <2>1. Successful("b") \in UpdateCfg(c) <=> Successful("b") \in c
    BY <1>1, <1>3 DEF Other, SlotKeys, Active, Bootable, Successful
  <2>2. ~NoTrace(c)
    BY <1>3 DEF Serves, NoTrace, SlotKeys
  <2> QED BY <2>1, <2>2 DEF Remembers
<1> QED BY <1>1, <1>2, <1>3 DEF Slots

(* So does bootctl done.                                                   *)
LEMMA RemembersDone ==
  ASSUME NEW c, running \in Slots, Switches(c), Remembers(c), Other(running) \notin proven
  PROVE  /\ Remembers(DoneCfg(c)) /\ SomeActive(DoneCfg(c))
         /\ Successful("b") \in DoneCfg(c) <=> Successful("b") \in c
<1>1. Successful("b") \in DoneCfg(c) <=> Successful("b") \in c
  BY SwitchesDone DEF Slots
<1>2. SomeActive(DoneCfg(c))
  BY DoneCfgSelects DEF SomeActive, Target, ActiveSlot, Other, Slots
<1>3. "b" \in proven /\ build.bare => Successful("b") \in c
  <2> SUFFICES ASSUME "b" \in proven
               PROVE  ~NoTrace(c)
    BY DEF Remembers
  <2>1. running = "b"
    BY DEF Other, Slots
  <2> QED BY <2>1 DEF Switches, NoTrace, SlotKeys
<1> QED BY <1>1, <1>2, <1>3 DEF Remembers

(* `update` clears the successful flag last, so the mark is whole or gone  *)
(* at every moment of it.                                                  *)
LEMMA RemembersMix ==
  ASSUME Base, NEW p \in Procs, WriteKey(p), Remembers(kv), Remembers(call[p].boot),
         Successful("b") \in call[p].boot => Successful("b") \in kv \/ ~NoTrace(kv),
         UNCHANGED build
  PROVE  Remembers(kv')
<1> DEFINE d == call[p].boot
           n == call[p].n
<1>1. /\ n \in 0 .. 6 /\ Wrote(call[p]) /\ kv' \in SUBSET Keys
      /\ \A j \in 1 .. 7 : KeyOrder[j] \in kv' <=> IF j = n + 1 THEN KeyOrder[j] \in d
                                                   ELSE KeyOrder[j] \in kv
      /\ UNCHANGED <<working, proven>>
  BY WriteStep DEF Base, Phases
<1>2. kv' \subseteq kv \cup d /\ kv \cap d \subseteq kv'
  BY MixStep
<1>3. CASE Successful("b") \in kv /\ Successful("b") \in d
  BY <1>1, <1>2, <1>3 DEF Remembers
<1>4. CASE NoTrace(kv) /\ NoTrace(d)
  <2>1. NoTrace(kv')
    BY <1>2, <1>4 DEF NoTrace
  <2> QED BY <1>1, <1>4, <2>1 DEF Remembers, NoTrace, SlotKeys
<1>5. CASE Successful("b") \in kv /\ NoTrace(d)
  <2>1. Successful("b") \in kv' \/ NoTrace(kv')
    <3>1. CASE n + 1 = 6
      <4>1. \A j \in 1 .. 7 : j \in 4 .. 6 => (KeyOrder[j] \in kv' <=> KeyOrder[j] \in d)
        BY <1>1, <3>1 DEF Wrote
      <4> QED BY <1>5, <4>1, KeyOrderFacts DEF NoTrace, SlotKeys
    <3>2. CASE n + 1 # 6
      BY <1>1, <1>5, <3>2, KeyOrderFacts
    <3> QED BY <3>1, <3>2
  <2> QED BY <1>1, <1>5, <2>1 DEF Remembers, NoTrace, SlotKeys
<1>6. CASE /\ IF build.bare THEN "b" \notin proven
              ELSE ~("b" \in working /\ "a" \notin working)
  BY <1>1, <1>6 DEF Remembers
<1> QED BY <1>3, <1>4, <1>5, <1>6 DEF Remembers, NoTrace, SlotKeys

(* Only a working slot reports and updates. *)
LEMMA CommandWorks ==
  ASSUME Base, Works, NEW p \in Procs, ~Idle(p), p # "loader"
  PROVE  /\ mode = "ap" /\ running \in working /\ Idle("loader")
         /\ p = "init" => ota = "idle" /\ call[p].op = "success" /\ Idle("ota")
         /\ p = "ota" => /\ reported /\ Idle("init")
                         /\ \/ call[p].op = "update" /\ ota = "idle"
                            \/ call[p].op = "done" /\ ota = "flashed"
<1>1. /\ mode = "ap"
      /\ p = "init" => ota = "idle" /\ call[p].op = "success"
      /\ p = "ota" => call[p].op \in {"update", "done"} /\ reported
  BY Busy DEF Procs
<1>2. Idle("loader") /\ (p = "init" => Idle("ota")) /\ (p = "ota" => Idle("init"))
  BY Alone DEF Procs
<1>3. running \in working
  BY <1>1 DEF Works, RunningWorks, Procs
<1> QED BY <1>1, <1>2, <1>3 DEF Base, Turns, Procs

(* Returns, when a key is read.                                            *)
LEMMA ReturnsRead ==
  ASSUME Base, Works, Returns, NEW p \in Procs, ReadKey(p), UNCHANGED build
  PROVE  Returns'
<1>1. /\ Rest(p) /\ ~Idle(p) /\ call'[p].op = call[p].op
      /\ UNCHANGED <<kv, nvs, mode, running, image, reported, ota, target, working, proven>>
      /\ call[p].pc = "read" /\ kv \in SUBSET Keys /\ running \in Slots
      /\ working \subseteq Slots
      /\ \/ call'[p].pc = "read"
         \/ /\ call'[p].boot = Compute(call[p].op, kv)
            /\ call'[p].pc = IF Writes(call[p].op, kv) THEN "write" ELSE "return"
  BY ReadStep DEF Base, TypeOK
<1>2. \A q \in Procs : q # p => /\ call'[q] = call[q] /\ call[q].pc = "idle"
                                /\ ~Writing(q)'
  BY <1>1, Alone DEF Rest, Writing, Idle
<1>3. \A c : Remembers(c)' = Remembers(c)
  BY <1>1 DEF Remembers
<1>4. ~FallingBackToB
  BY <1>1, <1>2 DEF FallingBackToB, Procs
<1>5. FirstIsA /\ ProvenWorks /\ Remembered /\ ReportMarks /\ ReportsOnce /\ StaysActive
  BY DEF Returns
<1>6. ProvenWorks'
  BY <1>1, <1>5 DEF ProvenWorks
<1>7. ReportsOnce'
  <2>1. p = "init" => ~reported
    BY <1>1, Busy
  <2>2. \/ ~reported /\ call'["init"].pc \in {"idle", "read"}
        \/ call'["init"].pc = "return" /\ call'["init"].ok
        => \/ ~reported /\ call["init"].pc \in {"idle", "read"}
           \/ call["init"].pc = "return" /\ call["init"].ok
    BY <1>1, <1>2, <2>1 DEF Procs
  <2> QED BY <1>1, <1>5, <2>2 DEF ReportsOnce
<1>8. /\ "b" \in working /\ "a" \notin working =>
           /\ SomeActive(nvs)
           /\ mode = "off" /\ call'["loader"].pc \in {"idle", "read"} => SomeActive(kv)
  BY <1>1, <1>2, <1>4, <1>5 DEF StaysActive, Procs
<1>9. CASE p = "loader"
  <2>1. call[p].op = "boot" /\ mode = "off" /\ call'["init"] = call["init"] /\ ~Writing("init")'
    BY <1>1, <1>2, <1>9, Busy DEF Procs
  <2>2. OneActive(kv) /\ Sound(kv)
    BY <1>1, <1>4, <1>9, <2>1 DEF Works, LoaderServes, StoreSound
  <2>3. Writing(p)' => call'[p].boot = Boot(kv).cfg
    BY <1>1, <2>1, ComputeIs DEF Writing
  <2>4. "b" \in working /\ "a" \notin working => SomeActive(kv)
    BY <1>1, <1>5, <1>9, <2>1 DEF StaysActive
  <2>5. Remembers(Boot(kv).cfg)
    BY <1>1, <1>5, <2>4, RemembersBoot DEF Remembered, ProvenWorks
  <2>6. Successful("b") \in Boot(kv).cfg => Successful("b") \in kv
    BY <1>1, <2>2, BootServes DEF Slots
  <2>7. Remembered'
    BY <1>1, <1>2, <1>3, <1>5, <2>3, <2>5, <2>6 DEF Remembered
  <2>8. FirstIsA'
    BY <1>1, <1>2, <1>5, <2>3, NoTraceBoot DEF FirstIsA, NoTrace
  <2>9. ReportMarks'
    BY <1>1, <1>5, <2>1 DEF ReportMarks
  <2>10. StaysActive'
    BY <1>1, <1>2, <1>8, <1>9 DEF StaysActive, SomeActive, Procs
  <2> QED BY <1>6, <1>7, <2>7, <2>8, <2>9, <2>10 DEF Returns
<1>10. CASE p # "loader"
  <2>1. /\ mode = "ap" /\ running \in working
        /\ p = "init" => ota = "idle" /\ call[p].op = "success"
        /\ p = "ota" => /\ reported
                        /\ \/ call[p].op = "update" /\ ota = "idle"
                           \/ call[p].op = "done" /\ ota = "flashed"
    BY <1>1, <1>10, CommandWorks
  <2>2. FirstIsA'
    BY <1>1, <2>1 DEF FirstIsA
  <2>3. p = "init" => Serves(kv, running)
    BY <2>1 DEF Works, RunningServed
  <2>4. /\ Remembers(Compute(call[p].op, kv))
        /\ Successful("b") \in Compute(call[p].op, kv) =>
             Successful("b") \in kv \/ (p = "init" /\ running = "b")
        /\ call[p].op = "done" => SomeActive(Compute(call[p].op, kv))
    <3>1. Remembers(kv)
      BY <1>5 DEF Remembered
    <3>2. CASE p = "init"
      BY <1>1, <2>1, <2>3, <3>1, <3>2, ComputeIs, RemembersSuccess
    <3>3. CASE p = "ota" /\ call[p].op = "update"
      <4>1. Serves(kv, running)
        BY <2>1, <3>3 DEF Works, RunningServed
      <4> QED BY <1>1, <2>1, <3>1, <3>3, <4>1, ComputeIs, RemembersUpdate
    <3>4. CASE p = "ota" /\ call[p].op = "done"
      <4>1. Switches(kv) /\ Other(running) \notin proven
        BY <1>5, <2>1, <3>4 DEF Works, DoneSwitches, ProvenWorks
      <4> QED BY <1>1, <3>1, <3>4, <4>1, ComputeIs, RemembersDone
    <3> QED BY <1>10, <2>1, <3>2, <3>3, <3>4 DEF Procs
  <2>5. Writing(p)' => call'[p].boot = Compute(call[p].op, kv)
    BY <1>1 DEF Writing
  <2>6. Remembered'
    BY <1>1, <1>2, <1>3, <1>5, <2>4, <2>5 DEF Remembered
  <2>7. StaysActive'
    BY <1>1, <1>2, <1>8, <2>4, <2>5 DEF StaysActive, SomeActive, Procs
  <2>8. ReportMarks'
    <3>1. CASE p = "init"
      <4>1. Successful(running) \in SuccessCfg(kv)
        BY <1>1, <1>5, <2>3, <3>1, RemembersSuccess DEF Remembered
      <4>2. ~Writes("success", kv) => Successful(running) \in kv
        BY <2>3, <3>1 DEF Writes, SuccessWrites, Serves
      <4>3. Compute("success", kv) = SuccessCfg(kv)
        BY ComputeIs
      <4> QED BY <1>1, <1>5, <2>1, <2>5, <3>1, <4>1, <4>2, <4>3 DEF ReportMarks
    <3>2. CASE p # "init"
      BY <1>1, <1>2, <1>5, <3>2 DEF ReportMarks, Procs
    <3> QED BY <3>1, <3>2
  <2> QED BY <1>6, <1>7, <2>2, <2>6, <2>7, <2>8 DEF Returns
<1> QED BY <1>9, <1>10

(* While the loader writes, the slot it chose is active from its turn on.  *)
LEMMA LoaderActive ==
  ASSUME Works, Base, Writing("loader")
  PROVE  /\ Active(call["loader"].slot) \in call["loader"].boot
         /\ call["loader"].slot \in Slots
  BY BootActivates DEF Works, LoaderServes, Serves, Writing, Base, TypeOK, Calls, Procs

(* Returns, when a key is written.                                         *)
LEMMA ReturnsWrite ==
  ASSUME Base, Works, Works', Returns, DoneFollows, build.direct => "redo" \notin slips,
         NEW p \in Procs, WriteKey(p), UNCHANGED build
  PROVE  Returns'
<1> DEFINE d == call[p].boot
           n == call[p].n
<1>1. /\ Rest(p) /\ ~Idle(p) /\ call[p].pc = "write" /\ n \in 0 .. 6
      /\ UNCHANGED <<mode, running, image, reported, ota, target, working, proven>>
      /\ kv' \in SUBSET Keys
      /\ \A j \in 1 .. 7 : KeyOrder[j] \in kv' <=> IF j = n + 1 THEN KeyOrder[j] \in d
                                                   ELSE KeyOrder[j] \in kv
      /\ nvs' = IF build.direct THEN kv' ELSE nvs
      /\ call'[p].op = call[p].op /\ call'[p].boot = d /\ call'[p].slot = call[p].slot
      /\ \/ n < 6 /\ call'[p].n = n + 1 /\ call'[p].pc = "write"
         \/ n = 6 /\ call'[p].n = 0 /\ call'[p].pc = "commit"
  BY WriteStep
<1>2. \A q \in Procs : q # p => /\ call'[q] = call[q] /\ call[q].pc = "idle"
                                /\ ~Writing(q) /\ ~Writing(q)'
  BY <1>1, Alone DEF Rest, Writing, Idle
<1>3. Writing(p) /\ Writing(p)' /\ Wrote(call[p]) /\ call'[p].pc \notin {"idle", "read", "return"}
  BY <1>1 DEF Writing, Base, Phases
<1>4. kv' \subseteq kv \cup d /\ kv \cap d \subseteq kv'
  BY MixStep
<1>5. \A c : Remembers(c)' = Remembers(c)
  BY <1>1 DEF Remembers
<1>6. FirstIsA /\ ProvenWorks /\ Remembered /\ ReportMarks /\ ReportsOnce /\ StaysActive
  BY DEF Returns
<1>7. FirstIsA' /\ ProvenWorks'
  <2>1. ProvenWorks'
    BY <1>1, <1>6 DEF ProvenWorks
  <2>2. working = {} => NoTrace(kv') /\ NoTrace(nvs')
    BY <1>1, <1>3, <1>4, <1>6 DEF FirstIsA, NoTrace
  <2> QED BY <1>1, <1>2, <1>3, <1>6, <2>1, <2>2 DEF FirstIsA, NoTrace
<1>8. p = "loader" => mode = "off"
  BY <1>1, Busy
<1>9. p # "loader" => /\ mode = "ap" /\ running \in working
                      /\ p = "init" => ota = "idle" /\ call[p].op = "success"
                      /\ p = "ota" => /\ reported
                                      /\ \/ call[p].op = "update" /\ ota = "idle"
                                         \/ call[p].op = "done" /\ ota = "flashed"
  BY <1>1, CommandWorks
<1>10. p = "init" => Serves(kv, running)
  BY <1>9 DEF Works, RunningServed
<1>11. Remembers(kv')
  <2>1. Successful("b") \in d => Successful("b") \in kv \/ ~NoTrace(kv)
    BY <1>3, <1>6, <1>10 DEF Remembered, Serves, NoTrace, SlotKeys
  <2> QED BY <1>3, <1>6, <2>1, RemembersMix DEF Remembered
<1>12. Remembered'
  <2>1. Remembers(nvs')
    BY <1>1, <1>6, <1>11 DEF Remembered
  <2>2. Successful("b") \in d => Successful("b") \in kv' \/ (p = "init" /\ running = "b")
    BY <1>3, <1>4, <1>6 DEF Remembered
  <2> QED BY <1>1, <1>2, <1>3, <1>5, <1>6, <1>11, <2>1, <2>2 DEF Remembered
<1>13. ReportMarks'
  <2>1. ~build.bare /\ mode = "ap" /\ reported /\ ota \in {"idle", "updated", "flashing"}
          => Successful(running) \in kv'
    <3> SUFFICES ASSUME ~build.bare, mode = "ap", reported,
                        ota \in {"idle", "updated", "flashing"}
                 PROVE  Successful(running) \in kv'
      OBVIOUS
    <3>1. p = "ota" /\ call[p].op = "update"
      BY <1>1, <1>8, <1>9, Busy DEF Procs
    <3>2. kv \cap SlotKeys(running) \subseteq d /\ Successful(running) \in kv
      BY <1>3, <1>6, <3>1 DEF Works, RunningServed, ReportMarks
    <3> QED BY <1>4, <3>2 DEF SlotKeys
  <2>2. call'["init"].pc # "return"
    BY <1>2, <1>3 DEF Procs
  <2>3. Writing("init")' => Successful(running) \in call'["init"].boot
    BY <1>1, <1>2, <1>3, <1>6 DEF ReportMarks, Procs
  <2> QED BY <1>1, <2>1, <2>2, <2>3 DEF ReportMarks
<1>14. ReportsOnce'
  <2>1. CASE p = "loader"
    <3>1. Successful("b") \in kv' => Successful("b") \in kv
      BY <1>3, <1>4, <1>6, <2>1 DEF Remembered
    <3> QED BY <1>1, <1>6, <1>8, <2>1, <3>1 DEF ReportsOnce
  <2>2. CASE p = "init"
    BY <1>1, <1>3, <1>9, <2>2 DEF ReportsOnce
  <2>3. CASE p = "ota"
    BY <1>1, <1>2, <1>9, <2>3 DEF ReportsOnce, Procs
  <2> QED BY <2>1, <2>2, <2>3 DEF Procs
<1>15. "b" \in working /\ "a" \notin working => SomeActive(nvs') \/ (build.direct /\ FallingBackToB')
  <2> SUFFICES ASSUME "b" \in working, "a" \notin working, build.direct, ~FallingBackToB'
               PROVE  SomeActive(kv')
    BY <1>1, <1>6 DEF StaysActive, SomeActive
  <2>1. \A j \in 1 .. 7 : j <= n + 1 => (KeyOrder[j] \in kv' <=> KeyOrder[j] \in d)
    BY <1>1, <1>3 DEF Wrote
  <2>2. Active("a") \in kv' <=> Active("a") \in d
    BY <1>1, <2>1, KeyOrderFacts
  <2>3. CASE p = "loader"
    <3>1. /\ Active(call["loader"].slot) \in d
          /\ call["loader"].slot \in Slots
      BY <1>3, <2>3, LoaderActive
    <3>2. CASE call["loader"].slot = "a"
      BY <2>2, <3>1, <3>2 DEF SomeActive, Slots
    <3>3. CASE call["loader"].slot = "b"
      <4>1. 4 <= n + 1
        <5>1. call'["loader"].pc = "write" => ~ (call'["loader"].n \in 1 .. 3)
          BY <1>1, <2>3, <3>3 DEF FallingBackToB
        <5> HIDE DEF n, d
        <5> QED BY <1>1, <2>3, <5>1
      <4>2. Active("b") \in kv'
        BY <2>1, <2>3, <3>1, <3>3, <4>1, KeyOrderFacts
      <4> QED BY <4>2 DEF SomeActive, Slots
    <3> QED BY <3>1, <3>2, <3>3 DEF Slots
  <2>4. CASE p # "loader" /\ ota = "idle"
    <3>1. Serves(kv, running)'
      BY <1>1, <1>9, <2>4 DEF Works, RunningServed
    <3>2. Active(running) \in kv' /\ running \in Slots
      BY <1>1, <3>1 DEF Serves, Base, TypeOK
    <3> QED BY <3>2 DEF SomeActive
  <2>5. CASE p = "ota" /\ call[p].op = "done" /\ ota = "flashed"
    <3>1. running = "b" /\ target = "a"
      BY <1>6, <1>9, <2>5 DEF ProvenWorks, Other, Base, TypeOK, Slots
    <3>2. Active("a") \in d
      BY <1>3, <2>5, <3>1 DEF DoneFollows, Writing
    <3> QED BY <2>2, <3>2 DEF SomeActive, Slots
  <2> QED BY <1>9, <2>3, <2>4, <2>5 DEF Procs
<1>16. StaysActive'
  <2>1. mode = "off" => call'["loader"].pc \notin {"idle", "read"}
    BY <1>3, <1>9
  <2>2. call'["ota"].op = "done" /\ Writing("ota")' => SomeActive(call'["ota"].boot)
    BY <1>1, <1>2, <1>3, <1>6 DEF StaysActive, Procs
  <2> QED BY <1>1, <1>15, <2>1, <2>2 DEF StaysActive, SomeActive
<1> QED BY <1>7, <1>12, <1>13, <1>14, <1>16 DEF Returns

(* Returns, when the store is committed.                                   *)
LEMMA ReturnsCommit ==
  ASSUME Base, Works, Returns, NEW p \in Procs, Commit(p), UNCHANGED build
  PROVE  Returns'
<1>1. /\ Rest(p) /\ ~Idle(p) /\ kv = call[p].boot /\ nvs' = kv
      /\ UNCHANGED <<kv, mode, ota, target, working>>
      /\ call[p].pc = "commit" /\ call'[p].pc = "return"
      /\ call'[p].op = call[p].op /\ call[p].ok /\ call'[p].ok
      /\ call[p].op # "boot" => running' = running
      /\ proven' = IF call[p].op = "success" THEN proven \cup {running} ELSE proven
  BY CommitStep
<1>2. \A q \in Procs : q # p => call'[q] = call[q] /\ call[q].pc = "idle"
  BY <1>1, Alone DEF Rest, Idle
<1>3. \A q \in Procs : ~Writing(q)'
  BY <1>1, <1>2 DEF Writing
<1>4. Writing(p) /\ ~FallingBackToB
  BY <1>1, <1>2 DEF Writing, FallingBackToB, Procs
<1>5. FirstIsA /\ ProvenWorks /\ Remembered /\ ReportMarks /\ ReportsOnce /\ StaysActive
  BY DEF Returns
<1>6. FirstIsA' /\ ReportsOnce'
  BY <1>1, <1>3, <1>5 DEF FirstIsA, ReportsOnce, NoTrace
<1>7. CASE p = "loader"
  <2>1. mode = "off" /\ ota = "idle" /\ call[p].op = "boot"
    BY <1>1, <1>7, Busy
  <2>2. \A c : Remembers(c)' = Remembers(c)
    BY <1>1, <2>1 DEF Remembers
  <2>3. ProvenWorks' /\ Remembered'
    BY <1>1, <1>3, <1>5, <2>1, <2>2 DEF ProvenWorks, Remembered
  <2>4. ReportMarks'
    BY <1>1, <1>2, <1>3, <1>7, <2>1 DEF ReportMarks, Procs
  <2>5. SomeActive(kv)
    BY <1>1, <1>4, <1>7, LoaderActive DEF SomeActive
  <2>6. StaysActive'
    BY <1>1, <1>3, <1>7, <2>5 DEF StaysActive, SomeActive, Procs
  <2> QED BY <1>6, <2>3, <2>4, <2>6 DEF Returns
<1>8. CASE p # "loader"
  <2>1. /\ mode = "ap" /\ running \in working
        /\ p = "init" => ota = "idle" /\ call[p].op = "success"
        /\ p = "ota" => /\ reported /\ Idle("init")
                        /\ \/ call[p].op = "update" /\ ota = "idle"
                           \/ call[p].op = "done" /\ ota = "flashed"
    BY <1>1, <1>8, CommandWorks
  <2>2. p = "init" => Successful(running) \in kv
    BY <1>1, <1>4, <1>5 DEF ReportMarks
  <2>3. Remembers(kv)'
    <3>1. CASE p = "init" /\ running = "b"
      BY <1>1, <2>2, <3>1 DEF Remembers
    <3>2. CASE ~(p = "init" /\ running = "b")
      <4>1. "b" \in proven' <=> "b" \in proven
        BY <1>1, <1>8, <2>1, <3>2 DEF Procs
      <4> QED BY <1>1, <1>5, <4>1 DEF Remembers, Remembered
    <3> QED BY <3>1, <3>2
  <2>4. Remembered'
    BY <1>1, <1>3, <2>3 DEF Remembered, Remembers
  <2>5. ProvenWorks'
    BY <1>1, <1>5, <1>8, <2>1 DEF ProvenWorks, Procs
  <2>6. ReportMarks'
    <3>1. CASE p = "init"
      BY <1>1, <1>3, <2>1, <2>2, <3>1 DEF ReportMarks, Procs
    <3>2. CASE p = "ota"
      <4>1. reported' <=> reported
        <5>1. reported' = (call[p].op # "boot" /\ (call[p].op = "success" \/ reported))
          BY CommitStep
        <5> QED BY <2>1, <3>2, <5>1, Zenon
      <4> QED BY <1>1, <1>2, <1>3, <1>5, <2>1, <3>2, <4>1 DEF ReportMarks, Procs
    <3> QED BY <1>8, <3>1, <3>2 DEF Procs
  <2>7. SomeActive(kv)
    <3>1. CASE ota = "idle"
      <4>1. Serves(kv, running)
        BY <2>1, <3>1 DEF Works, RunningServed
      <4> QED BY <4>1 DEF Serves, SomeActive, Base, TypeOK
    <3>2. CASE call[p].op = "done" /\ p = "ota"
      BY <1>1, <1>4, <1>5, <3>2 DEF StaysActive
    <3> QED BY <1>8, <2>1, <3>1, <3>2 DEF Procs
  <2>8. StaysActive'
    BY <1>1, <1>3, <2>1, <2>7 DEF StaysActive, SomeActive, Procs
  <2> QED BY <1>6, <2>4, <2>5, <2>6, <2>8 DEF Returns
<1> QED BY <1>7, <1>8

(* Returns, when a write or a commit fails.                                *)
LEMMA ReturnsFail ==
  ASSUME Base, Works, Returns, NEW p \in Procs, WriteFails(p), "flags" \notin slips',
         UNCHANGED build
  PROVE  Returns'
<1>1. /\ Rest(p) /\ ~Idle(p)
      /\ UNCHANGED <<kv, nvs, mode, running, reported, ota, target, working, proven>>
      /\ call[p].pc \in {"write", "commit"} /\ call'[p].pc = "return" /\ ~call'[p].ok
      /\ p = "loader" => kv \ {Try} = call[p].boot \ {Try}
  BY FailStep
<1>2. \A q \in Procs : q # p => call'[q] = call[q] /\ call[q].pc = "idle"
  BY <1>1, Alone DEF Rest, Idle
<1>3. \A q \in Procs : ~Writing(q)'
  BY <1>1, <1>2 DEF Writing
<1>4. \A c : Remembers(c)' = Remembers(c)
  BY <1>1 DEF Remembers
<1>5. FirstIsA /\ ProvenWorks /\ Remembered /\ ReportMarks /\ ReportsOnce /\ StaysActive
  BY DEF Returns
<1>6. FirstIsA' /\ ProvenWorks' /\ Remembered'
  BY <1>1, <1>3, <1>4, <1>5 DEF FirstIsA, ProvenWorks, Remembered, NoTrace
<1>7. ReportMarks'
  BY <1>1, <1>2, <1>3, <1>5 DEF ReportMarks, Procs
<1>8. ReportsOnce'
  <2>1. p # "loader" => mode = "ap"
    BY <1>1, CommandWorks
  <2> QED BY <1>1, <1>2, <1>5, <2>1 DEF ReportsOnce, Procs
<1>9. StaysActive'
  <2>1. "b" \in working /\ "a" \notin working => SomeActive(nvs)
    <3>1. CASE p = "loader" /\ build.direct
      <4>1. Active(call[p].slot) \in call[p].boot /\ call[p].slot \in Slots
        BY <1>1, <3>1, LoaderActive DEF Writing
      <4>2. SomeActive(kv)
        BY <1>1, <3>1, <4>1 DEF SomeActive, Active, Try
      <4> QED BY <3>1, <4>2 DEF Base, DirectIsDurable
    <3>2. CASE ~build.direct
      BY <1>5, <3>2 DEF StaysActive
    <3>3. CASE p # "loader"
      BY <1>2, <1>5, <3>3 DEF StaysActive, FallingBackToB, Procs
    <3> QED BY <3>1, <3>2, <3>3
  <2>2. mode = "off" => call'["loader"].pc \notin {"idle", "read"}
    BY <1>1, CommandWorks DEF Procs
  <2> QED BY <1>1, <1>3, <2>1, <2>2 DEF StaysActive, SomeActive, Procs
<1> QED BY <1>6, <1>7, <1>8, <1>9 DEF Returns

(* Returns, when a command starts.                                         *)
LEMMA ReturnsStart ==
  ASSUME Base, Serial, Works, Returns, NEW p \in Procs, UNCHANGED build,
         \/ p = "loader" /\ LoaderStart
         \/ p = "init" /\ InitStart
         \/ p = "ota" /\ (UpdateStart \/ DoneStart)
  PROVE  Returns'
<1>1. /\ Rest(p) /\ Idle(p) /\ call'[p].pc = "read"
      /\ UNCHANGED <<kv, nvs, mode, running, reported, ota, target, proven>>
      /\ p = "init" => /\ ~reported /\ mode = "ap" /\ ota = "idle"
                       /\ working' = working \cup {running}
      /\ p # "init" => working' = working
      /\ p # "loader" => mode = "ap"
      /\ working \subseteq Slots
  BY StartStep DEF Procs, Base, TypeOK
<1>2. \A q \in Procs : Writing(q)' => Writing(q) /\ call'[q] = call[q]
  BY <1>1 DEF Rest, Writing
<1>3. working \subseteq working'
  BY <1>1
<1>4. FirstIsA /\ ProvenWorks /\ Remembered /\ ReportMarks /\ ReportsOnce /\ StaysActive
  BY DEF Returns
<1>5. "b" \in working' /\ "a" \notin working' => "b" \in working /\ "a" \notin working
  <2> SUFFICES ASSUME "b" \in working', "b" \notin working, "a" \notin working
               PROVE  FALSE
    BY <1>3
  <2>1. p = "init" /\ running = "b" /\ working = {}
    BY <1>1 DEF Slots
  <2>2. Serves(kv, "b")
    BY <1>1, <2>1 DEF Works, RunningServed
  <2> QED BY <1>4, <2>1, <2>2 DEF FirstIsA, NoTrace, Serves, SlotKeys
<1>6. \A c : Remembers(c) => Remembers(c)'
  BY <1>1, <1>3, <1>5 DEF Remembers, NoTrace
<1>7. FirstIsA' /\ ProvenWorks' /\ Remembered'
  BY <1>1, <1>2, <1>3, <1>4, <1>6 DEF FirstIsA, ProvenWorks, Remembered, NoTrace
<1>8. call'["init"] = call["init"] \/ (Idle("init") /\ call'["init"].pc = "read")
  BY <1>1 DEF Rest, Procs
<1>9. ReportMarks' /\ ReportsOnce'
  BY <1>1, <1>4, <1>8 DEF ReportMarks, ReportsOnce, Writing, Idle, Rest, Procs
<1>10. FallingBackToB' <=> FallingBackToB
  BY <1>1 DEF FallingBackToB, Idle, Rest, Procs
<1>11. StaysActive'
  <2>1. call'["loader"].pc \in {"idle", "read"} => call["loader"].pc \in {"idle", "read"}
    BY <1>1 DEF Rest, Procs, Idle
  <2> QED BY <1>1, <1>2, <1>4, <1>5, <1>10, <2>1 DEF StaysActive, SomeActive, Procs
<1> QED BY <1>7, <1>9, <1>11 DEF Returns

(* Returns, when a command ends.                                           *)
LEMMA ReturnsEnd ==
  ASSUME Base, Works, Returns, NEW p \in Procs, UNCHANGED build,
         \/ p = "loader" /\ LoaderJump
         \/ p = "init" /\ InitEnd
         \/ p = "ota" /\ (UpdateEnd \/ DoneEnd)
  PROVE  Returns'
<1>1. /\ Rest(p) /\ ~Idle(p) /\ call[p].pc = "return"
      /\ call'[p].pc = "idle" /\ call'[p].op = "none"
      /\ UNCHANGED <<kv, nvs, target, working>>
  BY EndStep
<1>2. \A q \in Procs : ~Writing(q)' /\ call'[q].pc = "idle" /\ (q # p => call[q].pc = "idle")
  BY <1>1, Alone DEF Rest, Writing, Idle
<1>3. ~FallingBackToB
  BY <1>1, <1>2 DEF FallingBackToB, Procs
<1>4. FirstIsA /\ ProvenWorks /\ Remembered /\ ReportMarks /\ ReportsOnce /\ StaysActive
  BY DEF Returns
<1>5. FirstIsA'
  BY <1>1, <1>2, <1>4 DEF FirstIsA, NoTrace
<1>6. p # "loader" => mode = "ap"
  BY <1>1, CommandWorks
<1>7. StaysActive'
  <2>1. mode' = "off" => mode = "off" /\ p # "loader"
    BY EndStep DEF Procs
  <2> QED BY <1>1, <1>2, <1>3, <1>4, <1>6, <2>1 DEF StaysActive, SomeActive, Procs
<1>8. CASE p = "loader"
  <2>1. /\ mode = "off" /\ mode' = "ap" /\ ota' = "idle" /\ ~reported'
        /\ UNCHANGED proven
    BY <1>1, <1>8, EndStep, Busy
  <2>2. \A c : Remembers(c)' = Remembers(c)
    BY <1>1, <2>1 DEF Remembers
  <2>3. ProvenWorks' /\ Remembered'
    BY <1>1, <1>2, <1>4, <2>1, <2>2 DEF ProvenWorks, Remembered
  <2>4. ReportMarks' /\ ReportsOnce'
    BY <1>1, <1>2, <1>4, <2>1 DEF ReportMarks, ReportsOnce, Procs
  <2> QED BY <1>5, <1>7, <2>3, <2>4 DEF Returns
<1>9. CASE p = "init"
  <2>1. /\ mode = "ap" /\ ota = "idle" /\ running \in working
        /\ UNCHANGED <<mode, running, ota>>
        /\ proven' = IF call[p].ok THEN proven \cup {running} ELSE proven
    BY <1>1, <1>9, EndStep, CommandWorks
  <2>2. reported' <=> (call[p].ok \/ build.bare)
    <3>1. reported' = (call[p].ok \/ build.bare)
      BY <1>9, EndStep
    <3> QED BY <3>1, Zenon
  <2>3. call[p].ok => Successful(running) \in kv
    BY <1>1, <1>4, <1>9 DEF ReportMarks
  <2>4. call[p].ok /\ build.bare /\ Successful("b") \in kv => Successful("b") \in nvs
    BY <1>1, <1>4, <1>9 DEF ReportsOnce
  <2>5. \A c \in {kv, nvs} : Remembers(c)'
    <3>1. CASE call[p].ok /\ running = "b"
      BY <1>1, <1>4, <2>3, <2>4, <3>1 DEF Remembers, Remembered
    <3>2. CASE ~ (call[p].ok /\ running = "b")
      <4>1. "b" \in proven' <=> "b" \in proven
        BY <2>1, <3>2
      <4> QED BY <1>1, <1>4, <4>1 DEF Remembers, Remembered
    <3> QED BY <3>1, <3>2
  <2>6. Remembered'
    BY <1>1, <1>2, <2>5 DEF Remembered, Remembers
  <2>7. ProvenWorks'
    BY <1>1, <1>4, <2>1 DEF ProvenWorks
  <2>8. ReportMarks' /\ ReportsOnce'
    BY <1>1, <1>2, <1>9, <2>1, <2>2, <2>3 DEF ReportMarks, ReportsOnce, Procs
  <2> QED BY <1>5, <1>7, <2>6, <2>7, <2>8 DEF Returns
<1>10. CASE p = "ota"
  <2>1. mode = "ap" /\ reported /\ (reported' <=> reported) /\ UNCHANGED <<mode, running, proven>>
    BY <1>1, <1>10, EndStep, Busy
  <2>2. \/ ota = "idle" /\ ota' \in {"idle", "updated"}
        \/ ota = "flashed" /\ ota' \in {"flashed", "done"}
    BY <1>10, EndStep
  <2>3. \A c : Remembers(c)' = Remembers(c)
    BY <1>1, <2>1 DEF Remembers
  <2>4. Remembered' /\ ProvenWorks'
    BY <1>1, <1>2, <1>4, <2>1, <2>2, <2>3 DEF Remembered, ProvenWorks
  <2>5. ReportMarks' /\ ReportsOnce'
    BY <1>1, <1>2, <1>4, <2>1, <2>2 DEF ReportMarks, ReportsOnce, Procs
  <2> QED BY <1>5, <1>7, <2>4, <2>5 DEF Returns
<1> QED BY <1>8, <1>9, <1>10 DEF Procs

(* What is overwritten is never the slot the device depends on: the other  *)
(* one is then marked, if it is slot b, and active.                        *)
LEMMA ReturnsFlash ==
  ASSUME Base, Serial, Works, Returns, UNCHANGED build, FlashBegin \/ FlashEnd \/ FlashFail
  PROVE  Returns'
<1>1. /\ UNCHANGED <<kv, nvs, call, mode, running, reported>>
      /\ mode = "ap" /\ running \in Slots
  BY FlashStep DEF Base, TypeOK
<1>2. call["loader"].pc = "idle" /\ ~FallingBackToB
  BY <1>1 DEF Base, Turns, Idle, FallingBackToB
<1>3. FirstIsA /\ ProvenWorks /\ Remembered /\ ReportMarks /\ ReportsOnce /\ StaysActive
  BY DEF Returns
<1>4. CASE FlashBegin
  <2> DEFINE t == Target(kv)
  <2>1. /\ ota = "updated" /\ ota' = "flashing" /\ target' = t /\ reported
        /\ working' = working \ {t} /\ proven' = proven \ {t}
        /\ Idle("ota") /\ Idle("init")
    BY <1>4, FlashStep DEF Base, Turns
  <2>2. \A q \in Procs : ~Writing(q)' /\ call[q].pc = "idle"
    BY <1>1, <1>2, <2>1 DEF Writing, Idle, Procs
  <2>3. Serves(kv, running) /\ running \in working
    BY <1>1, <2>1 DEF Works, RunningServed, RunningWorks
  <2>4. t = Other(running) /\ t # running /\ t \in Slots
    BY <1>1, <2>3 DEF Serves, Target, Other, Slots
  <2> HIDE DEF t
  <2>5. kv = nvs /\ SomeActive(nvs)
    BY <1>1, <2>1, <2>3 DEF Works, OtherCleared, Updated, Serves, SomeActive
  <2>6. FirstIsA' /\ ProvenWorks'
    <3>1. working' # {}
      BY <2>1, <2>3, <2>4
    <3> QED BY <1>1, <1>3, <2>1, <2>4, <3>1 DEF FirstIsA, ProvenWorks
  <2>7. Remembers(kv)'
    <3>1. CASE t = "b"
      BY <1>1, <2>1, <3>1 DEF Remembers
    <3>2. CASE running = "b" /\ build.bare
      <4>1. ~NoTrace(kv)
        BY <2>3, <3>2 DEF Serves, NoTrace, SlotKeys
      <4> QED BY <1>1, <1>3, <2>1, <3>2, <4>1 DEF Remembers, Remembered
    <3>3. CASE running = "b" /\ ~build.bare
      <4>1. Successful("b") \in kv
        BY <1>1, <1>3, <2>1, <3>3 DEF ReportMarks
      <4> QED BY <1>1, <3>3, <4>1 DEF Remembers
    <3> QED BY <1>1, <2>4, <3>1, <3>2, <3>3 DEF Other, Slots
  <2>8. Remembered'
    BY <1>1, <2>2, <2>5, <2>7 DEF Remembered, Remembers
  <2>9. ReportMarks' /\ ReportsOnce'
    BY <1>1, <1>3, <2>1, <2>2 DEF ReportMarks, ReportsOnce, Procs
  <2>10. StaysActive'
    BY <1>1, <2>2, <2>5 DEF StaysActive, SomeActive, Procs
  <2> QED BY <2>6, <2>8, <2>9, <2>10 DEF Returns
<1>5. CASE FlashEnd \/ FlashFail
  <2>1. /\ ota = "flashing" /\ ota' \in {"flashed", "idle"}
        /\ UNCHANGED <<target, working, proven>>
    <3>1. CASE FlashEnd
      BY <3>1, FlashStep
    <3>2. CASE FlashFail
      BY <3>2, FlashStep
    <3> QED BY <1>5, <3>1, <3>2
  <2>2. \A c : Remembers(c)' = Remembers(c)
    BY <2>1 DEF Remembers
  <2>3. FirstIsA' /\ ProvenWorks' /\ Remembered'
    BY <1>1, <1>3, <2>1, <2>2 DEF FirstIsA, ProvenWorks, Remembered, NoTrace, Writing
  <2>4. ReportMarks' /\ ReportsOnce' /\ StaysActive'
    BY <1>1, <1>2, <1>3, <2>1 DEF ReportMarks, ReportsOnce, StaysActive, SomeActive, Writing
  <2> QED BY <2>3, <2>4 DEF Returns
<1> QED BY <1>4, <1>5

(* Returns, when the device starts again.                                  *)
LEMMA ReturnsRestart ==
  ASSUME Base, Returns, UNCHANGED build, Reboot \/ PowerCut \/ Watchdog,
         build.direct => "fallback" \notin slips'
  PROVE  Returns'
<1>1. /\ \A p \in Procs : call'[p].op = "none" /\ call'[p].pc = "idle" /\ call'[p].ok
      /\ kv' = nvs /\ mode' = "off" /\ ota' = "idle"
      /\ UNCHANGED <<nvs, working, proven>>
      /\ mode = "ap" \/ (build.direct => ~FallingBackToB)
  BY RestartStep
<1>2. \A p \in Procs : ~Writing(p)' /\ call'[p].pc = "idle"
  BY <1>1 DEF Writing
<1>3. build.direct => ~FallingBackToB
  BY <1>1 DEF Base, Turns, Idle, FallingBackToB
<1>4. \A c : Remembers(c)' = Remembers(c)
  BY <1>1 DEF Remembers
<1>5. FirstIsA' /\ ProvenWorks' /\ Remembered'
  BY <1>1, <1>2, <1>4 DEF Returns, FirstIsA, ProvenWorks, Remembered, NoTrace
<1>6. ReportMarks' /\ ReportsOnce'
  BY <1>1, <1>2 DEF ReportMarks, ReportsOnce, Procs
<1>7. StaysActive'
  BY <1>1, <1>2, <1>3 DEF Returns, StaysActive, SomeActive, Procs
<1> QED BY <1>5, <1>6, <1>7 DEF Returns

(* LateSlips, across every step.                                           *)
LEMMA LateSlipsStep ==
  ASSUME Base, Serial, StaysConsistent, LateSlips, [Next]_vars
  PROVE  LateSlips'
<1>1. UNCHANGED build /\ slips \subseteq slips'
  BY SlipsStay DEF Next, LoaderNext, InitNext, OtaNext, Reset, vars
<1>2. SUFFICES ASSUME ~build.direct, NoSlip({"flags"})
               PROVE  NoSlip({"fallback", "done"})'
  BY <1>1 DEF LateSlips, NoSlip
<1>3. NoSlip({"fallback", "done"}) /\ OneActive(nvs)
  BY <1>2 DEF LateSlips, StaysConsistent, Consistent
<1>4. ASSUME slips' \subseteq slips \cup {"flags", "redo", "report"}
      PROVE  NoSlip({"fallback", "done"})'
  BY <1>3, <1>4 DEF NoSlip
<1>5. ASSUME NEW p \in Procs, Step(p)
      PROVE  UNCHANGED slips
  BY <1>5, ReadStep, WriteStep, CommitStep DEF Step
<1>6. ASSUME NEW p \in Procs, WriteFails(p)
      PROVE  slips' \subseteq slips \cup {"flags", "redo", "report"}
  BY <1>6, FailEffect DEF Base
<1>7. CASE LoaderStart \/ InitStart \/ UpdateStart \/ DoneStart
  BY <1>4, <1>7, StartStep DEF Procs
<1>8. CASE LoaderJump \/ InitEnd \/ UpdateEnd \/ DoneEnd
  BY <1>4, <1>8, EndStep DEF Procs
<1>9. CASE FlashBegin \/ FlashEnd \/ FlashFail
  BY <1>4, <1>9, FlashStep
<1>10. CASE Reboot \/ Watchdog
  BY <1>4, <1>10 DEF Reboot, Watchdog
<1>11. CASE PowerCut
  BY <1>2, <1>3, <1>11 DEF PowerCut, NoSlip
<1>12. CASE UNCHANGED vars
  BY <1>4, <1>12 DEF vars, history
<1> QED BY <1>4, <1>5, <1>6, <1>7, <1>8, <1>9, <1>10, <1>11, <1>12
        DEF Next, LoaderNext, InitNext, OtaNext, Reset, Procs

(* StaysRecoverable, across every step.                                    *)
LEMMA StaysRecoverableStep ==
  ASSUME Base, Serial, StaysConsistent, MarkedWorks, DoneFollows, LateSlips,
         StaysRecoverable, [Next]_vars
  PROVE  StaysRecoverable'
<1> SUFFICES ASSUME Unslipped'
             PROVE  Returns'
  BY DEF StaysRecoverable
<1>1. UNCHANGED build
  BY DEF Next, LoaderNext, InitNext, OtaNext, Reset, vars
<1>2. /\ Unslipped /\ "flags" \notin slips' /\ NoSlip({"flags"})'
      /\ build.direct => NoSlip({"flags", "redo", "fallback", "done"})'
      /\ build.direct => "redo" \notin slips /\ "fallback" \notin slips'
  BY <1>1, SlipsStay DEF Unslipped, NoSlip, Slips
<1>3. Works /\ Works'
  <2>1. LateSlips' /\ MarkedWorks'
    BY LateSlipsStep, MarkedWorksStep
  <2>2. NoSlip({"flags", "fallback", "done"})'
    BY <1>1, <1>2, <2>1 DEF LateSlips, NoSlip
  <2>3. NoSlip({"flags", "fallback", "done"})
    BY <2>2, SlipsStay DEF NoSlip
  <2> QED BY <2>1, <2>2, <2>3 DEF MarkedWorks
<1>4. Returns
  BY <1>2 DEF StaysRecoverable
<1>5. CASE UNCHANGED vars
  <2>1. \A c : Remembers(c)' = Remembers(c)
    BY <1>5 DEF vars, history, Remembers
  <2>2. UNCHANGED <<kv, nvs, call, build, mode, running, reported, ota, target,
                    working, proven>>
    BY <1>5 DEF vars, device, task, history
  <2> QED BY <1>4, <2>1, <2>2 DEF Returns, FirstIsA, NoTrace, ProvenWorks, Remembered,
          ReportMarks, ReportsOnce, StaysActive, SomeActive, FallingBackToB, Writing
<1>6. ASSUME NEW p \in Procs, Step(p) \/ WriteFails(p)
      PROVE  Returns'
  BY <1>1, <1>2, <1>3, <1>4, <1>6, ReturnsRead, ReturnsWrite, ReturnsCommit, ReturnsFail
     DEF Step
<1> QED BY <1>1, <1>2, <1>3, <1>4, <1>5, <1>6, ReturnsStart, ReturnsEnd, ReturnsFlash,
        ReturnsRestart DEF Next, LoaderNext, InitNext, OtaNext, Reset, Procs

(* Once an image has reported, the power may fail at any moment, within a  *)
(* command and after any failed set: two boots reach a working slot.  With *)
(* a direct store that leaves out the loader's fallback to slot b and what *)
(* follows the mishaps named.                                              *)
THEOREM RecoversWithinTwoBoots == ASSUME Serial PROVE Spec => []RecoversInTwoBoots
<1> DEFINE IInv == /\ Base /\ StaysConsistent /\ MarkedWorks
                   /\ DoneFollows /\ LateSlips /\ StaysRecoverable
<1>1. Init => IInv
  <2>1. Init => StaysConsistent
    BY DEF Init, NoCall, StaysConsistent, Consistent, OneActive, Nested, Slots,
       LoaderConsistent, InitConsistent, UpdateConsistent, DoneConsistent,
       Updated, Writing, Procs
  <2>2. Init => MarkedWorks
    BY DEF Init, NoCall, MarkedWorks, Works, MarksTrusted, StoreSound, LoaderServes,
       RunningServed, RunningWorks, OtherCleared, DoneSwitches, Trusted, Sound,
       SomeActive, OneActive, Slots, Updated, Finished, Idle, Writing, Procs
  <2>3. Init => DoneFollows
    BY DEF Init, NoCall, DoneFollows, Switching, Procs
  <2>4. Init => LateSlips
    BY DEF Init, LateSlips, NoSlip
  <2>5. Init => StaysRecoverable
    BY DEF Init, NoCall, StaysRecoverable, Returns, FirstIsA, NoTrace, ProvenWorks,
       Remembered, Remembers, ReportMarks, ReportsOnce, StaysActive, Writing, Procs
  <2> QED BY <2>1, <2>2, <2>3, <2>4, <2>5, BaseInit
<1>2. IInv /\ [Next]_vars => IInv'
  BY BaseStep, StaysConsistentStep, MarkedWorksStep, DoneFollowsStep, LateSlipsStep,
     StaysRecoverableStep
<1>3. IInv => RecoversInTwoBoots
  <2> SUFFICES ASSUME IInv, proven # {}, Unslipped
               PROVE  Recovers(nvs) \/ (build.direct /\ FallingBackToB)
    BY DEF RecoversInTwoBoots, Unslipped
  <2>1. NoSlip({"flags", "fallback", "done"})
    BY DEF Unslipped, LateSlips, NoSlip, Slips
  <2>2. Trusted(nvs) /\ Returns /\ nvs \in SUBSET Keys /\ proven \subseteq Slots
    BY <2>1 DEF MarkedWorks, Works, MarksTrusted, StaysRecoverable, Base, TypeOK
  <2>3. CASE "a" \in working
    BY <2>2, <2>3, RecoversByA
  <2>4. CASE "a" \notin working
    <3>1. "b" \in proven /\ "b" \in working
      BY <2>2, <2>4 DEF Returns, ProvenWorks, Slots
    <3>2. Successful("b") \in nvs
      BY <2>2, <2>4, <3>1 DEF Returns, Remembered, Remembers
    <3>3. SomeActive(nvs) \/ (build.direct /\ FallingBackToB)
      BY <2>2, <2>4, <3>1 DEF Returns, StaysActive
    <3> QED BY <2>2, <2>4, <3>2, <3>3, RecoversByB
  <2> QED BY <2>3, <2>4
<1> QED BY <1>1, <1>2, <1>3, PTL DEF Spec

-----------------------------------------------------------------------------
(* The device implements AbBoot. *)

(* A command computes from what was durable when it began, and the live    *)
(* view is the durable copy whenever no command is writing.                *)
CommandsAreWhole ==
  /\ (\A p \in Procs : ~Writing(p)) => kv = nvs
  /\ \A p \in Procs : call[p].ok
  /\ \A p \in Procs : Writing(p) => call[p].boot = Compute(call[p].op, nvs)
  /\ Writing("loader") => call["loader"].slot = Boot(nvs).slot

(* A command has had its whole effect when it returns, and what it rests   *)
(* on does not change while it runs.                                       *)
EffectsAreWhole ==
  /\ call["loader"].pc = "return" =>
       running = call["loader"].slot /\ ~reported /\ armed = {}
  /\ call["init"].pc = "return" =>
       \/ reported /\ running \in proven
       \/ ~reported /\ ~SuccessWrites(nvs)
  /\ ~Idle("init") => image[running] = "good"
  /\ ota = "flashing" \/ (ota = "flashed" /\ ~Finished("done"))
       => target = Target(nvs)

Intact == CommandsAreWhole /\ EffectsAreWhole

(* What AbBoot sees of the device besides the variables they share. *)
AtomicMode == IF Chosen THEN "ap" ELSE mode

AtomicOta == IF Finished("update") THEN "updated"
             ELSE IF Finished("done") THEN "done" ELSE ota

(* A step that changes nothing AbBoot sees is a stutter of it.             *)
LEMMA Unseen ==
  ASSUME UNCHANGED <<nvs, running, image, reported, proven, armed, cuts>>,
         AtomicMode' = AtomicMode, AtomicOta' = AtomicOta
  PROVE  UNCHANGED Atomic!vars
  BY DEF Atomic!vars, AtomicMode, AtomicOta

(* AbBoot's operators are those of this device. *)
LEMMA SameOperators ==
  ASSUME NEW c
  PROVE  /\ Atomic!Boot(c) = Boot(c)
         /\ Atomic!SuccessCfg(c) = SuccessCfg(c)
         /\ Atomic!UpdateCfg(c) = UpdateCfg(c)
         /\ Atomic!DoneCfg(c) = DoneCfg(c)
         /\ Atomic!Target(c) = Target(c)
<1>1. Atomic!Target(c) = Target(c) /\ Atomic!ActiveSlot(c) = ActiveSlot(c)
  BY DEF Atomic!Target, Atomic!ActiveSlot, Atomic!Other, Atomic!Active,
     Target, ActiveSlot, Other, Active
<1>2. Atomic!UpdateCfg(c) = UpdateCfg(c)
  BY <1>1 DEF Atomic!UpdateCfg, Atomic!SlotKeys, Atomic!Active, Atomic!Bootable,
     Atomic!Successful, UpdateCfg, SlotKeys, Active, Bootable, Successful
<1>3. Atomic!DoneCfg(c) = DoneCfg(c)
  BY <1>1 DEF Atomic!DoneCfg, Atomic!Active, Atomic!Bootable, DoneCfg, Active, Bootable
<1>4. Atomic!SuccessCfg(c) = SuccessCfg(c)
  BY <1>1 DEF Atomic!SuccessCfg, Atomic!SuccessWrites, Atomic!Successful, Atomic!Try,
     SuccessCfg, SuccessWrites, Successful, Try
<1>5. Atomic!Boot(c) = Boot(c)
  BY DEF Atomic!Boot, Atomic!TrySlot, Atomic!SuccessSlot, Atomic!Pending, Atomic!FreshCfg,
     Atomic!Slots, Atomic!Active, Atomic!Bootable, Atomic!Successful, Atomic!Try,
     Boot, TrySlot, SuccessSlot, Pending, FreshCfg, Slots, Active, Bootable, Successful, Try
<1> QED BY <1>1, <1>2, <1>3, <1>4, <1>5

(* While another process is busy AbBoot sees the OTA task as it is. *)
LEMMA AtomicFacts ==
  ASSUME Base
  PROVE  /\ call["ota"].pc # "return" => AtomicOta = ota
         /\ call["loader"].pc # "return" => AtomicMode = mode
         /\ call["loader"].pc = "return" => AtomicMode = "ap"
         /\ call["ota"].pc = "return" =>
              \/ call["ota"].op = "update" /\ AtomicOta = "updated"
              \/ call["ota"].op = "done" /\ AtomicOta = "done"
<1>1. /\ call["ota"].pc # "return" => AtomicOta = ota
      /\ call["loader"].pc # "return" => AtomicMode = mode
      /\ call["loader"].pc = "return" => AtomicMode = "ap"
  BY DEF AtomicOta, AtomicMode, Finished, Chosen
<1>2. call["ota"].pc = "return" => call["ota"].op \in {"update", "done"}
  BY DEF Base, Roles, Idle, Procs
<1> QED BY <1>1, <1>2 DEF AtomicOta, Finished

(* A key that is read is not seen.                                         *)
LEMMA IntactRead ==
  ASSUME Base, Intact, NEW p \in Procs, ReadKey(p), UNCHANGED build, Base'
  PROVE  Intact' /\ UNCHANGED Atomic!vars
<1>1. /\ Rest(p) /\ ~Idle(p) /\ call'[p].op = call[p].op
      /\ UNCHANGED <<kv, nvs, mode, running, image, reported, ota, target,
                     proven, armed, cuts>>
      /\ call[p].pc = "read" /\ call'[p].ok
      /\ \/ call'[p].pc = "read"
         \/ /\ call'[p].boot = Compute(call[p].op, kv)
            /\ call'[p].slot = IF call[p].op = "boot" THEN Boot(kv).slot
                               ELSE call[p].slot
            /\ call'[p].pc = IF Writes(call[p].op, kv) THEN "write" ELSE "return"
  BY ReadStep
<1>2. \A q \in Procs : q # p => call'[q] = call[q] /\ call[q].pc = "idle" /\ ~Writing(q)'
  BY <1>1, Alone DEF Rest, Writing, Idle
<1>3. kv = nvs
  BY <1>1, <1>2 DEF Intact, CommandsAreWhole, Writing, Rest
<1>4. p # "init" => call[p].op # "success"
  BY <1>1, Busy DEF Procs
<1>5. call'[p].pc = "return" => p = "init" /\ ~SuccessWrites(nvs)
  BY <1>1, <1>3, <1>4 DEF Writes
<1>6. CommandsAreWhole'
  <2>1. \A q \in Procs : q # p => call'[q].ok
    BY <1>2 DEF Intact, CommandsAreWhole
  <2>2. p = "loader" => call[p].op = "boot"
    BY <1>1, Busy
  <2>3. \A q \in Procs : call'[q].ok
    BY <1>1, <2>1
  <2>4. kv' = nvs'
    BY <1>1, <1>3
  <2>5. Writing(p)' => /\ call'[p].boot = Compute(call'[p].op, nvs')
                       /\ p = "loader" => call'[p].slot = Boot(nvs').slot
    BY <1>1, <1>3, <2>2 DEF Writing
  <2> QED BY <1>2, <2>3, <2>4, <2>5 DEF CommandsAreWhole, Procs
<1>7. EffectsAreWhole'
  <2>1. p = "init" => ~reported
    BY <1>1, Busy
  <2>2. ~Finished("done") /\ ~Finished("done")'
    BY <1>1, <1>2, <1>5 DEF Finished, Procs
  <2>3. ~Idle("init")' => ~Idle("init")
    BY <1>1, <1>2 DEF Idle, Procs
  <2> QED BY <1>1, <1>2, <1>5, <2>1, <2>2, <2>3 DEF Intact, EffectsAreWhole, Procs
<1>8. UNCHANGED Atomic!vars
  <2>1. /\ call["ota"].pc # "return" /\ call'["ota"].pc # "return"
        /\ call["loader"].pc # "return" /\ call'["loader"].pc # "return"
    BY <1>1, <1>2, <1>5 DEF Procs
  <2>2. AtomicMode' = AtomicMode /\ AtomicOta' = AtomicOta
    BY <1>1, <2>1 DEF AtomicMode, AtomicOta, Finished, Chosen
  <2> QED BY <1>1, <2>2, Unseen
<1> QED BY <1>6, <1>7, <1>8 DEF Intact

(* A key that is written is not seen.                                      *)
LEMMA IntactWrite ==
  ASSUME Base, Intact, ~build.direct, NEW p \in Procs, WriteKey(p)
  PROVE  Intact' /\ UNCHANGED Atomic!vars
<1>1. /\ Rest(p) /\ ~Idle(p) /\ call'[p].op = call[p].op
      /\ UNCHANGED <<nvs, mode, running, image, reported, ota, target,
                     proven, armed, cuts>>
      /\ Writing(p) /\ Writing(p)' /\ call'[p].ok
      /\ call[p].pc # "return" /\ call'[p].pc # "return"
      /\ call'[p].boot = call[p].boot /\ call'[p].slot = call[p].slot
  BY WriteStep DEF Writing
<1>2. \A q \in Procs : q # p => call'[q] = call[q] /\ call[q].pc = "idle" /\ ~Writing(q)'
  BY <1>1, Alone DEF Rest, Writing, Idle
<1>3. CommandsAreWhole'
  <2>1. \A q \in Procs : q # p => call'[q].ok
    BY <1>2 DEF Intact, CommandsAreWhole
  <2>2. \A q \in Procs : call'[q].ok
    BY <1>1, <2>1
  <2>3. /\ call'[p].boot = Compute(call'[p].op, nvs')
        /\ p = "loader" => call'[p].slot = Boot(nvs').slot
    BY <1>1 DEF Intact, CommandsAreWhole
  <2> QED BY <1>1, <1>2, <2>2, <2>3 DEF CommandsAreWhole, Procs
<1>4. /\ call["ota"].pc # "return" /\ call'["ota"].pc # "return"
      /\ call["loader"].pc # "return" /\ call'["loader"].pc # "return"
      /\ call'["init"].pc # "return"
  BY <1>1, <1>2 DEF Procs
<1>5. EffectsAreWhole'
  <2>1. ~Finished("done") /\ ~Finished("done")'
    BY <1>4 DEF Finished
  <2>2. ~Idle("init")' => ~Idle("init")
    BY <1>1, <1>2 DEF Idle, Procs
  <2> QED BY <1>1, <1>4, <2>1, <2>2 DEF Intact, EffectsAreWhole
<1>6. AtomicMode' = AtomicMode /\ AtomicOta' = AtomicOta
  BY <1>1, <1>4 DEF AtomicMode, AtomicOta, Finished, Chosen
<1> QED BY <1>1, <1>3, <1>5, <1>6, Unseen DEF Intact

(* The commit is the command: the loader's choice, the report, the start   *)
(* of an update and the selection of the new slot.                         *)
LEMMA IntactCommit ==
  ASSUME Base, Intact, NEW p \in Procs, Commit(p)
  PROVE  Intact' /\ Atomic!Next
<1>1. /\ Rest(p) /\ ~Idle(p) /\ Writing(p) /\ kv = call[p].boot
      /\ UNCHANGED <<kv, mode, image, ota, target, cuts>>
      /\ nvs' = kv /\ call[p].pc = "commit" /\ call'[p].pc = "return"
      /\ call'[p].op = call[p].op /\ call'[p].ok
      /\ call'[p].slot = call[p].slot
      /\ call[p].op = "boot" => armed' = {}
      /\ call[p].op = "done" => armed' = {target}
      /\ call[p].op # "boot" /\ call[p].op # "done" => armed' = armed
      /\ call[p].op = "boot" => ~reported'
      /\ call[p].op = "success" => reported' = TRUE
      /\ running' = IF call[p].op = "boot" THEN call[p].slot ELSE running
      /\ proven' = IF call[p].op = "success" THEN proven \cup {running} ELSE proven
  BY CommitStep DEF Writing
<1>2. call[p].op \in {"update", "done"} /\ reported => reported' = TRUE
  BY CommitStep
<1>3. \A q \in Procs : /\ ~Writing(q)'
                       /\ q # p => call'[q] = call[q] /\ call[q].pc = "idle"
  BY <1>1, Alone DEF Rest, Writing, Idle
<1>4. nvs' = Compute(call[p].op, nvs)
  BY <1>1 DEF Intact, CommandsAreWhole
<1>5. CommandsAreWhole'
  <2>1. \A q \in Procs : q # p => call'[q].ok
    BY <1>3 DEF Intact, CommandsAreWhole
  <2>2. \A q \in Procs : call'[q].ok
    BY <1>1, <2>1
  <2> QED BY <1>1, <1>3, <2>2 DEF CommandsAreWhole, Procs
<1>6. CASE p = "loader"
  <2>1. /\ mode = "off" /\ call[p].op = "boot" /\ ota = "idle"
        /\ call[p].slot = Boot(nvs).slot /\ nvs' = Boot(nvs).cfg
    BY <1>1, <1>4, <1>6, Busy, ComputeIs DEF Intact, CommandsAreWhole
  <2>2. /\ call["loader"].pc # "return" /\ call'["loader"].pc = "return"
        /\ call["ota"].pc # "return" /\ call'["ota"].pc # "return"
        /\ call'["init"].pc = "idle"
    BY <1>1, <1>3, <1>6 DEF Procs
  <2>3. EffectsAreWhole'
    BY <1>1, <1>6, <2>1, <2>2 DEF EffectsAreWhole, Idle
  <2>4. Atomic!LoaderBoot
    <3>1. ~Chosen /\ Chosen' /\ ~Finished("update") /\ ~Finished("done")
          /\ ~Finished("update")' /\ ~Finished("done")'
      BY <2>2 DEF Chosen, Finished
    <3>2. reported' = FALSE
      BY <1>1, <2>1, CommitStep
    <3> QED BY <1>1, <2>1, <3>1, <3>2, SameOperators DEF Atomic!LoaderBoot
  <2> QED BY <1>5, <2>3, <2>4 DEF Intact, Atomic!Next
<1>7. CASE p = "init"
  <2>1. /\ mode = "ap" /\ call[p].op = "success" /\ ota = "idle" /\ ~reported
        /\ image[running] = "good" /\ nvs' = SuccessCfg(nvs)
    BY <1>1, <1>4, <1>7, Busy, ComputeIs DEF Intact, EffectsAreWhole
  <2>2. /\ call["loader"].pc # "return" /\ call'["loader"].pc # "return"
        /\ call["ota"].pc # "return" /\ call'["ota"].pc # "return"
    BY <1>1, <1>3, <1>7 DEF Procs
  <2>3. ~Chosen /\ ~Chosen' /\ ~Finished("update") /\ ~Finished("done")
        /\ ~Finished("update")' /\ ~Finished("done")'
    BY <2>2 DEF Chosen, Finished
  <2>4. EffectsAreWhole'
    BY <1>1, <1>7, <2>1, <2>2 DEF EffectsAreWhole
  <2>5. Atomic!Success
    BY <1>1, <2>1, <2>3, SameOperators DEF Atomic!Success
  <2> QED BY <1>5, <2>4, <2>5 DEF Intact, Atomic!Next
<1>8. CASE p = "ota"
  <2>1. /\ mode = "ap" /\ reported /\ reported' = reported
        /\ \/ call["ota"].op = "update" /\ ota = "idle"
           \/ call["ota"].op = "done" /\ ota = "flashed"
    <3>1. mode = "ap" /\ reported /\ call["ota"].op \in {"update", "done"}
      BY <1>1, <1>8, Busy
    <3>2. reported' = TRUE /\ reported = TRUE
      BY <1>2, <1>8, <3>1 DEF Base, TypeOK
    <3> QED BY <3>1, <3>2 DEF Base, Turns
  <2>2. /\ call["loader"].pc # "return" /\ call'["loader"].pc # "return"
        /\ call["ota"].pc # "return" /\ call'["ota"].pc = "return"
        /\ call'["init"].pc = "idle"
    BY <1>1, <1>3, <1>8 DEF Procs
  <2>3. ~Chosen /\ ~Chosen' /\ ~Finished("update") /\ ~Finished("done")
    BY <2>2 DEF Chosen, Finished
  <2>4. CASE call["ota"].op = "update" /\ ota = "idle"
    <3>1. nvs' = UpdateCfg(nvs)
      BY <1>4, <1>8, <2>4, ComputeIs
    <3>2. Finished("update")'
      BY <1>1, <1>8, <2>2, <2>4 DEF Finished
    <3>3. Atomic!Update
      BY <1>1, <1>8, <2>1, <2>3, <2>4, <3>1, <3>2, SameOperators
         DEF Atomic!Update, Atomic!MayStart
    <3>4. EffectsAreWhole'
      BY <1>1, <2>2, <2>4 DEF EffectsAreWhole, Idle
    <3> QED BY <1>5, <3>3, <3>4 DEF Intact, Atomic!Next
  <2>5. CASE call["ota"].op = "done" /\ ota = "flashed"
    <3>1. nvs' = DoneCfg(nvs)
      BY <1>4, <1>8, <2>5, ComputeIs
    <3>2. Finished("done")' /\ ~Finished("update")'
      BY <1>1, <1>8, <2>2, <2>5 DEF Finished
    <3>3. target = Target(nvs)
      BY <2>3, <2>5 DEF Intact, EffectsAreWhole
    <3>4. Atomic!Done
      BY <1>1, <1>8, <2>1, <2>3, <2>5, <3>1, <3>2, <3>3, SameOperators
         DEF Atomic!Done
    <3>5. EffectsAreWhole'
      BY <1>1, <2>2, <2>5, <3>2 DEF EffectsAreWhole, Idle
    <3> QED BY <1>5, <3>4, <3>5 DEF Intact, Atomic!Next
  <2> QED BY <2>1, <2>4, <2>5
<1> QED BY <1>6, <1>7, <1>8 DEF Procs

(* The start of a command is not seen.                                     *)
LEMMA IntactStart ==
  ASSUME Base, Serial, Intact, LoaderStart \/ InitStart \/ UpdateStart \/ DoneStart
  PROVE  Intact' /\ UNCHANGED Atomic!vars
<1>1. PICK p \in Procs : \/ p = "loader" /\ LoaderStart
                         \/ p = "init" /\ InitStart
                         \/ p = "ota" /\ (UpdateStart \/ DoneStart)
  BY DEF Procs
<1>2. /\ Rest(p) /\ Idle(p) /\ call'[p].pc = "read" /\ call'[p].ok
      /\ UNCHANGED <<kv, nvs, mode, running, image, reported, ota, target,
                     proven, armed, cuts>>
      /\ p = "init" => image[running] = "good"
  BY <1>1, StartStep
<1>3. \A q \in Procs : q # p => call'[q] = call[q]
  BY <1>2 DEF Rest
<1>4. CommandsAreWhole'
  <2>1. ~Writing(p) /\ ~Writing(p)'
    BY <1>2 DEF Idle, Writing
  <2>2. \A q \in Procs : call'[q].ok
    BY <1>2, <1>3 DEF Intact, CommandsAreWhole
  <2>3. \A q \in Procs : q # p => (Writing(q)' <=> Writing(q))
    BY <1>3 DEF Writing
  <2>4. (\A q \in Procs : ~Writing(q)') => kv = nvs
    BY <2>1, <2>3 DEF Intact, CommandsAreWhole
  <2> QED BY <1>2, <1>3, <2>1, <2>2, <2>3, <2>4 DEF Intact, CommandsAreWhole, Procs
<1>5. \A q \in Procs : call'[q].pc = "return" <=> call[q].pc = "return"
  BY <1>2, <1>3 DEF Idle
<1>6. ~Finished("done")' <=> ~Finished("done")
  BY <1>2, <1>3, <1>5 DEF Finished, Procs, Idle
<1>7. ~Finished("update")' <=> ~Finished("update")
  BY <1>2, <1>3, <1>5 DEF Finished, Procs, Idle
<1>8. EffectsAreWhole'
  BY <1>2, <1>3, <1>5, <1>6 DEF Intact, EffectsAreWhole, Idle, Procs
<1>9. AtomicMode' = AtomicMode /\ AtomicOta' = AtomicOta
  BY <1>2, <1>5, <1>6, <1>7 DEF AtomicMode, AtomicOta, Chosen, Procs
<1> QED BY <1>2, <1>4, <1>8, <1>9, Unseen DEF Intact

(* A command ends.  AbBoot has taken the step before, at the commit; only  *)
(* a `success` that had nothing to write counts where it returns.          *)
LEMMA IntactEnd ==
  ASSUME Base, Intact, LoaderJump \/ InitEnd \/ UpdateEnd \/ DoneEnd
  PROVE  Intact' /\ (Atomic!Next \/ UNCHANGED Atomic!vars)
<1>1. PICK p \in Procs : \/ p = "loader" /\ LoaderJump
                         \/ p = "init" /\ InitEnd
                         \/ p = "ota" /\ (UpdateEnd \/ DoneEnd)
  BY DEF Procs
<1>2. /\ Rest(p) /\ ~Idle(p) /\ call[p].pc = "return"
      /\ call'[p].pc = "idle" /\ call'[p].op = "none" /\ call'[p].ok
      /\ UNCHANGED <<kv, nvs, image, target, cuts>>
  BY <1>1, EndStep
<1>3. /\ \A q \in Procs : q # p => call'[q] = call[q] /\ call[q].pc = "idle"
      /\ \A q \in Procs : call'[q].pc = "idle" /\ ~Writing(q)' /\ ~Writing(q)
  BY <1>2, Alone DEF Rest, Writing, Idle
<1>4. kv = nvs /\ call[p].ok
  BY <1>3 DEF Intact, CommandsAreWhole
<1>5. CommandsAreWhole'
  <2>1. \A q \in Procs : call'[q].ok
    BY <1>2, <1>3 DEF Intact, CommandsAreWhole
  <2> QED BY <1>2, <1>3, <1>4, <2>1 DEF CommandsAreWhole, Procs
<1>6. ~Chosen' /\ ~Finished("update")' /\ ~Finished("done")'
  BY <1>3 DEF Chosen, Finished, Procs
<1>7. CASE p = "loader"
  <2>1. /\ mode' = "ap" /\ running' = call[p].slot /\ reported' = FALSE /\ armed' = {}
        /\ ota' = ota /\ proven' = proven /\ ota = "idle"
    BY <1>1, <1>2, <1>7, EndStep, Busy
  <2>2. running' = running /\ reported' = reported /\ armed' = armed
    BY <1>2, <1>7, <2>1 DEF Intact, EffectsAreWhole, Base, TypeOK
  <2>3. Chosen /\ ~Finished("update") /\ ~Finished("done")
    BY <1>2, <1>3, <1>7 DEF Chosen, Finished, Procs
  <2>4. AtomicMode' = AtomicMode /\ AtomicOta' = AtomicOta
    BY <1>6, <2>1, <2>3 DEF AtomicMode, AtomicOta
  <2>5. EffectsAreWhole'
    BY <1>3, <2>1 DEF EffectsAreWhole, Idle, Procs
  <2> QED BY <1>2, <1>5, <2>1, <2>2, <2>4, <2>5, Unseen DEF Intact
<1>8. CASE p = "init"
  <2>1. /\ reported' = (call[p].ok \/ build.bare)
        /\ proven' = IF call[p].ok THEN proven \cup {running} ELSE proven
        /\ UNCHANGED <<mode, running, ota, armed>>
        /\ mode = "ap" /\ ota = "idle" /\ image[running] = "good"
    BY <1>1, <1>2, <1>8, EndStep, Busy DEF Intact, EffectsAreWhole
  <2>2. reported' = TRUE /\ proven' = proven \cup {running}
    BY <1>4, <2>1
  <2>3. ~Chosen /\ ~Finished("update") /\ ~Finished("done")
    BY <1>2, <1>3, <1>8 DEF Chosen, Finished, Procs
  <2>4. EffectsAreWhole'
    BY <1>3, <2>1 DEF EffectsAreWhole, Idle, Procs
  <2>5. CASE reported /\ running \in proven
    <3>1. reported' = reported /\ proven' = proven
      BY <2>2, <2>5 DEF Base, TypeOK
    <3>2. AtomicMode' = AtomicMode /\ AtomicOta' = AtomicOta
      BY <1>6, <2>1, <2>3 DEF AtomicMode, AtomicOta
    <3> QED BY <1>2, <1>5, <2>1, <2>4, <3>1, <3>2, Unseen DEF Intact
  <2>6. CASE ~reported /\ ~SuccessWrites(nvs)
    <3>1. Atomic!SuccessCfg(nvs) = nvs
      BY <2>6, SameOperators DEF SuccessCfg
    <3>2. Atomic!Success
      BY <1>2, <1>6, <2>1, <2>2, <2>3, <2>6, <3>1 DEF Atomic!Success
    <3> QED BY <1>5, <2>4, <3>2 DEF Intact, Atomic!Next
  <2> QED BY <1>2, <1>8, <2>5, <2>6 DEF Intact, EffectsAreWhole
<1>9. CASE p = "ota"
  <2>1. /\ UNCHANGED <<mode, running, reported, proven, armed>> /\ mode = "ap"
        /\ \/ call["ota"].op = "update" /\ ota = "idle" /\ ota' = "updated"
           \/ call["ota"].op = "done" /\ ota = "flashed" /\ ota' = "done"
    BY <1>1, <1>2, <1>4, <1>9, EndStep, Busy
  <2>2. ~Chosen /\ AtomicOta = ota'
    BY <1>2, <1>3, <1>9, <2>1, AtomicFacts DEF Chosen, Procs
  <2>3. AtomicMode' = AtomicMode /\ AtomicOta' = AtomicOta
    BY <1>6, <2>1, <2>2 DEF AtomicMode, AtomicOta
  <2>4. EffectsAreWhole'
    BY <1>3, <2>1 DEF EffectsAreWhole, Idle, Procs
  <2> QED BY <1>2, <1>5, <2>1, <2>3, <2>4, Unseen DEF Intact
<1> QED BY <1>7, <1>8, <1>9 DEF Procs

(* A step of the installation is the step of the same name.                *)
LEMMA IntactFlash ==
  ASSUME Base, Serial, Intact, FlashBegin \/ FlashEnd \/ FlashFail
  PROVE  Intact' /\ Atomic!Next
<1>1. /\ UNCHANGED <<kv, nvs, call, mode, running, reported, armed, cuts>>
      /\ mode = "ap" /\ call["ota"].op \notin {"update", "done"}
      /\ ota \in {"updated", "flashing"}
  BY FlashStep
<1>2. \A q \in Procs : call[q].pc = "idle" /\ ~Writing(q)
  <2>1. call["ota"].op = "none"
    BY <1>1 DEF Base, Roles
  <2> QED BY <1>1, <2>1 DEF Base, Turns, Roles, Idle, Writing, Procs
<1>3. kv = nvs /\ Target(nvs) = Atomic!Target(nvs)
  BY <1>2, SameOperators DEF Intact, CommandsAreWhole
<1>4. /\ ~Chosen /\ ~Finished("update") /\ ~Finished("done")
      /\ ~Chosen' /\ ~Finished("update")' /\ ~Finished("done")'
  BY <1>1, <1>2 DEF Chosen, Finished, Procs
<1>5. CommandsAreWhole'
  BY <1>1, <1>2, <1>3 DEF Intact, CommandsAreWhole, Writing
<1>6. CASE FlashBegin
  <2>1. /\ ota = "updated" /\ ota' = "flashing" /\ target' = Target(nvs)
        /\ image' = [image EXCEPT ![Target(nvs)] = "torn"]
        /\ proven' = proven \ {Target(nvs)}
    BY <1>3, <1>6, FlashStep
  <2>2. EffectsAreWhole'
    BY <1>1, <1>2, <2>1 DEF EffectsAreWhole, Idle, Procs
  <2>3. Atomic!FlashBegin
    BY <1>1, <1>3, <1>4, <2>1 DEF Atomic!FlashBegin
  <2> QED BY <1>5, <2>2, <2>3 DEF Intact, Atomic!Next
<1>7. CASE FlashEnd
  <2>1. /\ ota = "flashing" /\ ota' = "flashed" /\ target = Target(nvs)
        /\ UNCHANGED <<target, proven>>
    BY <1>7, FlashStep DEF Intact, EffectsAreWhole
  <2>2. \E q \in {"good", "bad"} : image' = [image EXCEPT ![Target(nvs)] = q]
    BY <1>7, <2>1, FlashStep
  <2>3. EffectsAreWhole'
    BY <1>1, <1>2, <2>1 DEF EffectsAreWhole, Idle, Procs
  <2>4. Atomic!FlashEnd
    BY <1>1, <1>3, <1>4, <2>1, <2>2 DEF Atomic!FlashEnd
  <2> QED BY <1>5, <2>3, <2>4 DEF Intact, Atomic!Next
<1>8. CASE FlashFail
  <2>1. ota = "flashing" /\ ota' = "idle" /\ UNCHANGED <<image, target, proven>>
    BY <1>8, FlashStep
  <2>2. EffectsAreWhole'
    BY <1>1, <1>2, <2>1 DEF EffectsAreWhole, Idle, Procs
  <2>3. Atomic!FlashFail
    BY <1>1, <1>4, <2>1 DEF Atomic!FlashFail
  <2> QED BY <1>5, <2>2, <2>3 DEF Intact, Atomic!Next
<1> QED BY <1>6, <1>7, <1>8

(* A restart loses the live view, and with it the command that was being   *)
(* executed: AbBoot has not seen it, or has seen it complete.              *)
LEMMA IntactRestart ==
  ASSUME Base, Intact, Reboot \/ PowerCut \/ Watchdog
  PROVE  Intact' /\ Atomic!Next
<1>1. /\ \A p \in Procs : call'[p].op = "none" /\ call'[p].pc = "idle" /\ call'[p].ok
      /\ kv' = nvs /\ mode' = "off" /\ ota' = "idle"
      /\ UNCHANGED <<nvs, running, image, reported, target, proven, armed>>
  BY RestartStep
<1>2. Intact'
  BY <1>1 DEF Intact, CommandsAreWhole, EffectsAreWhole, Writing, Idle, Procs
<1>3. ~Chosen' /\ ~Finished("update")' /\ ~Finished("done")'
  BY <1>1 DEF Chosen, Finished, Procs
<1>4. CASE Reboot
  <2>1. mode = "ap" /\ ota = "done" /\ cuts' = cuts
    BY <1>4 DEF Reboot
  <2>2. ~Chosen /\ ~Finished("update") /\ ~Finished("done")
    BY <2>1 DEF Chosen, Finished, Base, Turns, Idle
  <2>3. Atomic!Reboot
    BY <1>1, <1>3, <2>1, <2>2 DEF Atomic!Reboot
  <2> QED BY <1>2, <2>3 DEF Atomic!Next
<1>5. CASE PowerCut
  <2>1. cuts < MaxCuts /\ cuts' = cuts + 1
    BY <1>5 DEF PowerCut
  <2>2. Atomic!PowerCut
    BY <1>1, <1>3, <2>1 DEF Atomic!PowerCut
  <2> QED BY <1>2, <2>2 DEF Atomic!Next
<1>6. CASE Watchdog
  <2>1. mode = "ap" /\ image[running] # "good" /\ cuts' = cuts
    BY <1>6 DEF Watchdog
  <2>2. ~Chosen
    BY <2>1 DEF Chosen, Base, Turns, Idle
  <2>3. Atomic!Watchdog
    BY <1>1, <1>3, <2>1, <2>2 DEF Atomic!Watchdog
  <2> QED BY <1>2, <2>3 DEF Atomic!Next
<1> QED BY <1>4, <1>5, <1>6

-----------------------------------------------------------------------------
(* The device of the refinement: its store commits as a whole and no set   *)
(* fails.  Whatever init runs, and whenever the power is cut.              *)
Staged == (\A b \in Builds : ~b.direct) /\ Failing = {}

(* Every step is a step of AbBoot or a stutter.                            *)
LEMMA AtomicStep ==
  ASSUME Base, Base', Serial, Staged, Intact, [Next]_vars
  PROVE  Intact' /\ [Atomic!Next]_(Atomic!vars)
<1>1. ~build.direct
  BY DEF Staged, Base, TypeOK
<1>2. CASE UNCHANGED vars
  <2>1. UNCHANGED <<nvs, kv, call, mode, running, image, reported, ota, target,
                    proven, armed, cuts>>
    BY <1>2 DEF vars, device, task, history, bounds
  <2>2. Intact'
    BY <2>1 DEF Intact, CommandsAreWhole, EffectsAreWhole, Writing, Finished, Idle
  <2>3. UNCHANGED Atomic!vars
    BY <2>1, Unseen DEF AtomicMode, AtomicOta, Chosen, Finished
  <2> QED BY <2>2, <2>3
<1>3. ASSUME NEW p \in Procs, Step(p), UNCHANGED build
      PROVE  Intact' /\ [Atomic!Next]_(Atomic!vars)
  BY <1>1, <1>3, IntactRead, IntactWrite, IntactCommit DEF Step
<1>4. \A p \in Procs : ~WriteFails(p)
  BY DEF WriteFails, Staged
<1> QED BY <1>2, <1>3, <1>4, IntactStart, IntactEnd, IntactFlash, IntactRestart
        DEF Next, LoaderNext, InitNext, OtaNext, Reset, Procs

(* The first states are first states of AbBoot.                            *)
LEMMA AtomicInit ==
  ASSUME Init
  PROVE  Intact /\ Atomic!Init
<1>1. \A p \in Procs : call[p].pc = "idle" /\ call[p].ok /\ ~Writing(p)
  BY DEF Init, NoCall, Writing
<1>2. Intact
  BY <1>1 DEF Init, Intact, CommandsAreWhole, EffectsAreWhole, Idle, Procs
<1>3. ~Chosen /\ ~Finished("update") /\ ~Finished("done")
  BY <1>1 DEF Chosen, Finished, Procs
<1>4. Atomic!Init
  BY <1>3 DEF Init, Atomic!Init, Atomic!Slots, Atomic!Images, Slots, Images
<1> QED BY <1>2, <1>4

(* The refinement of AbBoot, without its fairness: every behaviour of the  *)
(* device, property by property, is one of atomic commands.                *)
THEOREM CommandsAreAtomic == ASSUME Serial, Staged PROVE Spec => Atomic!Spec
<1>1. Init => Base /\ Intact /\ Atomic!Init
  BY BaseInit, AtomicInit
<1>2. Base /\ Intact /\ [Next]_vars =>
        Base' /\ Intact' /\ [Atomic!Next]_(Atomic!vars)
  BY BaseStep, AtomicStep
<1> QED BY <1>1, <1>2, PTL DEF Spec, Atomic!Spec

=============================================================================
