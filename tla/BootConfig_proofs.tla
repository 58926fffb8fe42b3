--------------------------- MODULE BootConfig_proofs ---------------------------
(***************************************************************************)
(* Facts about the operators of BootConfig, for every configuration.  The  *)
(* two that matter are BootKeeps, what one run of the loader preserves,    *)
(* and BootTwice, that two runs find a slot marked successful.             *)
(***************************************************************************)
EXTENDS BootConfig, TLAPS

(* What the loader's fallback returns.  It only adds marks, to the slot it *)
(* returns, and it returns a slot marked successful when there is one.     *)
LEMMA SuccessSlotFacts ==
  ASSUME NEW c \in SUBSET Keys
  PROVE  LET r == SuccessSlot(c)
         IN  /\ r.slot \in Slots
             /\ r.cfg \in SUBSET Keys
             /\ c \subseteq r.cfg
             /\ Active(r.slot) \in r.cfg
             /\ r.cfg \subseteq c \cup {Active(r.slot), Bootable(r.slot)}
             /\ (\E s \in Slots : Successful(s) \in c) => Successful(r.slot) \in c
             /\ (\A s \in Slots : Successful(s) \notin c) => r.slot = "a"
  BY DEF SuccessSlot, Keys, Slots, SlotKeys, Active, Bootable, Successful, Try

(* The fallback keeps the flags consistent, provided that an active slot   *)
(* it is given is a successful one: the loader has dealt with the others.  *)
LEMMA SuccessSlotKeeps ==
  ASSUME NEW c \in SUBSET Keys, OneActive(c), Nested(c),
         \A s \in Slots : Active(s) \in c => Successful(s) \in c
  PROVE  OneActive(SuccessSlot(c).cfg) /\ Nested(SuccessSlot(c).cfg)
<1>1. OneActive(SuccessSlot(c).cfg)
  BY DEF SuccessSlot, OneActive, Slots, Keys, SlotKeys,
         Active, Bootable, Successful, Try
<1>2. Nested(SuccessSlot(c).cfg)
  BY DEF SuccessSlot, Nested, Slots, Keys, SlotKeys,
         Active, Bootable, Successful, Try
<1> QED BY <1>1, <1>2

(* The loader's four ways: no slot active, a slot on trial started, a      *)
(* trial given up, and the normal boot.                                    *)
LEMMA BootCases ==
  ASSUME NEW c \in SUBSET Keys
  PROVE  \/ /\ \A s \in Slots : Active(s) \notin c
            /\ Boot(c) = SuccessSlot(FreshCfg)
         \/ \E s \in Slots : /\ Pending(c, s)
                             /\ Try \notin c
                             /\ Boot(c) = [slot |-> s, cfg |-> c \cup {Try}]
         \/ \E s \in Slots : /\ Pending(c, s)
                             /\ Try \in c
                             /\ Boot(c) = SuccessSlot(c \ {Active(s), Bootable(s)})
         \/ /\ \A s \in Slots : ~ Pending(c, s)
            /\ \E s \in Slots : Active(s) \in c
            /\ Boot(c) = SuccessSlot(c)
  BY DEF Boot, TrySlot, Slots

(* What one run of the loader keeps: the flags stay consistent, the slot   *)
(* it starts becomes the active one, no other slot gains a mark, no slot   *)
(* becomes successful, and (unless no slot was active) none stops being.   *)
LEMMA BootKeeps ==
  ASSUME NEW c \in SUBSET Keys, OneActive(c), Nested(c)
  PROVE  LET b == Boot(c)
         IN  /\ b.slot \in Slots
             /\ b.cfg \in SUBSET Keys
             /\ OneActive(b.cfg)
             /\ Nested(b.cfg)
             /\ Active(b.slot) \in b.cfg
             /\ b.cfg \cap SlotKeys(Other(b.slot)) \subseteq c
             /\ \A s \in Slots : Successful(s) \in b.cfg => Successful(s) \in c
             /\ \A s \in Slots :
                  (\E t \in Slots : Active(t) \in c) =>
                     (Successful(s) \in c => Successful(s) \in b.cfg)
             /\ \/ c \cap SlotKeys(b.slot) # {}
                \/ b.slot = "a" /\ \A s \in Slots : Successful(s) \notin b.cfg
<1> DEFINE b == Boot(c)
           Kept == /\ b.slot \in Slots
                   /\ b.cfg \in SUBSET Keys
                   /\ OneActive(b.cfg)
                   /\ Nested(b.cfg)
                   /\ Active(b.slot) \in b.cfg
                   /\ b.cfg \cap SlotKeys(Other(b.slot)) \subseteq c
                   /\ \A s \in Slots : Successful(s) \in b.cfg => Successful(s) \in c
                   /\ \A s \in Slots :
                        (\E t \in Slots : Active(t) \in c) =>
                           (Successful(s) \in c => Successful(s) \in b.cfg)
                   /\ \/ c \cap SlotKeys(b.slot) # {}
                      \/ b.slot = "a" /\ \A s \in Slots : Successful(s) \notin b.cfg
<1>1. CASE /\ \A s \in Slots : Active(s) \notin c
           /\ b = SuccessSlot(FreshCfg)
  <2>1. b = [slot |-> "a", cfg |-> FreshCfg]
    BY <1>1 DEF SuccessSlot, FreshCfg, Active, Bootable, Successful, Try
  <2>2. b.slot = "a" /\ b.cfg = FreshCfg
    BY <2>1
  <2>3. OneActive(FreshCfg) /\ Nested(FreshCfg)
    BY DEF FreshCfg, OneActive, Nested, Slots, Active, Bootable, Successful, Try
  <2>4. /\ FreshCfg \in SUBSET Keys
        /\ Active("a") \in FreshCfg
        /\ FreshCfg \cap SlotKeys("b") = {}
        /\ \A s \in Slots : Successful(s) \notin FreshCfg
    BY DEF FreshCfg, Keys, SlotKeys, Slots, Active, Bootable, Successful, Try
  <2> QED
    BY <1>1, <2>2, <2>3, <2>4 DEF Slots, Other
<1>2. ASSUME NEW s \in Slots, Pending(c, s),
             b = [slot |-> s, cfg |-> c \cup {Try}]
      PROVE  Kept
  <2>1. b.slot = s /\ b.cfg = c \cup {Try}
    BY <1>2
  <2>2. OneActive(b.cfg) /\ Nested(b.cfg)
    BY <2>1 DEF OneActive, Nested, Slots, Active, Bootable, Successful, Try
  <2> QED
    BY <1>2, <2>1, <2>2 DEF Pending, Other,
       Keys, SlotKeys, Slots, Active, Bootable, Successful, Try
<1>3. ASSUME NEW d \in SUBSET c, b = SuccessSlot(d),
             OneActive(d), Nested(d),
             \A s \in Slots : Active(s) \in d => Successful(s) \in d,
             \A s \in Slots : Successful(s) \in c => Successful(s) \in d
      PROVE  Kept
  <2>1. d \in SUBSET Keys
    OBVIOUS
  <2>2. /\ b.slot \in Slots
        /\ b.cfg \in SUBSET Keys
        /\ d \subseteq b.cfg
        /\ Active(b.slot) \in b.cfg
        /\ b.cfg \subseteq d \cup {Active(b.slot), Bootable(b.slot)}
        /\ (\E s \in Slots : Successful(s) \in d) => Successful(b.slot) \in d
        /\ (\A s \in Slots : Successful(s) \notin d) => b.slot = "a"
    BY <2>1, <1>3, SuccessSlotFacts
  <2>3. OneActive(b.cfg) /\ Nested(b.cfg)
    BY <2>1, <1>3, SuccessSlotKeeps
  <2>4. b.cfg \cap SlotKeys(Other(b.slot)) \subseteq c
    BY <2>2 DEF SlotKeys, Other, Slots, Active, Bootable, Successful
  <2>5. \A s \in Slots : Successful(s) \in b.cfg => Successful(s) \in d
    BY <2>2 DEF Slots, Active, Bootable, Successful
  <2>6. \/ c \cap SlotKeys(b.slot) # {}
        \/ b.slot = "a" /\ \A s \in Slots : Successful(s) \notin b.cfg
    BY <2>2, <2>5 DEF SlotKeys
  <2> QED BY <1>3, <2>2, <2>3, <2>4, <2>5, <2>6
<1>4. ASSUME NEW s \in Slots, Pending(c, s),
             b = SuccessSlot(c \ {Active(s), Bootable(s)})
      PROVE  Kept
  <2> DEFINE d == c \ {Active(s), Bootable(s)}
  <2>1. \A t \in Slots : Active(t) \notin d
    BY <1>4 DEF Pending, OneActive, Slots, Active, Bootable
  <2>2. OneActive(d) /\ Nested(d)
    BY <1>4, <2>1 DEF Pending, OneActive, Nested, Slots,
       Active, Bootable, Successful
  <2>3. \A t \in Slots : Successful(t) \in c => Successful(t) \in d
    BY DEF Active, Bootable, Successful
  <2> QED BY <1>3, <1>4, <2>1, <2>2, <2>3
<1>5. CASE /\ \A s \in Slots : ~ Pending(c, s)
           /\ b = SuccessSlot(c)
  <2>1. \A s \in Slots : Active(s) \in c => Successful(s) \in c
    BY <1>5 DEF Pending, Nested, Active, Bootable, Successful
  <2> QED BY <1>3, <1>5, <2>1
<1>6. Kept
  BY <1>1, <1>2, <1>4, <1>5, BootCases
<1> QED BY <1>6

(* The loader started twice, with nothing in between, starts a slot that   *)
(* was marked successful before the first start: a trial costs one boot.   *)
LEMMA BootTwice ==
  ASSUME NEW c \in SUBSET Keys, OneActive(c), Nested(c),
         \E s \in Slots : Active(s) \in c,
         \E s \in Slots : Successful(s) \in c
  PROVE  \/ Successful(Boot(c).slot) \in c
         \/ Successful(Boot(Boot(c).cfg).slot) \in c
<1>1. CASE \E s \in Slots : /\ Pending(c, s)
                            /\ Try \notin c
                            /\ Boot(c) = [slot |-> s, cfg |-> c \cup {Try}]
  <2>1. PICK s \in Slots : /\ Pending(c, s)
                           /\ Boot(c) = [slot |-> s, cfg |-> c \cup {Try}]
    BY <1>1
  <2> DEFINE d == c \cup {Try}
  <2>2. d \in SUBSET Keys /\ Pending(d, s) /\ Try \in d
    BY <2>1 DEF Pending, Keys, Try, Successful, Active, Bootable
  <2>3. Boot(d) = SuccessSlot(d \ {Active(s), Bootable(s)})
    BY <2>1, <2>2 DEF Boot, TrySlot, Pending, OneActive, Slots,
       Active, Bootable, Successful, Try
  <2>4. /\ d \ {Active(s), Bootable(s)} \in SUBSET Keys
        /\ \E t \in Slots : Successful(t) \in d \ {Active(s), Bootable(s)}
    BY <2>2 DEF Slots, Successful, Active, Bootable
  <2>5. Successful(SuccessSlot(d \ {Active(s), Bootable(s)}).slot)
           \in d \ {Active(s), Bootable(s)}
    BY <2>4, SuccessSlotFacts
  <2>6. Successful(Boot(d).slot) \in c
    BY <2>3, <2>5 DEF Successful, Try
  <2> QED BY <2>1, <2>6
<1>2. CASE \E s \in Slots :
              Pending(c, s) /\ Boot(c) = SuccessSlot(c \ {Active(s), Bootable(s)})
  <2>1. PICK s \in Slots : Boot(c) = SuccessSlot(c \ {Active(s), Bootable(s)})
    BY <1>2
  <2>2. \E t \in Slots : Successful(t) \in c \ {Active(s), Bootable(s)}
    BY DEF Slots, Successful, Active, Bootable
  <2> QED BY <2>1, <2>2, SuccessSlotFacts
<1>3. CASE Boot(c) = SuccessSlot(c)
  BY <1>3, SuccessSlotFacts
<1> QED BY <1>1, <1>2, <1>3, BootCases
=============================================================================
