----------------------------- MODULE BootConfig -----------------------------
(***************************************************************************)
(* The boot configuration of bootctl/bootctl.c and what its four commands  *)
(* and the boot loader entry compute from it.                              *)
(*                                                                         *)
(* bootctl keeps seven boolean properties in KVDB, and a property that is  *)
(* absent reads as FALSE.  A configuration is therefore the set of the     *)
(* properties that are TRUE: memset(&boot, 0, ...) is {}, setting a flag   *)
(* adds its key and clearing it removes the key.                           *)
(*                                                                         *)
(* This module is pure: every operator maps the configuration a command    *)
(* has read to the configuration it writes.  AbBoot gives the commands one *)
(* atomic step each, BootDevice one step per property read and written.    *)
(***************************************************************************)

(* The two slots: boot.slot[0] is "a", boot.slot[1] is "b". *)
Slots == {"a", "b"}

Other(s) == IF s = "a" THEN "b" ELSE "a"

Active(s) == <<s, "active">>
Bootable(s) == <<s, "bootable">>
Successful(s) == <<s, "successful">>
Try == <<"boot", "try">>

SlotKeys(s) == {Active(s), Bootable(s), Successful(s)}

Keys == SlotKeys("a") \cup SlotKeys("b") \cup {Try}

(* Mutant of KeyOrder: the properties are written from the last to the first. *)
KeyOrderReversed == << Try, Successful("b"), Bootable("b"), Active("b"),
                       Successful("a"), Bootable("a"), Active("a") >>

(* The order in which bootctl_read_config and bootctl_write_config go      *)
(* through the properties.                                                 *)
KeyOrder == << Active("a"), Bootable("a"), Successful("a"),
               Active("b"), Bootable("b"), Successful("b"), Try >>

(* What the commands and the loader keep of a configuration between them:  *)
(* one slot at most is active, and an active or successful slot is         *)
(* bootable.                                                               *)
OneActive(c) == ~ (\A s \in Slots : Active(s) \in c)

Nested(c) ==
  \A s \in Slots : c \cap {Active(s), Successful(s)} # {} => Bootable(s) \in c

(***************************************************************************)
(* The commands of the running system.                                     *)
(***************************************************************************)

(* The slot the commands take for the running one: slot a when its active  *)
(* flag is set, slot b otherwise (without looking at b's own flag).        *)
ActiveSlot(c) == IF Active("a") \in c THEN "a" ELSE "b"

(* bootctl_active: the name it returns, "none" for its NULL.               *)
ActiveName(c) == IF Active("a") \in c THEN "a"
                 ELSE IF Active("b") \in c THEN "b" ELSE "none"

(* The slot `update` clears and `done` switches to. *)
Target(c) == Other(ActiveSlot(c))

(* Mutants of UpdateCfg: successful, or bootable, is not cleared; the      *)
(* active slot is cleared instead of the other.                            *)
UpdateCfgKeepsSuccessful(c) == c \ {Active(Target(c)), Bootable(Target(c))}
UpdateCfgKeepsBootable(c) == c \ {Active(Target(c)), Successful(Target(c))}
UpdateCfgWrongSlot(c) == c \ SlotKeys(ActiveSlot(c))

UpdateCfg(c) == c \ SlotKeys(Target(c))

(* Mutants of DoneCfg: the old slot stays active; the new slot is not made *)
(* bootable.                                                               *)
DoneCfgBothActive(c) == c \cup {Active(Target(c)), Bootable(Target(c))}
DoneCfgNotBootable(c) == (c \cup {Active(Target(c))}) \ {Active(ActiveSlot(c))}

DoneCfg(c) == (c \cup {Active(Target(c)), Bootable(Target(c))})
                 \ {Active(ActiveSlot(c))}

(* `success` writes nothing when the slot is already marked. *)
SuccessWrites(c) == Successful(ActiveSlot(c)) \notin c

SuccessCfg(c) == IF SuccessWrites(c)
                   THEN (c \ {Try}) \cup {Successful(ActiveSlot(c))}
                   ELSE c

(***************************************************************************)
(* The boot loader entry: which slot it starts and what it writes first.   *)
(***************************************************************************)

(* A slot on trial: active, bootable, and not yet reported successful. *)
Pending(c, s) == /\ {Active(s), Bootable(s)} \subseteq c
                 /\ Successful(s) \notin c

(* The label success_slot: an active successful slot, else any successful  *)
(* slot, which becomes active, else slot a.  Slot b is made bootable here, *)
(* slot a is not.                                                          *)
(* Mutants of SuccessSlot: the last branch leaves info.path unset; the     *)
(* fallback to slot a does not make it active.                             *)
SuccessSlotNoPath(c) ==
  IF {Active("a"), Successful("a")} \subseteq c
    THEN [slot |-> "a", cfg |-> c]
  ELSE IF {Active("b"), Successful("b")} \subseteq c
    THEN [slot |-> "b", cfg |-> c]
  ELSE [slot |-> "unset", cfg |-> c \cup {Active("a"), Bootable("a")}]

SuccessSlotNotActive(c) ==
  IF Successful("a") \in c
    THEN [slot |-> "a", cfg |-> c]
  ELSE IF Successful("b") \in c
    THEN [slot |-> "b", cfg |-> c \cup {Active("b"), Bootable("b")}]
  ELSE [slot |-> "a", cfg |-> c \cup {Active("a"), Bootable("a")}]

SuccessSlot(c) ==
  IF {Active("a"), Successful("a")} \subseteq c
    THEN [slot |-> "a", cfg |-> c]
  ELSE IF {Active("b"), Successful("b")} \subseteq c
    THEN [slot |-> "b", cfg |-> c]
  ELSE IF Successful("a") \in c
    THEN [slot |-> "a", cfg |-> c \cup {Active("a")}]
  ELSE IF Successful("b") \in c
    THEN [slot |-> "b", cfg |-> c \cup {Active("b"), Bootable("b")}]
  ELSE [slot |-> "a", cfg |-> c \cup {Active("a"), Bootable("a")}]

(* A pending slot is started once, with the try flag set; when the flag is *)
(* already set the trial counts as failed and another slot is started.     *)
(* Mutant of TrySlot: the try flag is not set before the trial.            *)
TrySlotUncounted(c, s) == IF Try \in c
                            THEN SuccessSlot(c \ {Active(s), Bootable(s)})
                            ELSE [slot |-> s, cfg |-> c]

TrySlot(c, s) == IF Try \in c
                   THEN SuccessSlot(c \ {Active(s), Bootable(s)})
                   ELSE [slot |-> s, cfg |-> c \cup {Try}]

(* The configuration after memset and the three assignments that follow it *)
FreshCfg == {Active("a"), Bootable("a"), Try}

Boot(c) ==
  IF \A s \in Slots : Active(s) \notin c THEN SuccessSlot(FreshCfg)
  ELSE IF Pending(c, "a") THEN TrySlot(c, "a")
  ELSE IF Pending(c, "b") THEN TrySlot(c, "b")
  ELSE SuccessSlot(c)
=============================================================================
