----------------------------- MODULE CommandSlot -----------------------------
(***************************************************************************)
(* What the server promises the callers of ssh-run and ssh-retry about one *)
(* session: there is a single command slot.  A command sits in it either   *)
(* in the foreground (its caller is waiting for the answer) or in the      *)
(* background (the caller was told "still running" and the server tracks   *)
(* the command), and nobody else may start a command until it is empty.    *)
(* CHANGELOG 2.2.0: "ssh-run returns AGENT_BUSY error if another command   *)
(* is already running on the same session".                                *)
(***************************************************************************)
CONSTANT Callers

VARIABLES foreground, background

slotVars == <<foreground, background>>

SlotInit == foreground = {} /\ background = {}

SlotFree == foreground = {} /\ background = {}

Take(c) == SlotFree /\ foreground' = {c} /\ UNCHANGED background

TakeDetached(c) == SlotFree /\ background' = {c} /\ UNCHANGED foreground

Park(c) == foreground = {c} /\ foreground' = {} /\ background' = {c}

Release(c) == foreground = {c} /\ foreground' = {} /\ UNCHANGED background

Settle(c) == background = {c} /\ background' = {} /\ UNCHANGED foreground

SlotNext ==
  \E c \in Callers : Take(c) \/ TakeDetached(c) \/ Park(c) \/ Release(c) \/ Settle(c)

SlotSpec == SlotInit /\ [][SlotNext]_slotVars
=============================================================================
