-------------------------- MODULE StoreAndForward --------------------------
(***************************************************************************)
(* What a store-and-forward queue promises its producers, with no tasks,   *)
(* tables or messages: an accepted item stays in hand until it is settled. *)
(* Settled means delivered, set aside for an operator, or given up by one  *)
(* of the queue's stated limits or failures.  Items may be settled while   *)
(* still in hand (a delivery whose answer was lost), and any number of     *)
(* items may move in one step.                                             *)
(***************************************************************************)
VARIABLES
    accepted,   \* the items the queue has taken over
    inHand,     \* the items it still holds and will still work on
    settled     \* the items whose fate is decided

Init == accepted = {} /\ inHand = {} /\ settled = {}

Move ==
    /\ accepted \subseteq accepted'                      \* no item is forgotten,
    /\ settled \subseteq settled'                        \* no fate is taken back,
    /\ inHand' \subseteq inHand \cup (accepted' \ accepted) \* nothing let go returns,
    /\ accepted' \subseteq inHand' \cup settled'         \* nothing vanishes.

Spec == Init /\ [][Move]_<<accepted, inHand, settled>>
=============================================================================
