--------------------------- MODULE MCNotifications ---------------------------
(* Small instances of Notifications. *)
EXTENDS Notifications, TLC
\* All notifications ask for the first template, for one recipient.
SameTemplate == [n \in Notifications |-> CHOOSE t \in Templates : TRUE]
SameRecipient == [n \in Notifications |-> CHOOSE r \in Recipients : TRUE]
Symm == Permutations(Workers) \cup Permutations(Notifications)
=============================================================================
