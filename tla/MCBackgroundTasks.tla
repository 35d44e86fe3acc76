------------------------- MODULE MCBackgroundTasks -------------------------
(* Instances of BackgroundTasks for TLC.                                   *)
EXTENDS BackgroundTasks, TLC

CONSTANTS index, validate

\* The periodic indexing has the priority of the views' tasks.
Prio == index :> 2 @@ validate :> 2
Now == index :> 0
Later == index :> 1

\* One failure of the indexing, and enough of the validation to give it up.
Failures == index :> 1 @@ validate :> 2
=============================================================================
