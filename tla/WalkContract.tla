---------------------------- MODULE WalkContract ----------------------------
(***************************************************************************)
(* What a caller of gocodewalker may rely on, with the goroutines, the     *)
(* semaphore and the tree left out: Start puts each file on the channel at *)
(* most once for each root that reaches it, closes the channel once and    *)
(* says so through Walking() only afterwards; as long as nothing has       *)
(* failed only expected files are put on it, and all of them before it is  *)
(* closed.                                                                 *)
(***************************************************************************)
EXTENDS Sequences, Integers

CONSTANTS
  File,      \* the files, once for each root that reaches them
  Expected   \* those of them that are due

VARIABLES
  log,      \* the files put on the channel, in order
  shut,     \* the channel is closed
  clean,    \* no error, no termination so far
  walking   \* what Walking() answers

contractVars == <<log, shut, clean, walking>>

Logged == {log[i] : i \in 1..Len(log)}

Init == log = <<>> /\ shut = FALSE /\ clean = TRUE /\ walking = FALSE

\* Something may go wrong with any step, and is never forgotten.
Degrades == clean' \in BOOLEAN /\ (clean' => clean)

Begin == ~shut /\ ~walking /\ walking' = TRUE /\ UNCHANGED <<log, shut, clean>>

Publish == /\ walking /\ ~shut
           /\ \E f \in File \ Logged :
                /\ log' = Append(log, f)
                /\ clean' => f \in Expected
           /\ Degrades
           /\ UNCHANGED <<shut, walking>>

GoWrong == Degrades /\ UNCHANGED <<log, shut, walking>>

Shut == /\ walking /\ ~shut
        /\ clean => Logged = Expected
        /\ shut' = TRUE
        /\ UNCHANGED <<log, clean, walking>>

End == shut /\ walking /\ walking' = FALSE /\ UNCHANGED <<log, shut, clean>>

Next == Begin \/ Publish \/ GoWrong \/ Shut \/ End

Spec == Init /\ [][Next]_contractVars
=============================================================================
