------------------------------ MODULE Mailbox ------------------------------
(***************************************************************************)
(* What ScriptEngine promises its callers, without threads, locks or       *)
(* batches: an operation that is posted joins a FIFO queue, and the        *)
(* operation at its head is the next one to be handled.  Nothing is lost,  *)
(* repeated or overtaken.  script_engine.cpp:68 says it in a comment: "put *)
(* this operation in the queue; the next loop takes it out and runs it".   *)
(***************************************************************************)
EXTENDS Sequences

CONSTANT Item    \* what can be posted

VARIABLES
    pending,     \* posted and not yet handled, oldest first
    handled      \* handled, in the order in which they were handled

vars == <<pending, handled>>

Init ==
    /\ pending = <<>>
    /\ handled = <<>>

Post(m) ==
    /\ pending' = Append(pending, m)
    /\ UNCHANGED handled

Handle ==
    /\ pending # <<>>
    /\ handled' = Append(handled, Head(pending))
    /\ pending' = Tail(pending)

Next ==
    \/ \E m \in Item : Post(m)
    \/ Handle

SafeSpec == Init /\ [][Next]_vars

\* The queue keeps being served for as long as it is not empty.
Spec == SafeSpec /\ WF_vars(Handle)
=============================================================================
