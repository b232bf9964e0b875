---------------------------- MODULE ScriptEngine ----------------------------
(***************************************************************************)
(* One ScriptEngine object (script_engine.h, script_engine.cpp) with the   *)
(* threads that use it.  Producer threads call ExecGafq; the main thread   *)
(* runs Init, registers send_data (game.cpp, init_gafq_func) and then      *)
(* sleeps and calls LoopExecute forever.  They share wait_execute_list,    *)
(* guarded by mtx_, and the counters count (unguarded) and count2          *)
(* (guarded).  The scripts' stack, which only the main thread uses, is     *)
(* represented by its height.                                              *)
(*                                                                         *)
(* An item is what ExecGafq allocates: the fd, data and errinfo it carries *)
(* are opaque here and stand behind its identity (the thread that made it  *)
(* and the number of the call); its msg is the action the message names,   *)
(* or NullMsg for a null pointer.                                          *)
(***************************************************************************)
EXTENDS Naturals, Sequences, FiniteSets

CONSTANTS
    Producers,   \* the threads that call ExecGafq
    Careful,     \* those that always pass a message and never a script text
    Actions,     \* the values of msg->action
    Contents,    \* the values of ExecGafq's argument gafq_content
    Outcomes,    \* how a script function may end, see OutcomeKinds
    NullMsg,     \* a null msg pointer
    MaxCalls     \* bound: how many calls of ExecGafq a behaviour makes

\* gafq_pcall returns 0; an error with an error object; an error with nil.
OutcomeKinds == {"ok", "error", "nil_error"}

ASSUME ProducersAssumption == {"main", "none"} \cap Producers = {}
ASSUME CarefulAssumption == Careful \subseteq Producers
ASSUME ContentsAssumption == "" \in Contents
ASSUME OutcomesAssumption == Outcomes \subseteq OutcomeKinds
ASSUME NullMsgAssumption == NullMsg \notin Actions
ASSUME MaxCallsAssumption == MaxCalls \in Nat

VARIABLES
    mtx_,               \* the thread that holds the mutex, or "none"
    wait_execute_list,  \* the shared queue
    count,              \* incremented after the unlock
    count2,             \* incremented under the lock
    pc,                 \* pc[p]: where producer p is in ExecGafq
    gt_ptr,             \* gt_ptr[p]: the item p's call has built
    loaded,             \* loaded[p]: the value of count that p has read
    calls,              \* number of calls of ExecGafq so far
    mpc,                \* where the main thread is
    temp_execute_list,  \* LoopExecute's local copy of the queue
    i,                  \* LoopExecute's index into it (from 1)
    globals,            \* the names bound to functions in the script state
    top,                \* height of the script stack
    executed,           \* history: the items LoopExecute has gone through
    alive               \* the process has not crashed

producerVars == <<count, count2, pc, gt_ptr, loaded, calls>>
scriptVars == <<globals, top, executed>>
loopVars == <<mpc, temp_execute_list, i>>
vars == <<mtx_, wait_execute_list, producerVars, loopVars, scriptVars, alive>>

Item == [from : Producers, call : 0 .. MaxCalls, gafq_content : Contents,
         msg : Actions \cup {NullMsg}]

\* What gt_ptr[p] is before p's first call.
NoItem(p) == [from |-> p, call |-> 0, gafq_content |-> "", msg |-> NullMsg]

\* The names script.gafq defines when it runs to its end.
ScriptGlobals == {"dump", "update_self", "start_action"}

Init ==
    /\ mtx_ = "none"
    /\ wait_execute_list = <<>>
    /\ count = 0
    /\ count2 = 0
    /\ pc = [p \in Producers |-> "idle"]
    /\ gt_ptr = [p \in Producers |-> NoItem(p)]
    /\ loaded = [p \in Producers |-> 0]
    /\ calls = 0
    /\ mpc = "start"
    /\ temp_execute_list = <<>>
    /\ i = 1
    /\ globals = {}
    /\ top = 0
    /\ executed = <<>>
    /\ alive = TRUE

-----------------------------------------------------------------------------
(* ExecGafq, called by producer p.                                         *)

\* Mutant: the test of gafq_content is inverted.
NewItemInverted(p, content, msg) ==
    [from |-> p, call |-> calls + 1, gafq_content |-> content,
     msg |-> IF content = "" THEN NullMsg ELSE msg]

\* A non-empty gafq_content makes the call drop its msg argument.
NewItem(p, content, msg) ==
    [from |-> p, call |-> calls + 1, gafq_content |-> content,
     msg |-> IF content # "" THEN NullMsg ELSE msg]

\* Both arguments may be left out: gafq_content is then empty and msg null.
BuildItem(p) ==
    /\ pc[p] = "idle"
    /\ calls < MaxCalls
    /\ \E content \in Contents, msg \in Actions \cup {NullMsg} :
           /\ p \in Careful => content = "" /\ msg # NullMsg
           /\ gt_ptr' = [gt_ptr EXCEPT ![p] = NewItem(p, content, msg)]
    /\ calls' = calls + 1
    /\ pc' = [pc EXCEPT ![p] = "lock"]
    /\ UNCHANGED <<mtx_, wait_execute_list, count, count2, loaded>>

\* Mutant: ExecGafq does not wait for the mutex.
LockForPushUnguarded(p) ==
    /\ pc[p] = "lock"
    /\ mtx_' = p
    /\ pc' = [pc EXCEPT ![p] = "push"]
    /\ UNCHANGED <<wait_execute_list, count, count2, gt_ptr, loaded, calls>>

LockForPush(p) ==
    /\ pc[p] = "lock"
    /\ mtx_ = "none"
    /\ mtx_' = p
    /\ pc' = [pc EXCEPT ![p] = "push"]
    /\ UNCHANGED <<wait_execute_list, count, count2, gt_ptr, loaded, calls>>

\* Mutant: the item is queued at the front.
PushItemAtFront(p) ==
    /\ pc[p] = "push"
    /\ wait_execute_list' = <<gt_ptr[p]>> \o wait_execute_list
    /\ pc' = [pc EXCEPT ![p] = "unlock"]
    /\ UNCHANGED <<mtx_, count, count2, gt_ptr, loaded, calls>>

PushItem(p) ==
    /\ pc[p] = "push"
    /\ wait_execute_list' = Append(wait_execute_list, gt_ptr[p])
    /\ pc' = [pc EXCEPT ![p] = "unlock"]
    /\ UNCHANGED <<mtx_, count, count2, gt_ptr, loaded, calls>>

\* Mutant: the increment of count2 is missing.
CountAndUnlockUncounted(p) ==
    /\ pc[p] = "unlock"
    /\ mtx_' = "none"
    /\ pc' = [pc EXCEPT ![p] = "load"]
    /\ UNCHANGED <<wait_execute_list, count, count2, gt_ptr, loaded, calls>>

CountAndUnlock(p) ==
    /\ pc[p] = "unlock"
    /\ count2' = count2 + 1
    /\ mtx_' = "none"
    /\ pc' = [pc EXCEPT ![p] = "load"]
    /\ UNCHANGED <<wait_execute_list, count, gt_ptr, loaded, calls>>

\* Mutant: the new value of count is computed from count2.
LoadCountOfCount2(p) ==
    /\ pc[p] = "load"
    /\ loaded' = [loaded EXCEPT ![p] = count2]
    /\ pc' = [pc EXCEPT ![p] = "store"]
    /\ UNCHANGED <<mtx_, wait_execute_list, count, count2, gt_ptr, calls>>

\* count = count + 1 outside the lock: a load and a store, which another
\* producer's load and store may come between.
LoadCount(p) ==
    /\ pc[p] = "load"
    /\ loaded' = [loaded EXCEPT ![p] = count]
    /\ pc' = [pc EXCEPT ![p] = "store"]
    /\ UNCHANGED <<mtx_, wait_execute_list, count, count2, gt_ptr, calls>>

StoreCount(p) ==
    /\ pc[p] = "store"
    /\ count' = loaded[p] + 1
    /\ pc' = [pc EXCEPT ![p] = "idle"]
    /\ UNCHANGED <<mtx_, wait_execute_list, count2, gt_ptr, loaded, calls>>

\* A call that has begun.
FinishCall(p) ==
    \/ LockForPush(p) \/ PushItem(p) \/ CountAndUnlock(p)
    \/ LoadCount(p) \/ StoreCount(p)

ExecGafq(p) ==
    /\ BuildItem(p) \/ FinishCall(p)
    /\ UNCHANGED <<loopVars, scriptVars, alive>>

-----------------------------------------------------------------------------
(* The main thread.                                                        *)

\* ScriptEngine::Init.  gafqL_dofile leaves an error message on the stack if
\* it fails, and its result is not looked at.  The table pushed next is then
\* called as if it were a function: gafq_pcall replaces it by an error
\* message, which stays.
InitScript(fileRuns) ==
    /\ mpc = "start"
    /\ globals' = (IF fileRuns THEN ScriptGlobals ELSE {}) \cup {"gafq_func3"}
    /\ top' = (IF fileRuns THEN 0 ELSE 1) + 1
    /\ mpc' = "register"
    /\ UNCHANGED <<mtx_, wait_execute_list, temp_execute_list, i, executed>>

RegisterSendData ==
    /\ mpc = "register"
    /\ globals' = globals \cup {"send_data"}
    /\ mpc' = "sleep"
    /\ UNCHANGED <<mtx_, wait_execute_list, temp_execute_list, i, top,
                   executed>>

WakeUp ==
    /\ mpc = "sleep"
    /\ mpc' = "lock"
    /\ UNCHANGED <<mtx_, wait_execute_list, temp_execute_list, i, scriptVars>>

\* Mutant: LoopExecute does not wait for the mutex.
LockForCopyUnguarded ==
    /\ mpc = "lock"
    /\ mtx_' = "main"
    /\ mpc' = "copy"
    /\ UNCHANGED <<wait_execute_list, temp_execute_list, i, scriptVars>>

LockForCopy ==
    /\ mpc = "lock"
    /\ mtx_ = "none"
    /\ mtx_' = "main"
    /\ mpc' = "copy"
    /\ UNCHANGED <<wait_execute_list, temp_execute_list, i, scriptVars>>

CopyList ==
    /\ mpc = "copy"
    /\ temp_execute_list' = wait_execute_list
    /\ mpc' = "clear"
    /\ UNCHANGED <<mtx_, wait_execute_list, i, scriptVars>>

\* Mutant: the queue is not cleared.
ClearAndUnlockKeeping ==
    /\ mpc = "clear"
    /\ mtx_' = "none"
    /\ i' = 1
    /\ mpc' = "exec"
    /\ UNCHANGED <<wait_execute_list, temp_execute_list, scriptVars>>

\* Mutant: the index into the copy starts before its first element.
ClearAndUnlockFromZero ==
    /\ mpc = "clear"
    /\ wait_execute_list' = <<>>
    /\ mtx_' = "none"
    /\ i' = 0
    /\ mpc' = "exec"
    /\ UNCHANGED <<temp_execute_list, scriptVars>>

ClearAndUnlock ==
    /\ mpc = "clear"
    /\ wait_execute_list' = <<>>
    /\ mtx_' = "none"
    /\ i' = 1
    /\ mpc' = "exec"
    /\ UNCHANGED <<temp_execute_list, scriptVars>>

\* Mutant: error objects are never popped.
CallFunctionLeaking(outcome) ==
    /\ mpc = "exec"
    /\ i <= Len(temp_execute_list)
    /\ temp_execute_list[i].msg # NullMsg
    /\ temp_execute_list[i].msg \in globals
    /\ top' = IF outcome # "ok" THEN top + 1 ELSE top
    /\ executed' = Append(executed, temp_execute_list[i])
    /\ i' = i + 1
    /\ UNCHANGED <<mtx_, wait_execute_list, mpc, temp_execute_list, globals>>

\* Mutant: an error ends the batch.
CallFunctionBreaking(outcome) ==
    /\ mpc = "exec"
    /\ i <= Len(temp_execute_list)
    /\ temp_execute_list[i].msg # NullMsg
    /\ temp_execute_list[i].msg \in globals
    /\ top' = IF outcome = "nil_error" THEN top + 1 ELSE top
    /\ executed' = Append(executed, temp_execute_list[i])
    /\ i' = IF outcome = "ok" THEN i + 1 ELSE Len(temp_execute_list) + 1
    /\ UNCHANGED <<mtx_, wait_execute_list, mpc, temp_execute_list, globals>>

\* One iteration of the second loop of LoopExecute, on an item with a
\* message: the function is looked up and called with the fd and the data.
\* An error object is popped unless it is nil.
CallFunction(outcome) ==
    /\ mpc = "exec"
    /\ i <= Len(temp_execute_list)
    /\ temp_execute_list[i].msg # NullMsg
    /\ temp_execute_list[i].msg \in globals
    /\ top' = IF outcome = "nil_error" THEN top + 1 ELSE top
    /\ executed' = Append(executed, temp_execute_list[i])
    /\ i' = i + 1
    /\ UNCHANGED <<mtx_, wait_execute_list, mpc, temp_execute_list, globals>>

\* The same, when the name is not bound to a function: what gafq_getglobal
\* pushed is reported and never popped.
ReportNoFunction ==
    /\ mpc = "exec"
    /\ i <= Len(temp_execute_list)
    /\ temp_execute_list[i].msg # NullMsg
    /\ temp_execute_list[i].msg \notin globals
    /\ top' = top + 1
    /\ executed' = Append(executed, temp_execute_list[i])
    /\ i' = i + 1
    /\ UNCHANGED <<mtx_, wait_execute_list, mpc, temp_execute_list, globals>>

\* The same, when the item has no message: reading msg->action dereferences
\* a null pointer and the process dies.
ReadNullMsg ==
    /\ mpc = "exec"
    /\ i <= Len(temp_execute_list)
    /\ temp_execute_list[i].msg = NullMsg
    /\ alive' = FALSE
    /\ UNCHANGED <<mtx_, wait_execute_list, loopVars, scriptVars>>

EndLoop ==
    /\ mpc = "exec"
    /\ i > Len(temp_execute_list)
    /\ temp_execute_list' = <<>>
    /\ mpc' = "sleep"
    /\ UNCHANGED <<mtx_, wait_execute_list, i, scriptVars>>

LoopExecute ==
    \/ LockForCopy \/ CopyList \/ ClearAndUnlock
    \/ \E outcome \in Outcomes : CallFunction(outcome)
    \/ ReportNoFunction
    \/ EndLoop

Main ==
    /\ \/ \E fileRuns \in BOOLEAN : InitScript(fileRuns)
       \/ RegisterSendData
       \/ WakeUp
       \/ LoopExecute
    /\ UNCHANGED <<producerVars, alive>>

Crash ==
    /\ ReadNullMsg
    /\ UNCHANGED producerVars

-----------------------------------------------------------------------------
Next ==
    /\ alive
    /\ \/ \E p \in Producers : ExecGafq(p)
       \/ Main
       \/ Crash

Spec == Init /\ [][Next]_vars

(***************************************************************************)
(* The scheduler runs every thread that can run: a call of ExecGafq that   *)
(* has begun goes on, sleep_for returns, and LoopExecute and the scripts   *)
(* (which have no loops of their own) go on.  A thread is not obliged to   *)
(* call ExecGafq.                                                          *)
(***************************************************************************)
Fairness ==
    /\ WF_vars(alive /\ Main)
    /\ \A p \in Producers : WF_vars(alive /\ pc[p] # "idle" /\ ExecGafq(p))

FairSpec == Spec /\ Fairness

-----------------------------------------------------------------------------
(* Properties.                                                             *)

TypeOK ==
    /\ mtx_ \in Producers \cup {"main", "none"}
    /\ wait_execute_list \in Seq(Item)
    /\ count \in Nat
    /\ count2 \in Nat
    /\ pc \in [Producers -> {"idle", "lock", "push", "unlock", "load", "store"}]
    /\ gt_ptr \in [Producers -> Item]
    /\ loaded \in [Producers -> Nat]
    /\ calls \in 0 .. MaxCalls
    /\ mpc \in {"start", "register", "sleep", "lock", "copy", "clear", "exec"}
    /\ temp_execute_list \in Seq(Item)
    /\ i \in Nat \ {0}
    /\ globals \in SUBSET (ScriptGlobals \cup {"gafq_func3", "send_data"})
    /\ top \in Nat
    /\ executed \in Seq(Item)
    /\ alive \in BOOLEAN

\* The part of LoopExecute's copy that it has not gone through yet.  Until the
\* queue is cleared the copy only duplicates it.
Taken ==
    IF mpc = "exec" THEN SubSeq(temp_execute_list, i, Len(temp_execute_list))
                    ELSE <<>>

\* Everything ExecGafq has queued and LoopExecute has not gone through.
Pending == Taken \o wait_execute_list

\* Everything ExecGafq has ever queued, in queue order.
Accepted == executed \o Pending

\* The items of one thread are gone through in the order of its calls, none of
\* them twice, whatever the other threads and the batches of LoopExecute do in
\* between (ExecGafq's push_back, LoopExecute's copy and clear).
CallOrder ==
    \A a, b \in 1 .. Len(Accepted) :
        a < b /\ Accepted[a].from = Accepted[b].from
            => Accepted[a].call < Accepted[b].call

\* count2 is the number of items ever queued, except while the thread that has
\* just pushed one still holds the lock: no push is lost to LoopExecute's
\* clear(), and no increment to another increment.
Count2Exact ==
    Len(Accepted) = count2 + IF \E p \in Producers : pc[p] = "unlock"
                             THEN 1 ELSE 0

\* count never runs ahead of count2: a call increments it only after its item
\* is queued, and lost updates can only make it smaller.
CountNeverAhead == count <= count2

\* The mutex is held by the thread that is between its lock() and unlock().
LockInv ==
    /\ \A p \in Producers : pc[p] \in {"push", "unlock"} <=> mtx_ = p
    /\ mpc \in {"copy", "clear"} <=> mtx_ = "main"

\* The item of a call that has not queued it yet is newer than everything that
\* its thread has queued.
NewestInv ==
    /\ \A p \in Producers :
           /\ gt_ptr[p].from = p
           /\ gt_ptr[p].call <= calls
    /\ \A k \in 1 .. Len(Accepted) :
           /\ Accepted[k].call <= calls
           /\ pc[Accepted[k].from] \in {"lock", "push"}
                  => Accepted[k].call < gt_ptr[Accepted[k].from].call

\* LoopExecute's copy is the queue itself until clear(): nothing can be queued
\* meanwhile.
CopyInv == mpc = "clear" => temp_execute_list = wait_execute_list

\* The threads that have still to increment count for an item that is queued.
Late == {p \in Producers : pc[p] \in {"load", "store"}}

\* Even if every late thread adds one to count, or to what it has read of it,
\* count2 is not passed.
CountInv ==
    /\ IsFiniteSet(Late)
    /\ count + Cardinality(Late) <= count2
    /\ \A p \in Producers : pc[p] = "store" => loaded[p] + Cardinality(Late) <= count2

\* An item without a message is none of a careful thread, and the process dies
\* only on an item without a message.
Justified(item) == item.msg = NullMsg => item.from \notin Careful
MsgInv ==
    /\ \A p \in Producers : pc[p] \in {"lock", "push"} => Justified(gt_ptr[p])
    /\ \A k \in 1 .. Len(wait_execute_list) : Justified(wait_execute_list[k])
    /\ \A k \in 1 .. Len(temp_execute_list) : Justified(temp_execute_list[k])
    /\ ~alive => i <= Len(temp_execute_list) /\ temp_execute_list[i].msg = NullMsg

\* The inductive invariant behind the properties above.
EngineInv ==
    /\ TypeOK
    /\ LockInv
    /\ CopyInv
    /\ NewestInv
    /\ CallOrder
    /\ Count2Exact
    /\ CountInv
    /\ MsgInv

\* With one producer thread, as in game.cpp, the unguarded counter is exact
\* between calls.
CountsAgree == (\A p \in Producers : pc[p] = "idle") => count = count2

\* With scripts that loaded and raise no nil errors, no iteration of
\* LoopExecute changes the height of the script stack: it keeps the one slot
\* that Init left there.
StackBalanced == "start_action" \in globals => top = 1

\* LoopExecute reads msg->action of a null pointer when an item was made with a
\* script text or with neither argument.  A thread that passes a message and no
\* text, as the server thread does (game.cpp:299), never makes one, whatever
\* items of other threads share its batch.
CarefulNeverKill == ~alive => temp_execute_list[i].from \notin Careful

\* The detailed engine implements the mailbox: every step is a Post, a Handle
\* or invisible, and (under Fairness) the queue keeps being served.
MB == INSTANCE Mailbox WITH pending <- Pending, handled <- executed
ImplementsSafeMailbox == MB!SafeSpec
ImplementsMailbox == MB!Spec

=============================================================================
