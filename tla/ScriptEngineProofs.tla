------------------------- MODULE ScriptEngineProofs -------------------------
(***************************************************************************)
(* Proofs about ScriptEngine, for any set of producer threads, any actions *)
(* and contents, and any number of calls.                                  *)
(***************************************************************************)
EXTENDS ScriptEngine, SequenceTheorems, FiniteSetTheorems, TLAPS

(***************************************************************************)
(* Every action keeps the types of the state: the queue, LoopExecute's     *)
(* copy of it and the history hold items only, and each thread is at one   *)
(* of its program points.                                                  *)
(***************************************************************************)

\* The engine starts with every variable in its type.
LEMMA TypeInit == Init => TypeOK
<1> SUFFICES ASSUME Init PROVE TypeOK
  OBVIOUS
<1>1. \A p \in Producers : NoItem(p) \in Item
  <2>1. 0 \in 0 .. MaxCalls
    BY MaxCallsAssumption
  <2>2. "" \in Contents
    BY ContentsAssumption
  <2>3. QED BY <2>1, <2>2 DEF NoItem, Item
<1>2. gt_ptr \in [Producers -> Item]
  BY <1>1 DEF Init
<1>3. <<>> \in Seq(Item)
  BY EmptySeq
<1>4. QED
  BY <1>2, <1>3, MaxCallsAssumption DEF Init, TypeOK

\* Every step of ExecGafq, of main and of LoopExecute keeps the types.
LEMMA TypeStep == TypeOK /\ [Next]_vars => TypeOK'
<1> SUFFICES ASSUME TypeOK, [Next]_vars PROVE TypeOK'
  OBVIOUS
<1> USE DEF TypeOK, producerVars, scriptVars, loopVars
<1>1. ASSUME NEW p \in Producers, BuildItem(p),
             UNCHANGED <<loopVars, scriptVars, alive>>
      PROVE  TypeOK'
  <2>1. PICK content \in Contents, msg \in Actions \cup {NullMsg} :
            gt_ptr' = [gt_ptr EXCEPT ![p] = NewItem(p, content, msg)]
    BY <1>1 DEF BuildItem
  <2>2. calls' \in 0 .. MaxCalls /\ calls' = calls + 1
    <3>1. calls < MaxCalls /\ calls' = calls + 1
      BY <1>1 DEF BuildItem
    <3>2. QED BY <3>1, MaxCallsAssumption
  <2>3. NewItem(p, content, msg) \in Item
    BY <2>2, ContentsAssumption DEF NewItem, Item
  <2>4. gt_ptr' \in [Producers -> Item]
    BY <2>1, <2>3
  <2>5. QED BY <1>1, <2>2, <2>4 DEF BuildItem
<1>2. ASSUME NEW p \in Producers, FinishCall(p),
             UNCHANGED <<loopVars, scriptVars, alive>>
      PROVE  TypeOK'
  <2>1. CASE LockForPush(p)
    BY <1>2, <2>1 DEF LockForPush
  <2>2. CASE PushItem(p)
    <3>1. gt_ptr[p] \in Item
      OBVIOUS
    <3>2. wait_execute_list' \in Seq(Item)
      BY <2>2, <3>1 DEF PushItem
    <3>3. QED BY <1>2, <2>2, <3>2 DEF PushItem
  <2>3. CASE CountAndUnlock(p)
    BY <1>2, <2>3 DEF CountAndUnlock
  <2>4. CASE LoadCount(p)
    BY <1>2, <2>4 DEF LoadCount
  <2>5. CASE StoreCount(p)
    BY <1>2, <2>5 DEF StoreCount
  <2>6. QED BY <1>2, <2>1, <2>2, <2>3, <2>4, <2>5 DEF FinishCall
<1>3. ASSUME NEW fileRuns \in BOOLEAN, InitScript(fileRuns),
             UNCHANGED <<producerVars, alive>>
      PROVE  TypeOK'
  BY <1>3 DEF InitScript, ScriptGlobals
<1>4. ASSUME RegisterSendData, UNCHANGED <<producerVars, alive>>
      PROVE  TypeOK'
  BY <1>4 DEF RegisterSendData, ScriptGlobals
<1>5. ASSUME WakeUp, UNCHANGED <<producerVars, alive>>
      PROVE  TypeOK'
  BY <1>5 DEF WakeUp
<1>6. ASSUME LoopExecute, UNCHANGED <<producerVars, alive>>
      PROVE  TypeOK'
  <2>1. CASE LockForCopy
    BY <1>6, <2>1 DEF LockForCopy
  <2>2. CASE CopyList
    BY <1>6, <2>2 DEF CopyList
  <2>3. CASE ClearAndUnlock
    BY <1>6, <2>3 DEF ClearAndUnlock
  <2>4. ASSUME NEW outcome \in Outcomes, CallFunction(outcome)
        PROVE  TypeOK'
    <3>1. temp_execute_list[i] \in Item
      BY <2>4 DEF CallFunction
    <3>2. executed' \in Seq(Item)
      BY <2>4, <3>1 DEF CallFunction
    <3>3. QED BY <1>6, <2>4, <3>2 DEF CallFunction
  <2>5. CASE ReportNoFunction
    <3>1. temp_execute_list[i] \in Item
      BY <2>5 DEF ReportNoFunction
    <3>2. executed' \in Seq(Item)
      BY <2>5, <3>1 DEF ReportNoFunction
    <3>3. QED BY <1>6, <2>5, <3>2 DEF ReportNoFunction
  <2>6. CASE EndLoop
    BY <1>6, <2>6 DEF EndLoop
  <2>7. QED BY <1>6, <2>1, <2>2, <2>3, <2>4, <2>5, <2>6 DEF LoopExecute
<1>7. ASSUME Crash PROVE TypeOK'
  BY <1>7 DEF Crash, ReadNullMsg
<1>8. CASE UNCHANGED vars
  BY <1>8 DEF vars
<1>9. QED
  BY <1>1, <1>2, <1>3, <1>4, <1>5, <1>6, <1>7, <1>8 DEF Next, ExecGafq, Main

\* Every variable of the engine keeps its type, whatever the threads do; among
\* other things, LoopExecute's index never leaves the positive numbers and the
\* queue never holds anything but items that ExecGafq built.
THEOREM TypeCorrect == Spec => []TypeOK
BY TypeInit, TypeStep, PTL DEF Spec

-----------------------------------------------------------------------------
(* Facts about sequences.                                                  *)

\* Appending to the second part of a concatenation appends to the whole.
LEMMA ConcatAppend ==
  ASSUME NEW S, NEW s \in Seq(S), NEW t \in Seq(S), NEW e \in S
  PROVE  s \o Append(t, e) = Append(s \o t, e)
OBVIOUS

\* Moving the head of the second part to the end of the first changes nothing.
LEMMA ConcatShift ==
  ASSUME NEW S, NEW s \in Seq(S), NEW t \in Seq(S), t # <<>>
  PROVE  Append(s, Head(t)) \o Tail(t) = s \o t
<1>1. Head(t) \in S /\ Tail(t) \in Seq(S) /\ Len(Tail(t)) = Len(t) - 1
      /\ Len(t) \in Nat \ {0}
  BY HeadTailProperties, EmptySeq
<1>2. QED BY <1>1

\* Head and tail of a concatenation are those of its first part.
LEMMA ConcatHeadTail ==
  ASSUME NEW S, NEW s \in Seq(S), NEW t \in Seq(S), s # <<>>
  PROVE  /\ s \o t # <<>>
         /\ Head(s \o t) = Head(s)
         /\ Tail(s \o t) = Tail(s) \o t
<1>1. Len(s) \in Nat \ {0}
  BY EmptySeq
<1>2. QED BY <1>1

\* What is left of a list from position k is its k-th element and the rest.
LEMMA RestFrom ==
  ASSUME NEW S, NEW s \in Seq(S), NEW k \in 1 .. Len(s)
  PROVE  /\ SubSeq(s, k, Len(s)) \in Seq(S)
         /\ SubSeq(s, k, Len(s)) # <<>>
         /\ Head(SubSeq(s, k, Len(s))) = s[k]
         /\ Tail(SubSeq(s, k, Len(s))) = SubSeq(s, k + 1, Len(s))
<1>1. Len(s) \in Nat
  OBVIOUS
<1>2. \A j \in k .. Len(s) : s[j] \in S
  BY <1>1
<1>3. /\ SubSeq(s, k, Len(s)) \in Seq(S)
      /\ Len(SubSeq(s, k, Len(s))) = Len(s) - k + 1
  BY <1>1, <1>2, SubSeqProperties
<1>4. SubSeq(s, k, Len(s)) # <<>>
  BY <1>1, <1>3
<1>5. QED BY <1>1, <1>3, <1>4, HeadTailOfSubSeq

-----------------------------------------------------------------------------
(* The mutex and LoopExecute's copy.                                       *)

\* Two threads are never between lock() and unlock() together, and so the copy
\* that LoopExecute took is still the queue when it clears the queue.
LEMMA LockStep ==
  TypeOK /\ LockInv /\ CopyInv /\ [Next]_vars => LockInv' /\ CopyInv'
<1> SUFFICES ASSUME TypeOK, LockInv, CopyInv, [Next]_vars
             PROVE  LockInv' /\ CopyInv'
  OBVIOUS
<1> USE ProducersAssumption DEF TypeOK, LockInv, CopyInv, producerVars,
        scriptVars, loopVars
<1>1. ASSUME NEW p \in Producers, ExecGafq(p)
      PROVE  LockInv' /\ CopyInv'
  <2>1. CASE BuildItem(p)
    BY <1>1, <2>1 DEF ExecGafq, BuildItem
  <2>2. CASE LockForPush(p)
    BY <1>1, <2>2 DEF ExecGafq, LockForPush
  <2>3. CASE PushItem(p)
    BY <1>1, <2>3 DEF ExecGafq, PushItem
  <2>4. CASE CountAndUnlock(p)
    BY <1>1, <2>4 DEF ExecGafq, CountAndUnlock
  <2>5. CASE LoadCount(p)
    BY <1>1, <2>5 DEF ExecGafq, LoadCount
  <2>6. CASE StoreCount(p)
    BY <1>1, <2>6 DEF ExecGafq, StoreCount
  <2>7. QED
    BY <1>1, <2>1, <2>2, <2>3, <2>4, <2>5, <2>6 DEF ExecGafq, FinishCall
<1>2. CASE Main
  <2>1. ASSUME NEW fileRuns \in BOOLEAN, InitScript(fileRuns)
        PROVE  LockInv' /\ CopyInv'
    BY <1>2, <2>1 DEF Main, InitScript
  <2>2. CASE RegisterSendData
    BY <1>2, <2>2 DEF Main, RegisterSendData
  <2>3. CASE WakeUp
    BY <1>2, <2>3 DEF Main, WakeUp
  <2>4. CASE LockForCopy
    BY <1>2, <2>4 DEF Main, LockForCopy
  <2>5. CASE CopyList
    BY <1>2, <2>5 DEF Main, CopyList
  <2>6. CASE ClearAndUnlock
    BY <1>2, <2>6 DEF Main, ClearAndUnlock
  <2>7. ASSUME NEW outcome \in Outcomes, CallFunction(outcome)
        PROVE  LockInv' /\ CopyInv'
    BY <1>2, <2>7 DEF Main, CallFunction
  <2>8. CASE ReportNoFunction
    BY <1>2, <2>8 DEF Main, ReportNoFunction
  <2>9. CASE EndLoop
    BY <1>2, <2>9 DEF Main, EndLoop
  <2>10. QED
    BY <1>2, <2>1, <2>2, <2>3, <2>4, <2>5, <2>6, <2>7, <2>8, <2>9
       DEF Main, LoopExecute
<1>3. CASE Crash
  BY <1>3 DEF Crash, ReadNullMsg
<1>4. CASE UNCHANGED vars
  BY <1>4 DEF vars
<1>5. QED BY <1>1, <1>2, <1>3, <1>4 DEF Next

-----------------------------------------------------------------------------
(* How a step changes the queue as its users see it.                       *)

\* The parts of the queue are sequences of items.
LEMMA QueueTypes == TypeOK => /\ Taken \in Seq(Item)
                              /\ Pending \in Seq(Item)
                              /\ Accepted \in Seq(Item)
<1> SUFFICES ASSUME TypeOK
             PROVE  /\ Taken \in Seq(Item)
                    /\ Pending \in Seq(Item)
                    /\ Accepted \in Seq(Item)
  OBVIOUS
<1>1. SubSeq(temp_execute_list, i, Len(temp_execute_list)) \in Seq(Item)
  <2>1. temp_execute_list \in Seq(Item) /\ i \in Nat \ {0}
        /\ Len(temp_execute_list) \in Nat
    BY DEF TypeOK
  <2>2. \A k \in i .. Len(temp_execute_list) : temp_execute_list[k] \in Item
    BY <2>1
  <2>3. QED BY <2>1, <2>2, SubSeqProperties
<1>2. Taken \in Seq(Item)
  BY <1>1, EmptySeq DEF Taken
<1>3. Pending \in Seq(Item)
  BY <1>2, ConcatProperties DEF Pending, TypeOK
<1>4. QED BY <1>2, <1>3, ConcatProperties DEF Accepted, TypeOK

\* A step leaves the queue alone, or queues the item of the call that makes
\* it, or goes through the oldest queued item.
PostsItem(p) ==
    /\ PushItem(p)
    /\ Pending' = Append(Pending, gt_ptr[p])
    /\ executed' = executed

HandlesItem ==
    /\ Pending # <<>>
    /\ executed' = Append(executed, Head(Pending))
    /\ Pending' = Tail(Pending)

LeavesQueue == Pending' = Pending /\ executed' = executed

LEMMA QueueStep ==
  ASSUME TypeOK, LockInv, CopyInv, [Next]_vars
  PROVE  \/ LeavesQueue
         \/ \E p \in Producers : PostsItem(p) /\ ExecGafq(p)
         \/ HandlesItem /\ UNCHANGED producerVars
<1> DEFINE Goal == \/ LeavesQueue
                   \/ \E p \in Producers : PostsItem(p) /\ ExecGafq(p)
                   \/ HandlesItem /\ UNCHANGED producerVars
<1> USE DEF producerVars, scriptVars, loopVars
<1>0. /\ Taken \in Seq(Item)
      /\ wait_execute_list \in Seq(Item)
      /\ temp_execute_list \in Seq(Item)
      /\ executed \in Seq(Item)
      /\ i \in Nat \ {0}
      /\ <<>> \in Seq(Item)
  BY QueueTypes, EmptySeq DEF TypeOK
<1>1. ASSUME NEW p \in Producers, ExecGafq(p)
      PROVE  Goal
  <2>1. Taken' = Taken /\ executed' = executed
    BY <1>1 DEF ExecGafq, Taken
  <2>2. CASE PushItem(p)
    <3>1. gt_ptr[p] \in Item
      BY DEF TypeOK
    <3>2. wait_execute_list' = Append(wait_execute_list, gt_ptr[p])
      BY <2>2 DEF PushItem
    <3>3. Pending' = Append(Pending, gt_ptr[p])
      BY <1>0, <2>1, <3>1, <3>2, ConcatAppend DEF Pending
    <3>4. QED BY <1>1, <2>1, <2>2, <3>3 DEF PostsItem
  <2>3. CASE ~PushItem(p)
    <3>1. wait_execute_list' = wait_execute_list
      BY <1>1, <2>3 DEF ExecGafq, FinishCall, BuildItem, LockForPush,
                        CountAndUnlock, LoadCount, StoreCount
    <3>2. QED BY <2>1, <3>1 DEF LeavesQueue, Pending
  <2>4. QED BY <2>2, <2>3
<1>2. CASE Main
  <2>1. ASSUME NEW fileRuns \in BOOLEAN, InitScript(fileRuns)
        PROVE  Goal
    BY <1>2, <2>1 DEF InitScript, LeavesQueue, Pending, Taken
  <2>2. CASE RegisterSendData
    BY <1>2, <2>2 DEF RegisterSendData, LeavesQueue, Pending, Taken
  <2>3. CASE WakeUp
    BY <1>2, <2>3 DEF WakeUp, LeavesQueue, Pending, Taken
  <2>4. CASE LockForCopy
    BY <1>2, <2>4 DEF LockForCopy, LeavesQueue, Pending, Taken
  <2>5. CASE CopyList
    BY <1>2, <2>5 DEF CopyList, LeavesQueue, Pending, Taken
  <2>6. CASE ClearAndUnlock
    <3>1. Pending = <<>> \o wait_execute_list
      BY <2>6 DEF ClearAndUnlock, Pending, Taken
    <3>2. Taken' = SubSeq(temp_execute_list, 1, Len(temp_execute_list))
      BY <2>6 DEF ClearAndUnlock, Taken
    <3>3. Taken' = temp_execute_list
      BY <1>0, <3>2, SubSeqFull
    <3>4. Pending' = temp_execute_list \o <<>>
      BY <2>6, <3>3 DEF ClearAndUnlock, Pending
    <3>5. temp_execute_list = wait_execute_list
      BY <2>6 DEF ClearAndUnlock, CopyInv
    <3>6. Pending' = Pending
      BY <1>0, <3>1, <3>4, <3>5, ConcatEmptySeq
    <3>7. QED BY <2>6, <3>6 DEF ClearAndUnlock, LeavesQueue
  <2>7. ASSUME mpc = "exec", mpc' = mpc,
               i <= Len(temp_execute_list), i' = i + 1,
               executed' = Append(executed, temp_execute_list[i]),
               UNCHANGED <<wait_execute_list, temp_execute_list>>
        PROVE  HandlesItem
    <3>1. i \in 1 .. Len(temp_execute_list)
      BY <1>0, <2>7
    <3>2. /\ Taken # <<>>
          /\ Head(Taken) = temp_execute_list[i]
          /\ Tail(Taken) = SubSeq(temp_execute_list, i + 1,
                                  Len(temp_execute_list))
      BY <1>0, <2>7, <3>1, RestFrom DEF Taken
    <3>3. Taken' = Tail(Taken)
      BY <2>7, <3>2 DEF Taken
    <3>4. /\ Pending # <<>>
          /\ Head(Pending) = Head(Taken)
          /\ Tail(Pending) = Tail(Taken) \o wait_execute_list
      BY <1>0, <3>2, ConcatHeadTail DEF Pending
    <3>5. Pending' = Tail(Pending)
      BY <2>7, <3>3, <3>4 DEF Pending
    <3>6. QED BY <2>7, <3>2, <3>4, <3>5 DEF HandlesItem
  <2>8. ASSUME NEW outcome \in Outcomes, CallFunction(outcome)
        PROVE  Goal
    BY <1>2, <2>7, <2>8 DEF CallFunction, Main
  <2>9. CASE ReportNoFunction
    BY <1>2, <2>7, <2>9 DEF ReportNoFunction, Main
  <2>10. CASE EndLoop
    <3>1. Taken = <<>>
      BY <1>0, <2>10, SubSeqEmpty DEF EndLoop, Taken
    <3>2. Taken' = <<>>
      BY <2>10 DEF EndLoop, Taken
    <3>3. QED BY <2>10, <3>1, <3>2 DEF EndLoop, LeavesQueue, Pending
  <2>11. QED
    BY <1>2, <2>1, <2>2, <2>3, <2>4, <2>5, <2>6, <2>8, <2>9, <2>10
       DEF Main, LoopExecute
<1>3. CASE Crash
  BY <1>3 DEF Crash, ReadNullMsg, LeavesQueue, Pending, Taken
<1>4. CASE UNCHANGED vars
  BY <1>4 DEF vars, LeavesQueue, Pending, Taken
<1>5. QED BY <1>1, <1>2, <1>3, <1>4 DEF Next

-----------------------------------------------------------------------------
(* Refinement: the engine implements the mailbox.                          *)

\* The mutex invariant holds when main() starts.
LEMMA SafetyInit == Init => TypeOK /\ LockInv /\ CopyInv
<1> SUFFICES ASSUME Init PROVE LockInv /\ CopyInv
  BY TypeInit
<1> QED BY ProducersAssumption DEF Init, LockInv, CopyInv

\* The mutex invariant, for every behaviour.
LEMMA LockCorrect == Spec => [](TypeOK /\ LockInv /\ CopyInv)
BY SafetyInit, TypeStep, LockStep, PTL DEF Spec

\* Whatever the threads do, the engine behaves as the mailbox of
\* script_engine.cpp:68: every item that ExecGafq queues is gone through by
\* LoopExecute once, in queue order, and nothing else is.
THEOREM EngineImplementsMailbox == Spec => ImplementsSafeMailbox
<1>1. Init => MB!Init
  <2> SUFFICES ASSUME Init PROVE MB!Init
    OBVIOUS
  <2>1. Taken = <<>> /\ wait_execute_list = <<>> /\ executed = <<>>
    BY DEF Init, Taken
  <2>2. QED BY <2>1, ConcatEmptySeq, EmptySeq DEF MB!Init, Pending
<1>2. TypeOK /\ LockInv /\ CopyInv /\ [Next]_vars => [MB!Next]_(MB!vars)
  <2> SUFFICES ASSUME TypeOK, LockInv, CopyInv, [Next]_vars
               PROVE  [MB!Next]_(MB!vars)
    OBVIOUS
  <2>1. CASE LeavesQueue
    BY <2>1 DEF LeavesQueue, MB!vars
  <2>2. ASSUME NEW p \in Producers, PostsItem(p)
        PROVE  MB!Next
    <3>1. gt_ptr[p] \in Item
      BY DEF TypeOK
    <3>2. QED BY <2>2, <3>1 DEF PostsItem, MB!Next, MB!Post
  <2>3. CASE HandlesItem
    BY <2>3 DEF HandlesItem, MB!Next, MB!Handle
  <2>4. QED BY <2>1, <2>2, <2>3, QueueStep
<1>3. QED
  BY <1>1, <1>2, LockCorrect, PTL
     DEF Spec, ImplementsSafeMailbox, MB!SafeSpec

-----------------------------------------------------------------------------
(* Order and number of the items.                                          *)

\* push_back appends to the list of all items ever queued.
LEMMA AcceptedPush ==
  ASSUME TypeOK, NEW p \in Producers, PushItem(p), ExecGafq(p)
  PROVE  Accepted' = Append(Accepted, gt_ptr[p])
<1>1. Taken' = Taken /\ executed' = executed
  BY DEF ExecGafq, Taken, loopVars, scriptVars
<1>2. wait_execute_list' = Append(wait_execute_list, gt_ptr[p])
  BY DEF PushItem
<1>3. /\ Taken \in Seq(Item) /\ Pending \in Seq(Item)
      /\ wait_execute_list \in Seq(Item) /\ executed \in Seq(Item)
      /\ gt_ptr[p] \in Item
  BY QueueTypes DEF TypeOK
<1>4. Pending' = Append(Pending, gt_ptr[p])
  BY <1>1, <1>2, <1>3, ConcatAppend DEF Pending
<1>5. QED BY <1>1, <1>3, <1>4, ConcatAppend DEF Accepted

\* Every other step leaves that list as it is.
LEMMA AcceptedOther ==
  ASSUME TypeOK, LockInv, CopyInv, [Next]_vars,
         \A p \in Producers : ~PushItem(p)
  PROVE  Accepted' = Accepted
<1>1. CASE LeavesQueue
  BY <1>1 DEF LeavesQueue, Accepted
<1>2. CASE HandlesItem
  <2>1. Pending \in Seq(Item) /\ executed \in Seq(Item)
    BY QueueTypes DEF TypeOK
  <2>2. QED BY <1>2, <2>1, ConcatShift DEF HandlesItem, Accepted
<1>3. QED BY <1>1, <1>2, QueueStep DEF PostsItem

\* How a step that is not a push_back moves the producers.
LEMMA ProducerStep ==
  ASSUME TypeOK, [Next]_vars, \A p \in Producers : ~PushItem(p)
  PROVE  \/ UNCHANGED producerVars
         \/ \E p \in Producers :
               \/ BuildItem(p)
               \/ LockForPush(p)
               \/ CountAndUnlock(p)
               \/ LoadCount(p)
               \/ StoreCount(p)
BY DEF Next, Main, Crash, ExecGafq, FinishCall, vars

\* A step is the push_back of one ExecGafq, or nobody's.
LEMMA PushOrNot ==
  ASSUME TypeOK, [Next]_vars
  PROVE  \/ \E p \in Producers : PushItem(p) /\ ExecGafq(p)
         \/ \A p \in Producers : ~PushItem(p)
<1>1. ASSUME NEW p \in Producers, ExecGafq(p), ~PushItem(p)
      PROVE  \A q \in Producers : ~PushItem(q)
  <2>1. \E v \in {"idle", "lock", "push", "load", "store"} :
            pc' = [pc EXCEPT ![p] = v]
    BY <1>1 DEF ExecGafq, FinishCall, BuildItem, LockForPush, CountAndUnlock,
                LoadCount, StoreCount
  <2>2. \A q \in Producers : ~(pc[q] = "push" /\ pc'[q] = "unlock")
    BY <2>1 DEF TypeOK
  <2>3. QED BY <2>2 DEF PushItem, TypeOK
<1>2. ASSUME pc' = pc
      PROVE  \A q \in Producers : ~PushItem(q)
  BY <1>2 DEF PushItem, TypeOK
<1>3. QED
  BY <1>1, <1>2 DEF Next, Main, Crash, producerVars, vars

\* A new item is newer than all its thread has queued, and stays so until it
\* is queued itself; so each thread's items are queued in increasing order.
LEMMA OrderStep ==
  ASSUME TypeOK, LockInv, CopyInv, NewestInv, CallOrder, [Next]_vars
  PROVE  NewestInv' /\ CallOrder'
<1>0. /\ Accepted \in Seq(Item)
      /\ Len(Accepted) \in Nat
      /\ \A k \in 1 .. Len(Accepted) : Accepted[k] \in Item
  BY QueueTypes
<1>n. /\ calls \in Nat
      /\ \A q \in Producers : gt_ptr[q].call \in Nat
      /\ \A k \in 1 .. Len(Accepted) : /\ Accepted[k].call \in Nat
                                        /\ Accepted[k].from \in Producers
  <2>1. \A x \in Item : x.call \in Nat /\ x.from \in Producers
    BY MaxCallsAssumption DEF Item
  <2>2. QED BY <1>0, <2>1, MaxCallsAssumption DEF TypeOK
<1>1. ASSUME NEW p \in Producers, PushItem(p), ExecGafq(p)
      PROVE  NewestInv' /\ CallOrder'
  <2>1. Accepted' = Append(Accepted, gt_ptr[p]) /\ gt_ptr[p] \in Item
    BY <1>1, AcceptedPush DEF TypeOK
  <2>2. /\ Len(Accepted') = Len(Accepted) + 1
        /\ \A k \in 1 .. Len(Accepted) : Accepted'[k] = Accepted[k]
        /\ Accepted'[Len(Accepted) + 1] = gt_ptr[p]
    BY <1>0, <2>1, AppendProperties
  <2>3. /\ pc[p] = "push"
        /\ pc' = [pc EXCEPT ![p] = "unlock"]
        /\ UNCHANGED <<gt_ptr, calls>>
    BY <1>1 DEF PushItem
  <2>4. NewestInv'
    <3>1. \A q \in Producers : gt_ptr'[q].from = q /\ gt_ptr'[q].call <= calls'
      BY <2>3 DEF NewestInv
    <3>2. \A q \in Producers : pc'[q] \in {"lock", "push"}
                                 => q # p /\ pc[q] \in {"lock", "push"}
      BY <2>3 DEF TypeOK
    <3>3. ASSUME NEW k \in 1 .. Len(Accepted')
          PROVE  /\ Accepted'[k].call <= calls'
                 /\ pc'[Accepted'[k].from] \in {"lock", "push"}
                        => Accepted'[k].call < gt_ptr'[Accepted'[k].from].call
      <4>1. CASE k \in 1 .. Len(Accepted)
        BY <1>n, <2>2, <2>3, <3>2, <4>1 DEF NewestInv
      <4>2. CASE k = Len(Accepted) + 1
        BY <1>n, <2>2, <2>3, <3>1, <3>2, <4>2 DEF NewestInv
      <4>3. QED BY <1>0, <2>2, <4>1, <4>2
    <3>4. QED BY <3>1, <3>3 DEF NewestInv
  <2>5. CallOrder'
    <3>1. ASSUME NEW a \in 1 .. Len(Accepted'), NEW b \in 1 .. Len(Accepted'),
                 a < b, Accepted'[a].from = Accepted'[b].from
          PROVE  Accepted'[a].call < Accepted'[b].call
      <4>1. a \in 1 .. Len(Accepted) /\ Accepted'[a] = Accepted[a]
        BY <1>0, <2>2, <3>1
      <4>2. CASE b \in 1 .. Len(Accepted)
        BY <2>2, <3>1, <4>1, <4>2 DEF CallOrder
      <4>3. CASE b = Len(Accepted) + 1
        <5>1. Accepted'[b] = gt_ptr[p] /\ gt_ptr[p].from = p
          BY <2>2, <4>3 DEF NewestInv
        <5>2. Accepted[a].from = p
          BY <3>1, <4>1, <5>1
        <5>3. QED BY <2>3, <4>1, <5>1, <5>2 DEF NewestInv
      <4>4. QED BY <1>0, <2>2, <4>2, <4>3
    <3>2. QED BY <3>1 DEF CallOrder
  <2>6. QED BY <2>4, <2>5
<1>2. CASE \A p \in Producers : ~PushItem(p)
  <2>1. Accepted' = Accepted
    BY <1>2, AcceptedOther
  <2>2. CallOrder'
    BY <2>1 DEF CallOrder
  <2>3. NewestInv'
    <3>1. CASE UNCHANGED producerVars
      BY <2>1, <3>1 DEF NewestInv, producerVars
    <3>2. ASSUME NEW p \in Producers, BuildItem(p)
          PROVE  NewestInv'
      <4>1. PICK content \in Contents, msg \in Actions \cup {NullMsg} :
                gt_ptr' = [gt_ptr EXCEPT ![p] = NewItem(p, content, msg)]
        BY <3>2 DEF BuildItem
      <4>2. /\ NewItem(p, content, msg).from = p
            /\ NewItem(p, content, msg).call = calls + 1
        BY DEF NewItem
      <4>3. /\ calls' = calls + 1
            /\ pc' = [pc EXCEPT ![p] = "lock"]
        BY <3>2 DEF BuildItem
      <4>4. /\ gt_ptr'[p].from = p /\ gt_ptr'[p].call = calls + 1
            /\ \A q \in Producers \ {p} : /\ gt_ptr'[q] = gt_ptr[q]
                                         /\ pc'[q] = pc[q]
        BY <4>1, <4>2, <4>3 DEF TypeOK
      <4>6. \A q \in Producers : gt_ptr'[q].from = q /\ gt_ptr'[q].call <= calls'
        BY <1>n, <4>3, <4>4 DEF NewestInv
      <4>7. ASSUME NEW k \in 1 .. Len(Accepted)
            PROVE  /\ Accepted[k].call <= calls'
                   /\ pc'[Accepted[k].from] \in {"lock", "push"}
                        => Accepted[k].call < gt_ptr'[Accepted[k].from].call
        <5>1. Accepted[k].call <= calls
          BY DEF NewestInv
        <5>2. CASE Accepted[k].from = p
          BY <1>n, <4>3, <4>4, <5>1, <5>2
        <5>3. CASE Accepted[k].from # p
          BY <1>n, <4>3, <4>4, <5>1, <5>3 DEF NewestInv
        <5>4. QED BY <5>2, <5>3
      <4>8. QED BY <2>1, <4>6, <4>7 DEF NewestInv
    <3>3. ASSUME NEW p \in Producers,
                 \/ LockForPush(p)
                 \/ CountAndUnlock(p)
                 \/ LoadCount(p)
                 \/ StoreCount(p)
          PROVE  NewestInv'
      <4>1. UNCHANGED <<gt_ptr, calls>>
        BY <3>3 DEF LockForPush, CountAndUnlock, LoadCount, StoreCount
      <4>2. \A q \in Producers : pc'[q] \in {"lock", "push"}
                                    => pc[q] \in {"lock", "push"}
        BY <3>3 DEF LockForPush, CountAndUnlock, LoadCount, StoreCount, TypeOK
      <4>3. \A k \in 1 .. Len(Accepted) : Accepted[k].from \in Producers
        BY <1>0 DEF Item
      <4>4. QED BY <2>1, <4>1, <4>2, <4>3 DEF NewestInv
    <3>4. QED BY <1>2, <3>1, <3>2, <3>3, ProducerStep
  <2>4. QED BY <2>2, <2>3
<1>3. QED BY <1>1, <1>2, PushOrNot

\* The lock makes the increment of count2 follow its push_back before the next
\* push_back: count2 is one behind exactly in between.
LEMMA CountStep ==
  ASSUME TypeOK, LockInv, CopyInv, Count2Exact, [Next]_vars
  PROVE  Count2Exact'
<1> DEFINE AtUnlock == \E p \in Producers : pc[p] = "unlock"
<1>0. /\ Accepted \in Seq(Item)
      /\ Len(Accepted) \in Nat
      /\ count2 \in Nat
      /\ pc \in [Producers -> {"idle", "lock", "push", "unlock", "load", "store"}]
  BY QueueTypes DEF TypeOK
<1>1. ASSUME NEW p \in Producers, PushItem(p), ExecGafq(p)
      PROVE  Count2Exact'
  <2>1. Len(Accepted') = Len(Accepted) + 1
    BY <1>0, <1>1, AcceptedPush DEF TypeOK
  <2>2. pc[p] = "push" /\ pc'[p] = "unlock" /\ count2' = count2
    BY <1>0, <1>1 DEF PushItem
  <2>3. ~AtUnlock
    BY <2>2, <1>0 DEF LockInv
  <2>4. QED BY <1>0, <2>1, <2>2, <2>3 DEF Count2Exact
<1>2. CASE \A p \in Producers : ~PushItem(p)
  <2>1. Accepted' = Accepted
    BY <1>2, AcceptedOther
  <2>2. CASE UNCHANGED producerVars
    BY <2>1, <2>2 DEF producerVars, Count2Exact
  <2>3. ASSUME NEW p \in Producers, CountAndUnlock(p)
        PROVE  Count2Exact'
    <3>1. pc[p] = "unlock" /\ pc' = [pc EXCEPT ![p] = "load"]
          /\ count2' = count2 + 1
      BY <2>3 DEF CountAndUnlock
    <3>2. \A q \in Producers : pc[q] = "unlock" => q = p
      BY <1>0, <3>1 DEF LockInv
    <3>3. ~AtUnlock'
      BY <1>0, <3>1, <3>2
    <3>4. QED BY <1>0, <2>1, <3>1, <3>3 DEF Count2Exact
  <2>4. ASSUME NEW p \in Producers,
               \/ BuildItem(p)
               \/ LockForPush(p)
               \/ LoadCount(p)
               \/ StoreCount(p)
        PROVE  Count2Exact'
    <3>1. count2' = count2
      BY <2>4 DEF BuildItem, LockForPush, LoadCount, StoreCount
    <3>2. \A q \in Producers : pc'[q] = "unlock" <=> pc[q] = "unlock"
      BY <1>0, <2>4 DEF BuildItem, LockForPush, LoadCount, StoreCount
    <3>3. QED BY <2>1, <3>1, <3>2 DEF Count2Exact
  <2>5. QED BY <1>2, <2>2, <2>3, <2>4, ProducerStep
<1>3. QED BY <1>1, <1>2, PushOrNot

-----------------------------------------------------------------------------
(* The unguarded counter.                                                  *)

\* A call adds its thread to the late ones together with count2's increment,
\* and takes it away with the store to count; lost updates only lower count.
LEMMA LateStep ==
  ASSUME TypeOK, CountInv, [Next]_vars
  PROVE  CountInv'
<1> DEFINE n == Cardinality(Late)
<1>0. /\ IsFiniteSet(Late) /\ n \in Nat
      /\ count \in Nat /\ count2 \in Nat /\ loaded \in [Producers -> Nat]
      /\ pc \in [Producers -> {"idle", "lock", "push", "unlock", "load", "store"}]
  BY FS_CardinalityType DEF CountInv, TypeOK
<1>1. ASSUME UNCHANGED producerVars
      PROVE  CountInv'
  <2>1. Late' = Late
    BY <1>1 DEF Late, producerVars
  <2>2. QED BY <1>1, <2>1 DEF CountInv, producerVars
<1>2. ASSUME NEW p \in Producers, BuildItem(p) \/ LockForPush(p) \/ PushItem(p)
      PROVE  CountInv'
  <2>1. /\ UNCHANGED <<count, count2, loaded>>
        /\ \A q \in Producers :
               \A v \in {"load", "store"} : pc'[q] = v <=> pc[q] = v
    BY <1>0, <1>2 DEF BuildItem, LockForPush, PushItem
  <2>2. Late' = Late
    BY <2>1 DEF Late
  <2>3. QED BY <2>1, <2>2 DEF CountInv
<1>3. ASSUME NEW p \in Producers, CountAndUnlock(p)
      PROVE  CountInv'
  <2>1. /\ pc[p] = "unlock" /\ pc' = [pc EXCEPT ![p] = "load"]
        /\ count2' = count2 + 1 /\ UNCHANGED <<count, loaded>>
    BY <1>3 DEF CountAndUnlock
  <2>2. Late' = Late \cup {p} /\ p \notin Late
    BY <1>0, <2>1 DEF Late
  <2>3. IsFiniteSet(Late') /\ Cardinality(Late') = n + 1
    BY <1>0, <2>2, FS_AddElement
  <2>4. \A q \in Producers : pc'[q] = "store" => pc[q] = "store"
    BY <1>0, <2>1
  <2>5. QED BY <1>0, <2>1, <2>3, <2>4 DEF CountInv
<1>4. ASSUME NEW p \in Producers, LoadCount(p)
      PROVE  CountInv'
  <2>1. /\ pc[p] = "load" /\ pc' = [pc EXCEPT ![p] = "store"]
        /\ loaded' = [loaded EXCEPT ![p] = count]
        /\ UNCHANGED <<count, count2>>
    BY <1>4 DEF LoadCount
  <2>2. Late' = Late
    BY <1>0, <2>1 DEF Late
  <2>3. ASSUME NEW q \in Producers, pc'[q] = "store"
        PROVE  loaded'[q] + n <= count2
    BY <1>0, <2>1, <2>3 DEF CountInv
  <2>4. QED BY <2>1, <2>2, <2>3 DEF CountInv
<1>5. ASSUME NEW p \in Producers, StoreCount(p)
      PROVE  CountInv'
  <2>1. /\ pc[p] = "store" /\ pc' = [pc EXCEPT ![p] = "idle"]
        /\ count' = loaded[p] + 1
        /\ UNCHANGED <<count2, loaded>>
    BY <1>5 DEF StoreCount
  <2>2. Late' = Late \ {p} /\ p \in Late
    BY <1>0, <2>1 DEF Late
  <2>3. IsFiniteSet(Late') /\ Cardinality(Late') = n - 1
    BY <1>0, <2>2, FS_RemoveElement
  <2>4. \A q \in Producers : pc'[q] = "store" => pc[q] = "store"
    BY <1>0, <2>1
  <2>5. QED BY <1>0, <2>1, <2>3, <2>4 DEF CountInv
<1>6. QED
  BY <1>1, <1>2, <1>3, <1>4, <1>5
     DEF Next, Main, Crash, ExecGafq, FinishCall, vars

-----------------------------------------------------------------------------
(* Items without a message.                                                *)

\* ExecGafq drops the message only for a script text, which a careful thread
\* does not pass, and the queue, its copy and the batch hand items on as they
\* are.
LEMMA MsgStep ==
  ASSUME TypeOK, MsgInv, [Next]_vars
  PROVE  MsgInv'
<1> USE DEF producerVars, scriptVars, loopVars
<1>0. /\ wait_execute_list \in Seq(Item) /\ temp_execute_list \in Seq(Item)
      /\ i \in Nat /\ gt_ptr \in [Producers -> Item]
      /\ pc \in [Producers -> {"idle", "lock", "push", "unlock", "load", "store"}]
  BY DEF TypeOK
<1>1. ASSUME NEW p \in Producers, ExecGafq(p)
      PROVE  MsgInv'
  <2>0. UNCHANGED <<temp_execute_list, i, alive>>
    BY <1>1 DEF ExecGafq
  <2>1. CASE BuildItem(p)
    <3>1. PICK content \in Contents, msg \in Actions \cup {NullMsg} :
              /\ p \in Careful => content = "" /\ msg # NullMsg
              /\ gt_ptr' = [gt_ptr EXCEPT ![p] = NewItem(p, content, msg)]
      BY <2>1 DEF BuildItem
    <3>2. Justified(NewItem(p, content, msg))
      BY <3>1 DEF NewItem, Justified
    <3>3. \A q \in Producers : pc'[q] \in {"lock", "push"} => Justified(gt_ptr'[q])
      BY <1>0, <2>1, <3>1, <3>2 DEF BuildItem, MsgInv
    <3>4. wait_execute_list' = wait_execute_list
      BY <2>1 DEF BuildItem
    <3>5. QED BY <2>0, <3>3, <3>4 DEF MsgInv
  <2>2. CASE PushItem(p)
    <3>1. /\ wait_execute_list' = Append(wait_execute_list, gt_ptr[p])
          /\ pc[p] = "push" /\ pc' = [pc EXCEPT ![p] = "unlock"]
          /\ gt_ptr' = gt_ptr
      BY <2>2 DEF PushItem
    <3>2. Justified(gt_ptr[p])
      BY <3>1 DEF MsgInv
    <3>3. \A k \in 1 .. Len(wait_execute_list') : Justified(wait_execute_list'[k])
      BY <1>0, <3>1, <3>2 DEF MsgInv
    <3>4. \A q \in Producers : pc'[q] \in {"lock", "push"} => pc[q] \in {"lock", "push"}
      BY <1>0, <3>1
    <3>5. QED BY <2>0, <3>1, <3>3, <3>4 DEF MsgInv
  <2>3. CASE LockForPush(p) \/ CountAndUnlock(p) \/ LoadCount(p) \/ StoreCount(p)
    <3>1. UNCHANGED <<wait_execute_list, gt_ptr>>
      BY <2>3 DEF LockForPush, CountAndUnlock, LoadCount, StoreCount
    <3>2. \A q \in Producers : pc'[q] \in {"lock", "push"} => pc[q] \in {"lock", "push"}
      BY <1>0, <2>3 DEF LockForPush, CountAndUnlock, LoadCount, StoreCount
    <3>3. QED BY <2>0, <3>1, <3>2 DEF MsgInv
  <2>4. QED BY <1>1, <2>1, <2>2, <2>3 DEF ExecGafq, FinishCall
<1>2. ASSUME Main, alive
      PROVE  MsgInv'
  <2>1. UNCHANGED <<pc, gt_ptr, alive>>
    BY <1>2 DEF Main
  <2>2. CASE CopyList
    BY <1>2, <2>1, <2>2 DEF CopyList, MsgInv
  <2>3. CASE ClearAndUnlock
    BY <1>2, <2>1, <2>3 DEF ClearAndUnlock, MsgInv
  <2>4. CASE EndLoop
    BY <1>2, <2>1, <2>4 DEF EndLoop, MsgInv
  <2>5. CASE UNCHANGED <<wait_execute_list, temp_execute_list>>
    BY <1>2, <2>1, <2>5 DEF MsgInv
  <2>6. QED
    BY <1>2, <2>2, <2>3, <2>4, <2>5
       DEF Main, InitScript, RegisterSendData, WakeUp, LoopExecute,
           LockForCopy, CallFunction, ReportNoFunction
<1>3. CASE Crash
  BY <1>3 DEF Crash, ReadNullMsg, MsgInv
<1>4. CASE UNCHANGED vars
  BY <1>4 DEF vars, MsgInv
<1>5. QED BY <1>1, <1>2, <1>3, <1>4 DEF Next

-----------------------------------------------------------------------------
(* The invariants, for every behaviour.                                    *)

\* The inductive invariant holds when main() starts.
LEMMA EngineInvInit == Init => EngineInv
<1> SUFFICES ASSUME Init PROVE EngineInv
  OBVIOUS
<1>1. TypeOK /\ LockInv /\ CopyInv
  BY SafetyInit
<1>2. Accepted = <<>> /\ Len(Accepted) = 0
  <2>1. Taken = <<>> /\ wait_execute_list = <<>> /\ executed = <<>>
    BY DEF Init, Taken
  <2>2. QED BY <2>1, ConcatEmptySeq, EmptySeq DEF Pending, Accepted
<1>3. NewestInv
  <2>1. \A p \in Producers : NoItem(p).from = p /\ NoItem(p).call = 0
    BY DEF NoItem
  <2>2. /\ \A p \in Producers : gt_ptr[p] = NoItem(p)
        /\ calls = 0
    BY DEF Init
  <2>3. \A k \in 1 .. Len(Accepted) : FALSE
    BY <1>2
  <2>4. QED BY <2>1, <2>2, <2>3 DEF NewestInv
<1>4. CallOrder
  BY <1>2 DEF CallOrder
<1>5. Count2Exact
  BY <1>2 DEF Init, Count2Exact
<1>6. CountInv
  <2>1. Late = {} /\ count = 0 /\ count2 = 0
    BY DEF Init, Late
  <2>2. \A p \in Producers : pc[p] # "store"
    BY DEF Init
  <2>3. QED BY <2>1, <2>2, FS_EmptySet DEF CountInv
<1>7. MsgInv
  BY DEF Init, MsgInv
<1>8. QED BY <1>1, <1>3, <1>4, <1>5, <1>6, <1>7 DEF EngineInv

\* Every step of every thread keeps it.
LEMMA EngineInvStep == EngineInv /\ [Next]_vars => EngineInv'
BY TypeStep, LockStep, OrderStep, CountStep, LateStep, MsgStep DEF EngineInv

\* The inductive invariant: the types, the mutex, LoopExecute's copy, the age
\* of items under construction, the threads that are late with count, what an
\* item without a message has, and the first two properties below.
THEOREM EngineInvariant == Spec => []EngineInv
BY EngineInvInit, EngineInvStep, PTL DEF Spec

\* Each thread's items are gone through in the order of its calls of ExecGafq,
\* and none of them twice.
THEOREM ItemsInCallOrder == Spec => []CallOrder
BY EngineInvariant, PTL DEF EngineInv

\* count2 is the number of items ever queued.
THEOREM Count2IsExact == Spec => []Count2Exact
BY EngineInvariant, PTL DEF EngineInv

\* count, which ExecGafq increments outside the lock, never passes count2,
\* however many threads lose how many updates.
THEOREM CountIsNeverAhead == Spec => []CountNeverAhead
<1>1. EngineInv => CountNeverAhead
  <2> SUFFICES ASSUME EngineInv PROVE CountNeverAhead
    OBVIOUS
  <2>1. count \in Nat /\ count2 \in Nat /\ Cardinality(Late) \in Nat
    BY FS_CardinalityType DEF EngineInv, TypeOK, CountInv
  <2>2. QED BY <2>1 DEF EngineInv, CountInv, CountNeverAhead
<1>2. QED BY <1>1, EngineInvariant, PTL

\* LoopExecute never dies on an item of a thread that calls ExecGafq with a
\* message and without a script text.
THEOREM CarefulNeverKills == Spec => []CarefulNeverKill
<1>1. EngineInv => CarefulNeverKill
  <2> SUFFICES ASSUME EngineInv, ~alive
               PROVE  temp_execute_list[i].from \notin Careful
    BY DEF CarefulNeverKill
  <2>1. i \in 1 .. Len(temp_execute_list) /\ temp_execute_list[i].msg = NullMsg
    BY DEF EngineInv, TypeOK, MsgInv
  <2>2. QED BY <2>1 DEF EngineInv, MsgInv, Justified
<1>2. QED BY <1>1, EngineInvariant, PTL

\* The process lives if every caller is such a thread, as in game.cpp.
THEOREM CarefulCallersStayAlive ==
  ASSUME Careful = Producers
  PROVE  Spec => []alive
<1>1. EngineInv => alive
  <2> SUFFICES ASSUME EngineInv, ~alive
               PROVE  FALSE
    BY DEF EngineInv, TypeOK
  <2>1. /\ i \in 1 .. Len(temp_execute_list)
        /\ temp_execute_list[i].msg = NullMsg
        /\ temp_execute_list \in Seq(Item)
    BY DEF EngineInv, TypeOK, MsgInv
  <2>2. temp_execute_list[i].from \in Producers
    <3>1. temp_execute_list[i] \in Item
      BY <2>1
    <3>2. QED BY <3>1 DEF Item
  <2>3. Justified(temp_execute_list[i])
    BY <2>1 DEF EngineInv, MsgInv
  <2>4. QED BY <2>1, <2>2, <2>3 DEF Justified
<1>2. QED BY <1>1, EngineInvariant, PTL

-----------------------------------------------------------------------------
(* The engine as game.cpp uses it.                                         *)

\* With one thread that calls ExecGafq (the server thread), nobody comes
\* between its load and its store of count, and the counters agree.
THEOREM OneCallerCountsAgree ==
  ASSUME NEW only, Producers = {only}
  PROVE  Spec => []CountsAgree
<1> DEFINE Counted ==
        /\ pc[only] \in {"idle", "lock", "push", "unlock"} => count2 = count
        /\ pc[only] = "load" => count2 = count + 1
        /\ pc[only] = "store" => count2 = loaded[only] + 1
<1>1. Init => Counted
  BY DEF Init
<1>2. TypeOK /\ Counted /\ [Next]_vars => Counted'
  <2> SUFFICES ASSUME TypeOK, Counted, [Next]_vars PROVE Counted'
    OBVIOUS
  <2>0. only \in Producers /\ \A p \in Producers : p = only
    OBVIOUS
  <2>1. CASE UNCHANGED producerVars
    BY <2>1 DEF producerVars
  <2>2. CASE \E p \in Producers : BuildItem(p) \/ FinishCall(p)
    BY <2>0, <2>2 DEF FinishCall, BuildItem, LockForPush, PushItem,
                      CountAndUnlock, LoadCount, StoreCount, TypeOK
  <2>3. QED BY <2>1, <2>2 DEF Next, Main, Crash, ExecGafq, vars
<1>3. Counted => CountsAgree
  BY DEF CountsAgree
<1>4. QED BY <1>1, <1>2, <1>3, TypeCorrect, PTL DEF Spec

\* With start_action as the only action and a script that raises no nil, the
\* script stack keeps the one slot that Init left there, whatever the number of
\* messages and of errors.
THEOREM StackStaysBalanced ==
  ASSUME Actions \subseteq {"start_action"}, Outcomes \subseteq {"ok", "error"}
  PROVE  Spec => []StackBalanced
<1>1. Init => StackBalanced
  BY DEF Init, StackBalanced
<1>2. TypeOK /\ StackBalanced /\ [Next]_vars => StackBalanced'
  <2> SUFFICES ASSUME TypeOK, StackBalanced, [Next]_vars PROVE StackBalanced'
    OBVIOUS
  <2> USE DEF StackBalanced, scriptVars
  <2>1. ASSUME NEW fileRuns \in BOOLEAN, InitScript(fileRuns)
        PROVE  StackBalanced'
    BY <2>1 DEF InitScript, ScriptGlobals
  <2>2. CASE RegisterSendData
    BY <2>2 DEF RegisterSendData
  <2>3. ASSUME NEW outcome \in Outcomes, CallFunction(outcome)
        PROVE  StackBalanced'
    BY <2>3 DEF CallFunction
  <2>4. CASE ReportNoFunction
    <3>1. temp_execute_list[i] \in Item
      BY <2>4 DEF ReportNoFunction, TypeOK
    <3>2. temp_execute_list[i].msg = "start_action"
      BY <2>4, <3>1 DEF ReportNoFunction, Item
    <3>3. QED BY <2>4, <3>2 DEF ReportNoFunction
  <2>5. CASE UNCHANGED <<globals, top>>
    BY <2>5
  <2>6. QED
    BY <2>1, <2>2, <2>3, <2>4, <2>5
       DEF Next, Main, Crash, ReadNullMsg, ExecGafq, WakeUp, LoopExecute,
           LockForCopy, CopyList, ClearAndUnlock, EndLoop, vars
<1>3. QED BY <1>1, <1>2, TypeCorrect, PTL DEF Spec
=============================================================================
