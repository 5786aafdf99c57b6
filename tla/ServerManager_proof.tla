------------------------ MODULE ServerManager_proof ------------------------
(***************************************************************************)
(* No lost wake-up and no lost session, for any servers, slots, kernel      *)
(* sessions and registrations.                                              *)
(***************************************************************************)
EXTENDS ServerManager, SequenceTheorems, FiniteSetTheorems, TLAPS

\* The names of events, servers, sessions and of nothing are apart.
LEMMA Names ==
  /\ Notify # Nobody /\ Notify \notin Holders
  /\ Nobody \notin Holders /\ Nobody \notin Handles
  /\ \A x \in Servers : x \in Holders /\ x \notin Slots
  /\ \A x \in Slots : x \in Holders /\ x \notin Servers
BY ServerAssumption DEF Holders

\* Both lists hold holders.
LEMMA ListStep ==
  ASSUME TypeOK, [Next]_vars
  PROVE  ListTypes'
<1>1. CASE ProcessWaitList
  BY <1>1, ConcatProperties, EmptySeq
  DEF ListTypes, ProcessWaitList, Goto, TypeOK
<1>2. CASE TakeSelected
  <2>1. PICK i \in DOMAIN linked :
          linked' = SubSeq(linked, 1, i - 1) \o SubSeq(linked, i + 1, Len(linked))
    BY <1>2 DEF TakeSelected
  <2>2. Len(linked) \in Nat /\ i \in 1..Len(linked) /\ \A j \in 1..Len(linked) : linked[j] \in Holders
    BY LenProperties, ElementOfSeq DEF TypeOK, ListTypes
  <2>3. SubSeq(linked, 1, i - 1) \in Seq(Holders)
    <3>1. \A j \in 1..(i - 1) : linked[j] \in Holders
      BY <2>2
    <3> QED
      BY <2>2, <3>1, SubSeqProperties
  <2>4. SubSeq(linked, i + 1, Len(linked)) \in Seq(Holders)
    <3>1. \A j \in (i + 1)..Len(linked) : linked[j] \in Holders
      BY <2>2
    <3> QED
      BY <2>2, <3>1, SubSeqProperties
  <2>5. UNCHANGED waitlist
    BY <1>2 DEF TakeSelected
  <2> QED
    BY <2>1, <2>3, <2>4, <2>5, ConcatProperties DEF TypeOK, ListTypes
<1>3. CASE RegisterFresh
  <2>1. fresh \in Holders
    BY <1>3, Names DEF RegisterFresh, Goto, TypeOK, LoopTypes
  <2>2. linked' = linked /\ waitlist' = Append(waitlist, fresh)
    BY <1>3 DEF RegisterFresh, RegisterToWaitList
  <2> QED
    BY <2>1, <2>2 DEF TypeOK, ListTypes
<1>4. CASE RegisterSelected
  <2>1. cur \in Holders
    BY <1>4, Names DEF RegisterSelected, Goto, TypeOK, LoopTypes, Processing
  <2>2. linked' = linked /\ waitlist' = Append(waitlist, cur)
    BY <1>4 DEF RegisterSelected, RegisterToWaitList
  <2> QED
    BY <2>1, <2>2 DEF TypeOK, ListTypes
<1>5. CASE RegistrarLinks
  <2>1. incoming \in Holders
    BY <1>5, Names DEF RegistrarLinks, Register, TypeOK, RegistrarTypes
  <2>2. linked' = linked /\ waitlist' = Append(waitlist, incoming)
    BY <1>5 DEF RegistrarLinks
  <2> QED
    BY <2>1, <2>2 DEF TypeOK, ListTypes
<1>6. CASE UNCHANGED <<linked, waitlist>>
  BY <1>6 DEF TypeOK, ListTypes
<1>7. QED
  BY <1>1, <1>2, <1>3, <1>4, <1>5, <1>6
  DEF Next, LoopProcess, WaitAny, Process, RegisterSession, Clients, LinkHolders,
      CheckSignaled, WaitFindsReady, WaitReturns, Sleep, WakeUp, WaitCancelled,
      UnlinkHolders, ClearNotify, AcceptSession, AcceptAborts, ReceiveRequest,
      ReceiveClosed, DispatchRequest, DispatchNewObject, DispatchAborts, DispatchCloses,
      Reply, DestroySession, CloseHandle, RegistrarCreates, RegistrarSignals,
      SignalNotify, RegistrarReturns, ClientConnects, ClientCalls, ClientCloses, vars,
      waitVars, loopVars, otherVars

\* The flags are Boolean, and what is signalled is a holder.
LEMMA FlagStep ==
  ASSUME TypeOK, [Next]_vars
  PROVE  FlagTypes'
<1>1. CASE ProcessWaitList
  BY <1>1
  DEF FlagTypes, ProcessWaitList, Goto, TypeOK
<1>2. CASE LinkHolders
  BY <1>2
  DEF FlagTypes, LinkHolders, Goto, TypeOK
<1>3. CASE WaitFindsReady
  <2>1. PICK i \in DOMAIN linked : WaitReturns(linked[i])
    BY <1>3 DEF WaitFindsReady
  <2>2. linked[i] \in Holders
    BY <2>1, LenProperties, ElementOfSeq DEF TypeOK, ListTypes
  <2> QED
    BY <2>1, <2>2, Names DEF WaitReturns, TypeOK, FlagTypes
<1>4. CASE WakeUp
  <2>1. PICK i \in DOMAIN linked : WaitReturns(linked[i])
    BY <1>4 DEF WakeUp
  <2>2. linked[i] \in Holders
    BY <2>1, LenProperties, ElementOfSeq DEF TypeOK, ListTypes
  <2> QED
    BY <2>1, <2>2, Names DEF WaitReturns, TypeOK, FlagTypes
<1>5. CASE WaitCancelled
  BY <1>5
  DEF FlagTypes, WaitCancelled, TypeOK
<1>6. CASE UnlinkHolders
  BY <1>6
  DEF FlagTypes, UnlinkHolders, Goto, TypeOK
<1>7. CASE ClearNotify
  BY <1>7
  DEF FlagTypes, ClearNotify, Goto, TypeOK
<1>8. CASE RegisterFresh
  BY <1>8
  DEF FlagTypes, RegisterFresh, Goto, RegisterToWaitList, SignalNotify, TypeOK
<1>9. CASE RegisterSelected
  BY <1>9
  DEF FlagTypes, RegisterSelected, Goto, RegisterToWaitList, SignalNotify, TypeOK
<1>10. CASE RegistrarLinks
  BY <1>10
  DEF FlagTypes, RegistrarLinks, Register, TypeOK
<1>11. CASE RegistrarSignals
  BY <1>11
  DEF FlagTypes, RegistrarSignals, Register, SignalNotify, TypeOK
<1>12. CASE UNCHANGED <<mutex, notify, watched, cancel, signaled>>
  BY <1>12 DEF TypeOK, FlagTypes
<1>13. QED
  BY <1>1, <1>2, <1>3, <1>4, <1>5, <1>6, <1>7, <1>8, <1>9, <1>10, <1>11, <1>12
  DEF Next, LoopProcess, WaitAny, Process, RegisterSession, Clients, CheckSignaled,
      Sleep, TakeSelected, AcceptSession, AcceptAborts, ReceiveRequest, ReceiveClosed,
      DispatchRequest, DispatchNewObject, DispatchAborts, DispatchCloses, Reply,
      DestroySession, CloseHandle, RegistrarCreates, RegistrarReturns, ClientConnects,
      ClientCalls, ClientCloses, vars, waitVars, loopVars, otherVars

\* The processing thread holds what its program point says.
LEMMA LoopStep ==
  ASSUME TypeOK, [Next]_vars
  PROVE  LoopTypes'
<1>1. CASE ProcessWaitList
  BY <1>1
  DEF LoopTypes, ProcessWaitList, Goto, TypeOK, LoopPoints, Processing
<1>2. CASE LinkHolders
  BY <1>2, Names
  DEF LoopTypes, LinkHolders, Goto, TypeOK, LoopPoints, Processing
<1>3. CASE CheckSignaled
  BY <1>3, Names
  DEF LoopTypes, CheckSignaled, TypeOK, LoopPoints, Processing, FlagTypes
<1>4. CASE WaitFindsReady
  <2>1. PICK i \in DOMAIN linked : WaitReturns(linked[i])
    BY <1>4 DEF WaitFindsReady
  <2>2. linked[i] \in Holders
    BY <2>1, LenProperties, ElementOfSeq DEF TypeOK, ListTypes
  <2> QED
    BY <2>1, <2>2, Names DEF WaitReturns, TypeOK, LoopTypes, LoopPoints, Processing
<1>5. CASE Sleep
  BY <1>5
  DEF LoopTypes, Sleep, Goto, TypeOK, LoopPoints, Processing
<1>6. CASE WakeUp
  <2>1. PICK i \in DOMAIN linked : WaitReturns(linked[i])
    BY <1>6 DEF WakeUp
  <2>2. linked[i] \in Holders
    BY <2>1, LenProperties, ElementOfSeq DEF TypeOK, ListTypes
  <2> QED
    BY <2>1, <2>2, Names DEF WaitReturns, TypeOK, LoopTypes, LoopPoints, Processing
<1>7. CASE WaitCancelled
  BY <1>7, Names
  DEF LoopTypes, WaitCancelled, TypeOK, LoopPoints, Processing, FlagTypes
<1>8. CASE UnlinkHolders
  BY <1>8, Names
  DEF LoopTypes, UnlinkHolders, Goto, TypeOK, LoopPoints, Processing
<1>9. CASE ClearNotify
  BY <1>9, Names
  DEF LoopTypes, ClearNotify, Goto, TypeOK, LoopPoints, Processing
<1>10. CASE TakeSelected
  BY <1>10, Names
  DEF LoopTypes, TakeSelected, Goto, TypeOK, LoopPoints, Processing
<1>11. CASE AcceptSession
  <2>1. PICK s \in Slots : fresh' = s
    BY <1>11 DEF AcceptSession
  <2>2. cur' = cur /\ pc' = "register_session" /\ cur \in Holders
    BY <1>11 DEF AcceptSession, Goto, TypeOK, LoopTypes, Processing
  <2> QED
    BY <2>1, <2>2 DEF TypeOK, LoopTypes, LoopPoints, Processing
<1>12. CASE AcceptAborts
  BY <1>12
  DEF LoopTypes, AcceptAborts, Goto, TypeOK, LoopPoints, Processing
<1>13. CASE ReceiveRequest
  BY <1>13, Names
  DEF LoopTypes, ReceiveRequest, Goto, TypeOK, LoopPoints, Processing
<1>14. CASE ReceiveClosed
  BY <1>14, Names
  DEF LoopTypes, ReceiveClosed, Goto, TypeOK, LoopPoints, Processing
<1>15. CASE DispatchRequest
  BY <1>15
  DEF LoopTypes, DispatchRequest, Goto, TypeOK, LoopPoints, Processing
<1>16. CASE DispatchNewObject
  <2>1. PICK s \in Slots : fresh' = s
    BY <1>16 DEF DispatchNewObject
  <2>2. cur' = cur /\ pc' = "register_session" /\ cur \in Holders
    BY <1>16 DEF DispatchNewObject, Goto, TypeOK, LoopTypes, Processing
  <2> QED
    BY <2>1, <2>2 DEF TypeOK, LoopTypes, LoopPoints, Processing
<1>17. CASE DispatchAborts
  BY <1>17
  DEF LoopTypes, DispatchAborts, Goto, TypeOK, LoopPoints, Processing
<1>18. CASE DispatchCloses
  BY <1>18
  DEF LoopTypes, DispatchCloses, Goto, TypeOK, LoopPoints, Processing
<1>19. CASE RegisterFresh
  BY <1>19, Names
  DEF LoopTypes, RegisterFresh, Goto, RegisterToWaitList, SignalNotify, TypeOK,
      LoopPoints, Processing, Holders
<1>20. CASE Reply
  BY <1>20
  DEF LoopTypes, Reply, Goto, TypeOK, LoopPoints, Processing
<1>21. CASE RegisterSelected
  BY <1>21
  DEF LoopTypes, RegisterSelected, Goto, RegisterToWaitList, SignalNotify, TypeOK,
      LoopPoints, Processing
<1>22. CASE DestroySession
  BY <1>22, Names
  DEF LoopTypes, DestroySession, Goto, TypeOK, LoopPoints, Processing, KernelTypes
<1>23. CASE CloseHandle
  BY <1>23
  DEF LoopTypes, CloseHandle, Goto, TypeOK, LoopPoints, Processing
<1>24. CASE RegistrarReturns
  BY <1>24
  DEF LoopTypes, RegistrarReturns, Register, TypeOK, LoopPoints, Processing
<1>25. CASE UNCHANGED loopVars
  BY <1>25 DEF loopVars, TypeOK, LoopTypes
<1>26. QED
  BY <1>1, <1>2, <1>3, <1>4, <1>5, <1>6, <1>7, <1>8, <1>9, <1>10, <1>11, <1>12, <1>13,
      <1>14, <1>15, <1>16, <1>17, <1>18, <1>19, <1>20, <1>21, <1>22, <1>23, <1>24, <1>25
  DEF Next, LoopProcess, WaitAny, Process, RegisterSession, Clients, RegistrarCreates,
      RegistrarLinks, RegistrarSignals, SignalNotify, ClientConnects, ClientCalls,
      ClientCloses, vars, waitVars, loopVars, otherVars

\* The registering thread has a slot to link.
LEMMA RegistrarStep ==
  ASSUME TypeOK, [Next]_vars
  PROVE  RegistrarTypes'
<1>1. CASE RegistrarCreates
  BY <1>1, ServerAssumption
  DEF RegistrarTypes, RegistrarCreates, Register, CreateSession, TypeOK
<1>2. CASE RegistrarLinks
  BY <1>2
  DEF RegistrarTypes, RegistrarLinks, Register, TypeOK
<1>3. CASE RegistrarSignals
  BY <1>3
  DEF RegistrarTypes, RegistrarSignals, Register, SignalNotify, TypeOK
<1>4. CASE RegistrarReturns
  BY <1>4
  DEF RegistrarTypes, RegistrarReturns, Register, TypeOK
<1>5. CASE UNCHANGED otherVars
  BY <1>5 DEF otherVars, TypeOK, RegistrarTypes
<1>6. QED
  BY <1>1, <1>2, <1>3, <1>4, <1>5
  DEF Next, LoopProcess, WaitAny, Process, RegisterSession, Clients, ProcessWaitList,
      LinkHolders, CheckSignaled, WaitFindsReady, WaitReturns, Sleep, WakeUp,
      WaitCancelled, UnlinkHolders, ClearNotify, TakeSelected, AcceptSession,
      AcceptAborts, ReceiveRequest, ReceiveClosed, DispatchRequest, DispatchNewObject,
      DispatchAborts, DispatchCloses, RegisterFresh, RegisterToWaitList, SignalNotify,
      Reply, RegisterSelected, DestroySession, CloseHandle, ClientConnects, ClientCalls,
      ClientCloses, vars, waitVars, loopVars, otherVars

\* Slots, kernel sessions and connections keep their types.
LEMMA KernelStep ==
  ASSUME TypeOK, [Next]_vars
  PROVE  KernelTypes'
<1>1. CASE AcceptSession
  <2>1. PICK s \in Slots, h \in Handles : /\ slot' = [slot EXCEPT ![s] = h]
                                         /\ sess' = [sess EXCEPT ![h] = "idle"]
    BY <1>1 DEF AcceptSession, CreateSession, Unused
  <2>2. pending' = [pending EXCEPT ![cur] = FALSE]
    BY <1>1 DEF AcceptSession
  <2> QED
    BY <2>1, <2>2 DEF TypeOK, KernelTypes
<1>2. CASE DispatchNewObject
  <2>1. PICK s \in Slots, h \in Handles : /\ slot' = [slot EXCEPT ![s] = h]
                                         /\ sess' = [sess EXCEPT ![h] = "given"]
    BY <1>2 DEF DispatchNewObject, CreateSession, Unused
  <2>2. pending' = pending
    BY <1>2 DEF DispatchNewObject
  <2> QED
    BY <2>1, <2>2 DEF TypeOK, KernelTypes
<1>3. CASE RegistrarCreates
  <2>1. PICK s \in Slots, h \in Handles : /\ slot' = [slot EXCEPT ![s] = h]
                                         /\ sess' = [sess EXCEPT ![h] = "idle"]
    BY <1>3 DEF RegistrarCreates, CreateSession, Unused
  <2>2. pending' = pending
    BY <1>3 DEF RegistrarCreates
  <2> QED
    BY <2>1, <2>2 DEF TypeOK, KernelTypes
<1>4. CASE ReceiveRequest
  BY <1>4
  DEF KernelTypes, ReceiveRequest, Goto, TypeOK
<1>5. CASE Reply
  BY <1>5
  DEF KernelTypes, Reply, Goto, TypeOK
<1>6. CASE DestroySession
  BY <1>6
  DEF KernelTypes, DestroySession, Goto, TypeOK
<1>7. CASE CloseHandle
  BY <1>7
  DEF KernelTypes, CloseHandle, Goto, TypeOK
<1>8. CASE \E p \in Servers : ClientConnects(p)
  BY <1>8
  DEF KernelTypes, ClientConnects, TypeOK
<1>9. CASE \E h \in Handles : ClientCalls(h)
  BY <1>9
  DEF KernelTypes, ClientCalls, TypeOK
<1>10. CASE \E h \in Handles : ClientCloses(h)
  BY <1>10
  DEF KernelTypes, ClientCloses, TypeOK
<1>11. CASE UNCHANGED <<slot, sess, pending>>
  BY <1>11 DEF TypeOK, KernelTypes
<1>12. QED
  BY <1>1, <1>2, <1>3, <1>4, <1>5, <1>6, <1>7, <1>8, <1>9, <1>10, <1>11
  DEF Next, LoopProcess, WaitAny, Process, RegisterSession, Clients, ProcessWaitList,
      LinkHolders, CheckSignaled, WaitFindsReady, WaitReturns, Sleep, WakeUp,
      WaitCancelled, UnlinkHolders, ClearNotify, TakeSelected, AcceptAborts,
      ReceiveClosed, DispatchRequest, DispatchAborts, DispatchCloses, RegisterFresh,
      RegisterToWaitList, SignalNotify, RegisterSelected, RegistrarLinks,
      RegistrarSignals, RegistrarReturns, vars, waitVars, loopVars, otherVars

\* Init establishes the types: the list of servers is a sequence.
LEMMA TypeInit ==
  ASSUME Init
  PROVE  TypeOK
<1>1. ListTypes
  <2>1. Cardinality(Servers) \in Nat
    BY ServerAssumption, FS_CardinalityType
  <2>2. linked \in Seq(Servers)
    BY <2>1, SeqDef DEF Init
  <2>3. linked \in Seq(Holders)
    BY <2>2, SeqMonotonic DEF Holders
  <2> QED
    BY <2>3, EmptySeq DEF ListTypes, Init
<1>2. FlagTypes
  BY DEF Init, FlagTypes
<1>3. LoopTypes
  BY DEF Init, LoopTypes, LoopPoints, Processing
<1>4. RegistrarTypes
  BY ServerAssumption DEF Init, RegistrarTypes
<1>5. KernelTypes
  BY DEF Init, KernelTypes
<1> QED
  BY <1>1, <1>2, <1>3, <1>4, <1>5 DEF TypeOK

\* Types are kept by every step.
LEMMA TypeStep ==
  ASSUME TypeOK, [Next]_vars
  PROVE  TypeOK'
BY ListStep, FlagStep, LoopStep, RegistrarStep, KernelStep DEF TypeOK

\* Every reachable state of the server manager is well typed, and whenever the
\* thread processes something it has a holder in its hands (LoopProcess).
THEOREM TypeCorrect == Spec => []TypeOK
<1>1. Init => TypeOK
  BY TypeInit
<1>2. TypeOK /\ [Next]_vars => TypeOK'
  BY TypeStep
<1> QED
  BY <1>1, <1>2, PTL DEF Spec

\* The points at which nothing is waited for.
Awake == LoopPoints \ {"check", "wait", "asleep", "unlink"}

\* A step between such points that leaves the lists and the events alone.
LEMMA QuietStep ==
  ASSUME WakeupInv, pc \in Awake \ {"move"}, pc' \in Awake, UNCHANGED waitVars
  PROVE  WakeupInv'
BY DEF WakeupInv, Awake, waitVars

\* The event stays signalled while a holder waits to be linked, and an event that
\* is watched wakes the thread.
LEMMA WakeupStep ==
  ASSUME TypeOK, WakeupInv, [Next]_vars
  PROVE  WakeupInv'
<1>1. CASE ProcessWaitList
  BY <1>1
  DEF WakeupInv, ProcessWaitList, Goto
<1>2. CASE LinkHolders
  BY <1>2
  DEF WakeupInv, LinkHolders, Goto
<1>3. CASE CheckSignaled
  <2>1. /\ pc = "check" /\ pc' \in {"wait", "unlink"} /\ (pc' = "wait" => cur' = Nobody)
        /\ UNCHANGED waitVars /\ cur' = IF signaled # Nobody THEN signaled ELSE cur
        /\ Notify # Nobody
    BY <1>3, Names DEF CheckSignaled
  <2>2. CASE signaled # Nobody
    BY <2>1, <2>2 DEF WakeupInv, waitVars
  <2>3. CASE signaled = Nobody
    BY <2>1, <2>3 DEF WakeupInv, waitVars
  <2> QED
    BY <2>2, <2>3
<1>4. CASE WaitFindsReady
  <2>1. PICK i \in DOMAIN linked : WaitReturns(linked[i])
    BY <1>4 DEF WaitFindsReady
  <2>2. linked[i] # Nobody
    BY <2>1, LenProperties, ElementOfSeq, Names DEF TypeOK, ListTypes
  <2>3. pc \in {"wait", "asleep"}
    BY <1>4 DEF WaitFindsReady
  <2> QED
    BY <2>1, <2>2, <2>3 DEF WaitReturns, WakeupInv
<1>5. CASE Sleep
  BY <1>5
  DEF WakeupInv, Sleep, Goto, waitVars
<1>6. CASE WakeUp
  <2>1. PICK i \in DOMAIN linked : WaitReturns(linked[i])
    BY <1>6 DEF WakeUp
  <2>2. linked[i] # Nobody
    BY <2>1, LenProperties, ElementOfSeq, Names DEF TypeOK, ListTypes
  <2>3. pc \in {"wait", "asleep"}
    BY <1>6 DEF WakeUp
  <2> QED
    BY <2>1, <2>2, <2>3 DEF WaitReturns, WakeupInv
<1>7. CASE WaitCancelled
  BY <1>7
  DEF WakeupInv, WaitCancelled
<1>8. CASE UnlinkHolders
  BY <1>8
  DEF WakeupInv, UnlinkHolders, Goto
<1>9. CASE ClearNotify
  BY <1>9
  DEF WakeupInv, ClearNotify, Goto
<1>10. CASE TakeSelected
  BY <1>10
  DEF WakeupInv, TakeSelected, Goto
<1>11. CASE AcceptSession
  <2>1. pc \in Awake \ {"move"} /\ pc' \in Awake
    BY <1>11 DEF AcceptSession, Goto, Awake, LoopPoints
  <2>2. UNCHANGED waitVars
    BY <1>11 DEF AcceptSession
  <2> QED
    BY <2>1, <2>2, QuietStep
<1>12. CASE AcceptAborts
  <2>1. pc \in Awake \ {"move"} /\ pc' \in Awake
    BY <1>12 DEF AcceptAborts, Goto, Awake, LoopPoints
  <2>2. UNCHANGED waitVars
    BY <1>12 DEF AcceptAborts
  <2> QED
    BY <2>1, <2>2, QuietStep
<1>13. CASE ReceiveRequest
  <2>1. pc \in Awake \ {"move"} /\ pc' \in Awake
    BY <1>13 DEF ReceiveRequest, Goto, Awake, LoopPoints
  <2>2. UNCHANGED waitVars
    BY <1>13 DEF ReceiveRequest
  <2> QED
    BY <2>1, <2>2, QuietStep
<1>14. CASE ReceiveClosed
  <2>1. pc \in Awake \ {"move"} /\ pc' \in Awake
    BY <1>14 DEF ReceiveClosed, Goto, Awake, LoopPoints
  <2>2. UNCHANGED waitVars
    BY <1>14 DEF ReceiveClosed
  <2> QED
    BY <2>1, <2>2, QuietStep
<1>15. CASE DispatchRequest
  <2>1. pc \in Awake \ {"move"} /\ pc' \in Awake
    BY <1>15 DEF DispatchRequest, Goto, Awake, LoopPoints
  <2>2. UNCHANGED waitVars
    BY <1>15 DEF DispatchRequest
  <2> QED
    BY <2>1, <2>2, QuietStep
<1>16. CASE DispatchNewObject
  <2>1. pc \in Awake \ {"move"} /\ pc' \in Awake
    BY <1>16 DEF DispatchNewObject, Goto, Awake, LoopPoints
  <2>2. UNCHANGED waitVars
    BY <1>16 DEF DispatchNewObject
  <2> QED
    BY <2>1, <2>2, QuietStep
<1>17. CASE DispatchAborts
  <2>1. pc \in Awake \ {"move"} /\ pc' \in Awake
    BY <1>17 DEF DispatchAborts, Goto, Awake, LoopPoints
  <2>2. UNCHANGED waitVars
    BY <1>17 DEF DispatchAborts
  <2> QED
    BY <2>1, <2>2, QuietStep
<1>18. CASE DispatchCloses
  <2>1. pc \in Awake \ {"move"} /\ pc' \in Awake
    BY <1>18 DEF DispatchCloses, Goto, Awake, LoopPoints
  <2>2. UNCHANGED waitVars
    BY <1>18 DEF DispatchCloses
  <2> QED
    BY <2>1, <2>2, QuietStep
<1>19. CASE RegisterFresh
  BY <1>19
  DEF WakeupInv, RegisterFresh, Goto, RegisterToWaitList, SignalNotify
<1>20. CASE Reply
  <2>1. pc \in Awake \ {"move"} /\ pc' \in Awake
    BY <1>20 DEF Reply, Goto, Awake, LoopPoints
  <2>2. UNCHANGED waitVars
    BY <1>20 DEF Reply
  <2> QED
    BY <2>1, <2>2, QuietStep
<1>21. CASE RegisterSelected
  BY <1>21
  DEF WakeupInv, RegisterSelected, Goto, RegisterToWaitList, SignalNotify
<1>22. CASE DestroySession
  <2>1. pc \in Awake \ {"move"} /\ pc' \in Awake
    BY <1>22 DEF DestroySession, Goto, Awake, LoopPoints
  <2>2. UNCHANGED waitVars
    BY <1>22 DEF DestroySession
  <2> QED
    BY <2>1, <2>2, QuietStep
<1>23. CASE CloseHandle
  <2>1. pc \in Awake \ {"move"} /\ pc' \in Awake
    BY <1>23 DEF CloseHandle, Goto, Awake, LoopPoints
  <2>2. UNCHANGED waitVars
    BY <1>23 DEF CloseHandle
  <2> QED
    BY <2>1, <2>2, QuietStep
<1>24. CASE RegistrarLinks
  <2>1. /\ mutex' = TRUE
        /\ UNCHANGED <<notify, watched, signaled, cancel, pc, cur>>
    BY <1>24 DEF RegistrarLinks, loopVars
  <2> QED
    BY <2>1 DEF WakeupInv
<1>25. CASE RegistrarSignals
  <2>1. notify' = TRUE /\ UNCHANGED <<watched, pc, cur>>
    BY <1>25 DEF RegistrarSignals, SignalNotify, loopVars
  <2>2. CASE ~notify /\ watched /\ signaled = Nobody
    <3>1. signaled' = Notify /\ cancel' = TRUE /\ Notify # Nobody
      BY <1>25, <2>2, Names DEF RegistrarSignals, SignalNotify
    <3> QED
      BY <2>1, <3>1 DEF WakeupInv
  <2>3. CASE ~(~notify /\ watched /\ signaled = Nobody)
    <3>1. UNCHANGED <<signaled, cancel>>
      BY <1>25, <2>3 DEF RegistrarSignals, SignalNotify
    <3> QED
      BY <2>1, <2>3, <3>1 DEF WakeupInv
  <2> QED
    BY <2>2, <2>3
<1>26. CASE RegistrarReturns
  BY <1>26
  DEF WakeupInv, RegistrarReturns, Register, waitVars
<1>27. CASE UNCHANGED <<waitVars, loopVars>>
  BY <1>27 DEF waitVars, loopVars, WakeupInv
<1>28. QED
  BY <1>1, <1>2, <1>3, <1>4, <1>5, <1>6, <1>7, <1>8, <1>9, <1>10, <1>11, <1>12, <1>13,
      <1>14, <1>15, <1>16, <1>17, <1>18, <1>19, <1>20, <1>21, <1>22, <1>23, <1>24,
      <1>25, <1>26, <1>27
  DEF Next, LoopProcess, WaitAny, Process, RegisterSession, Clients, RegistrarCreates,
      Register, CreateSession, ClientConnects, ClientCalls, ClientCloses, vars,
      waitVars, loopVars, otherVars

\* The thread never sleeps over a holder that was handed to RegisterToWaitList:
\* for any number of registrations and any interleaving with the other thread.
THEOREM WakeupsAreKept == Spec => []NoLostWakeup
<1>1. Init => TypeOK /\ WakeupInv
  <2>1. Init => WakeupInv
    BY DEF Init, WakeupInv
  <2> QED
    BY <2>1, TypeInit
<1>2. TypeOK /\ WakeupInv /\ [Next]_vars => (TypeOK /\ WakeupInv)'
  BY TypeStep, WakeupStep
<1>3. WakeupInv => NoLostWakeup
  BY Names DEF WakeupInv, NoLostWakeup
<1> QED
  BY <1>1, <1>2, <1>3, PTL DEF Spec

\* The session in hand has a slot, and its client waits for the answer or is gone
\* until the answer is sent or the handle closed.
LEMMA SessionStep ==
  ASSUME TypeOK, SessionInv, [Next]_vars
  PROVE  SessionInv'
<1>1. CASE ProcessWaitList
  BY <1>1
  DEF SessionInv, ProcessWaitList, Goto, Processing
<1>2. CASE LinkHolders
  BY <1>2, Names
  DEF SessionInv, LinkHolders, Goto, Processing
<1>3. CASE CheckSignaled
  <2>1. pc = "check" /\ pc' \in {"wait", "unlink"} /\ UNCHANGED waitVars
    BY <1>3 DEF CheckSignaled
  <2>2. cur' \in {Notify, Nobody}
    BY <1>3 DEF CheckSignaled, SessionInv
  <2>3. cur' \notin Slots
    BY <2>2, Names
  <2> QED
    BY <2>1, <2>2, <2>3 DEF SessionInv, Processing, waitVars
<1>4. CASE WaitFindsReady
  <2>1. PICK i \in DOMAIN linked : Ready(linked[i]) /\ WaitReturns(linked[i])
    BY <1>4 DEF WaitFindsReady
  <2>2. linked[i] \in Slots => slot[linked[i]] # Nobody
    BY <2>1, Names DEF Ready
  <2> QED
    BY <2>1, <2>2 DEF WaitReturns, SessionInv, Processing
<1>5. CASE Sleep
  BY <1>5
  DEF SessionInv, Sleep, Goto, Processing, waitVars
<1>6. CASE WakeUp
  <2>1. PICK i \in DOMAIN linked : Ready(linked[i]) /\ WaitReturns(linked[i])
    BY <1>6 DEF WakeUp
  <2>2. linked[i] \in Slots => slot[linked[i]] # Nobody
    BY <2>1, Names DEF Ready
  <2> QED
    BY <2>1, <2>2 DEF WaitReturns, SessionInv, Processing
<1>7. CASE WaitCancelled
  BY <1>7, Names
  DEF SessionInv, WaitCancelled, Processing
<1>8. CASE UnlinkHolders
  BY <1>8
  DEF SessionInv, UnlinkHolders, Goto, Processing, TypeOK, LoopTypes
<1>9. CASE ClearNotify
  BY <1>9, Names
  DEF SessionInv, ClearNotify, Goto, Processing
<1>10. CASE TakeSelected
  BY <1>10
  DEF SessionInv, TakeSelected, Goto, Processing
<1>11. CASE AcceptSession
  <2>1. PICK s \in Slots, h \in Handles :
          /\ slot[s] = Nobody /\ sess[h] = "none"
          /\ slot' = [slot EXCEPT ![s] = h]
          /\ sess' = [sess EXCEPT ![h] = "idle"]
    BY <1>11 DEF AcceptSession, CreateSession, FreeSlots, Unused
  <2>2. \A x \in Slots : slot[x] # Nobody => slot'[x] = slot[x]
    BY <2>1 DEF TypeOK, KernelTypes
  <2>3. \A k \in Handles : sess[k] \in {"serving", "gone"} => sess'[k] = sess[k]
    BY <2>1 DEF TypeOK, KernelTypes
  <2>4. \A x \in Slots : slot[x] # Nobody => slot[x] \in Handles
    BY DEF TypeOK, KernelTypes
  <2> QED
    BY <1>11, <2>2, <2>3, <2>4, Names DEF SessionInv, AcceptSession, Goto, waitVars, Processing
<1>12. CASE AcceptAborts
  BY <1>12
  DEF SessionInv, AcceptAborts, Goto, Processing, waitVars
<1>13. CASE ReceiveRequest
  BY <1>13
  DEF SessionInv, ReceiveRequest, Goto, TypeOK, KernelTypes, Processing
<1>14. CASE ReceiveClosed
  BY <1>14
  DEF SessionInv, ReceiveClosed, Goto, Processing, waitVars
<1>15. CASE DispatchRequest
  BY <1>15
  DEF SessionInv, DispatchRequest, Goto, Processing, waitVars, TypeOK, LoopTypes
<1>16. CASE DispatchNewObject
  <2>1. PICK s \in Slots, h \in Handles :
          /\ slot[s] = Nobody /\ sess[h] = "none"
          /\ slot' = [slot EXCEPT ![s] = h]
          /\ sess' = [sess EXCEPT ![h] = "given"]
    BY <1>16 DEF DispatchNewObject, CreateSession, FreeSlots, Unused
  <2>2. \A x \in Slots : slot[x] # Nobody => slot'[x] = slot[x]
    BY <2>1 DEF TypeOK, KernelTypes
  <2>3. \A k \in Handles : sess[k] \in {"serving", "gone"} => sess'[k] = sess[k]
    BY <2>1 DEF TypeOK, KernelTypes
  <2>4. \A x \in Slots : slot[x] # Nobody => slot[x] \in Handles
    BY DEF TypeOK, KernelTypes
  <2> QED
    BY <1>16, <2>2, <2>3, <2>4 DEF SessionInv, DispatchNewObject, Goto, waitVars, Processing
<1>17. CASE DispatchAborts
  BY <1>17
  DEF SessionInv, DispatchAborts, Goto, Processing, waitVars
<1>18. CASE DispatchCloses
  BY <1>18
  DEF SessionInv, DispatchCloses, Goto, Processing, waitVars, TypeOK, LoopTypes
<1>19. CASE RegisterFresh
  BY <1>19, Names
  DEF SessionInv, RegisterFresh, Goto, RegisterToWaitList, SignalNotify, Processing,
      TypeOK, LoopTypes
<1>20. CASE Reply
  BY <1>20
  DEF SessionInv, Reply, Goto, Processing, waitVars
<1>21. CASE RegisterSelected
  BY <1>21
  DEF SessionInv, RegisterSelected, Goto, RegisterToWaitList, SignalNotify, Processing,
      waitVars
<1>22. CASE DestroySession
  BY <1>22
  DEF SessionInv, DestroySession, Goto, TypeOK, LoopTypes, KernelTypes, Processing
<1>23. CASE CloseHandle
  BY <1>23
  DEF SessionInv, CloseHandle, Goto, Processing, waitVars
<1>24. CASE RegistrarCreates
  <2>1. PICK s \in Slots, h \in Handles :
          /\ slot[s] = Nobody /\ sess[h] = "none"
          /\ slot' = [slot EXCEPT ![s] = h]
          /\ sess' = [sess EXCEPT ![h] = "idle"]
    BY <1>24 DEF RegistrarCreates, CreateSession, FreeSlots, Unused
  <2>2. \A x \in Slots : slot[x] # Nobody => slot'[x] = slot[x]
    BY <2>1 DEF TypeOK, KernelTypes
  <2>3. \A k \in Handles : sess[k] \in {"serving", "gone"} => sess'[k] = sess[k]
    BY <2>1 DEF TypeOK, KernelTypes
  <2>4. \A x \in Slots : slot[x] # Nobody => slot[x] \in Handles
    BY DEF TypeOK, KernelTypes
  <2> QED
    BY <1>24, <2>2, <2>3, <2>4 DEF SessionInv, RegistrarCreates, Register, loopVars, waitVars, Processing
<1>25. CASE RegistrarLinks
  BY <1>25
  DEF SessionInv, RegistrarLinks, Register, loopVars
<1>26. CASE RegistrarSignals
  BY <1>26
  DEF SessionInv, RegistrarSignals, Register, SignalNotify, loopVars
<1>27. CASE RegistrarReturns
  BY <1>27
  DEF SessionInv, RegistrarReturns, Register, waitVars, Processing
<1>28. CASE \E h \in Handles : ClientCalls(h)
  <2>1. PICK h \in Handles : sess[h] \in {"idle"} /\ sess' = [sess EXCEPT ![h] = "sent"]
    BY <1>28 DEF ClientCalls
  <2>2. \A k \in Handles : sess[k] \in {"serving", "gone"} => sess'[k] \in {"serving", "gone"}
    BY <2>1 DEF TypeOK, KernelTypes
  <2>3. \A x \in Slots : slot[x] # Nobody => slot[x] \in Handles
    BY DEF TypeOK, KernelTypes
  <2>4. UNCHANGED <<waitVars, loopVars, slot>>
    BY <1>28 DEF ClientCalls
  <2> QED
    BY <2>2, <2>3, <2>4 DEF SessionInv, Processing, waitVars, loopVars
<1>29. CASE \E h \in Handles : ClientCloses(h)
  <2>1. PICK h \in Handles : sess[h] \in {"idle", "sent", "serving"} /\ sess' = [sess EXCEPT ![h] = "gone"]
    BY <1>29 DEF ClientCloses
  <2>2. \A k \in Handles : sess[k] \in {"serving", "gone"} => sess'[k] \in {"serving", "gone"}
    BY <2>1 DEF TypeOK, KernelTypes
  <2>3. \A x \in Slots : slot[x] # Nobody => slot[x] \in Handles
    BY DEF TypeOK, KernelTypes
  <2>4. UNCHANGED <<waitVars, loopVars, slot>>
    BY <1>29 DEF ClientCloses
  <2> QED
    BY <2>2, <2>3, <2>4 DEF SessionInv, Processing, waitVars, loopVars
<1>30. CASE UNCHANGED <<waitVars, loopVars, slot, sess>>
  BY <1>30 DEF waitVars, loopVars, SessionInv
<1>31. QED
  BY <1>1, <1>2, <1>3, <1>4, <1>5, <1>6, <1>7, <1>8, <1>9, <1>10, <1>11, <1>12, <1>13,
      <1>14, <1>15, <1>16, <1>17, <1>18, <1>19, <1>20, <1>21, <1>22, <1>23, <1>24,
      <1>25, <1>26, <1>27, <1>28, <1>29, <1>30
  DEF Next, LoopProcess, WaitAny, Process, RegisterSession, Clients, ClientConnects,
      vars, waitVars, loopVars, otherVars

\* What closing knows: the pending close is of one session, and other steps leave
\* it alone.
Closing(h) == pc = "close_handle" /\ fresh = h

\* A step that neither opens nor closes a session keeps their owners.
LEMMA SameSessions ==
  ASSUME SessionsAreOwned, slot' = slot,
         \A h \in Handles : sess[h] = "none" <=> sess'[h] = "none",
         \A h \in Handles : Closing(h) <=> Closing(h)',
         \A s \in Slots : slot[s] # Nobody => slot[s] \in Handles
  PROVE  SessionsAreOwned'
BY DEF SessionsAreOwned, Closing, FreeSlots, Unused

\* SessionsAreOwned, read for the slots.
LEMMA Owners ==
  ASSUME SessionsAreOwned
  PROVE  /\ \A x \in Slots : slot[x] # Nobody => sess[slot[x]] # "none"
         /\ \A x, y \in Slots : slot[x] # Nobody /\ slot[x] = slot[y] => x = y
BY DEF SessionsAreOwned, FreeSlots

\* A step that opens a session for a free slot keeps their owners.
LEMMA OneMoreSession ==
  ASSUME TypeOK, SessionsAreOwned, NEW s \in Slots, NEW h \in Handles, NEW st,
         slot[s] = Nobody, sess[h] = "none", st # "none",
         slot' = [slot EXCEPT ![s] = h], sess' = [sess EXCEPT ![h] = st],
         \A k \in Handles : Closing(k) <=> Closing(k)', ~Closing(h)
  PROVE  SessionsAreOwned'
<1>1. /\ \A x \in Slots : slot'[x] = IF x = s THEN h ELSE slot[x]
      /\ \A k \in Handles : sess'[k] = IF k = h THEN st ELSE sess[k]
      /\ \A x \in Slots : slot[x] # Nobody => slot[x] \in Handles
      /\ h # Nobody
  BY Names DEF TypeOK, KernelTypes
<1>2. \A x \in Slots : slot[x] # Nobody => slot[x] # h
  BY <1>1 DEF SessionsAreOwned, FreeSlots
<1>3. \A x \in Slots : slot'[x] # Nobody => sess'[slot'[x]] # "none"
  <2> SUFFICES ASSUME NEW x \in Slots, slot'[x] # Nobody
               PROVE  sess'[slot'[x]] # "none"
    OBVIOUS
  <2>1. CASE x = s
    BY <1>1, <2>1
  <2>2. CASE x # s
    BY <1>1, <1>2, <2>2, Owners
  <2> QED
    BY <2>1, <2>2
<1>4. \A x, y \in Slots : slot'[x] # Nobody /\ slot'[x] = slot'[y] => x = y
  <2>1. \A x, y \in Slots : slot[x] # Nobody /\ slot[x] = slot[y] => x = y
    BY Owners
  <2> QED
    BY <1>1, <1>2, <2>1
<1>5. \A k \in Handles \ Unused' : (\E x \in Slots : slot'[x] = k) <=> ~Closing(k)'
  <2> SUFFICES ASSUME NEW k \in Handles \ Unused'
               PROVE  (\E x \in Slots : slot'[x] = k) <=> ~Closing(k)'
    OBVIOUS
  <2>1. CASE k = h
    BY <1>1, <2>1
  <2>2. CASE k # h
    <3>1. k \in Handles \ Unused
      BY <1>1, <2>2 DEF Unused
    <3>2. (\E x \in Slots : slot'[x] = k) <=> (\E x \in Slots : slot[x] = k)
      BY <1>1, <2>2, Names
    <3> QED
      BY <3>1, <3>2 DEF SessionsAreOwned, Closing
  <2> QED
    BY <2>1, <2>2
<1> QED
  BY <1>3, <1>4, <1>5 DEF SessionsAreOwned, Closing, FreeSlots

\* The slots and the sessions stay one to one.
LEMMA OwnersStep ==
  ASSUME TypeOK, SessionInv, SessionsAreOwned, [Next]_vars
  PROVE  SessionsAreOwned'
<1>0. /\ \A s \in Slots : slot[s] # Nobody => slot[s] \in Handles
      /\ slot \in [Slots -> Handles \cup {Nobody}]
      /\ sess \in [Handles -> {"none", "given", "idle", "sent", "serving", "gone"}]
  BY DEF TypeOK, KernelTypes
<1>1. CASE AcceptSession
  <2>1. PICK s \in Slots, h \in Handles :
          /\ slot[s] = Nobody /\ sess[h] = "none"
          /\ slot' = [slot EXCEPT ![s] = h]
          /\ sess' = [sess EXCEPT ![h] = "idle"]
    BY <1>1 DEF AcceptSession, CreateSession, FreeSlots, Unused
  <2>2. pc # "close_handle" /\ pc' # "close_handle"
    BY <1>1 DEF AcceptSession, Goto
  <2> QED
    BY <2>1, <2>2, OneMoreSession DEF Closing
<1>2. CASE DispatchNewObject
  <2>1. PICK s \in Slots, h \in Handles :
          /\ slot[s] = Nobody /\ sess[h] = "none"
          /\ slot' = [slot EXCEPT ![s] = h]
          /\ sess' = [sess EXCEPT ![h] = "given"]
    BY <1>2 DEF DispatchNewObject, CreateSession, FreeSlots, Unused
  <2>2. pc # "close_handle" /\ pc' # "close_handle"
    BY <1>2 DEF DispatchNewObject, Goto
  <2> QED
    BY <2>1, <2>2, OneMoreSession DEF Closing
<1>3. CASE RegistrarCreates
  <2>1. PICK s \in Slots, h \in Handles :
          /\ slot[s] = Nobody /\ sess[h] = "none"
          /\ slot' = [slot EXCEPT ![s] = h]
          /\ sess' = [sess EXCEPT ![h] = "idle"]
    BY <1>3 DEF RegistrarCreates, CreateSession, FreeSlots, Unused
  <2>2. UNCHANGED <<pc, fresh>>
    BY <1>3 DEF RegistrarCreates, loopVars
  <2>3. \A k \in Handles : Closing(k) <=> Closing(k)'
    BY <2>2 DEF Closing
  <2>4. ~Closing(h)
    BY <2>1 DEF Closing, SessionInv
  <2> QED
    BY <2>1, <2>3, <2>4, OneMoreSession
<1>4. CASE DestroySession
  <2>1. /\ pc = "close" /\ cur \in Slots /\ slot[cur] \in Handles /\ slot[cur] # Nobody
        /\ pc' = "close_handle" /\ fresh' = slot[cur]
        /\ slot' = [slot EXCEPT ![cur] = Nobody] /\ sess' = sess
    BY <1>0, <1>4 DEF DestroySession, Goto, TypeOK, LoopTypes, SessionInv, Processing
  <2>2. \A x \in Slots : slot'[x] = IF x = cur THEN Nobody ELSE slot[x]
    BY <1>0, <2>1
  <2>3. \A x \in Slots : slot'[x] # Nobody => sess'[slot'[x]] # "none"
    BY <2>1, <2>2, Owners
  <2>4. \A x, y \in Slots : slot'[x] # Nobody /\ slot'[x] = slot'[y] => x = y
    BY <2>2, Owners
  <2>5. \A k \in Handles \ Unused : \E x \in Slots : slot[x] = k
    BY <2>1 DEF SessionsAreOwned
  <2>6. \A x \in Slots : x # cur => slot[x] # slot[cur]
    BY <2>1 DEF SessionsAreOwned, FreeSlots
  <2>7. \A k \in Handles \ Unused' : (\E x \in Slots : slot'[x] = k) <=> ~Closing(k)'
    BY <2>1, <2>2, <2>5, <2>6, Names DEF Unused, Closing
  <2> QED
    BY <2>3, <2>4, <2>7 DEF SessionsAreOwned, Closing, FreeSlots
<1>5. CASE CloseHandle
  <2>1. /\ Closing(fresh) /\ fresh \in Handles /\ sess[fresh] # "none"
        /\ pc' = "move" /\ slot' = slot
        /\ \A k \in Handles : sess'[k] = IF k = fresh THEN "none" ELSE sess[k]
    BY <1>0, <1>5 DEF CloseHandle, Goto, SessionInv, Closing
  <2>2. \A x \in Slots : slot[x] # fresh
    BY <2>1 DEF SessionsAreOwned, Unused, Closing
  <2>3. \A x \in Slots : slot'[x] # Nobody => sess'[slot'[x]] # "none"
    BY <1>0, <2>1, <2>2, Owners
  <2>4. \A x, y \in Slots : slot'[x] # Nobody /\ slot'[x] = slot'[y] => x = y
    BY <2>1, Owners
  <2>5. \A k \in Handles \ Unused' : (\E x \in Slots : slot'[x] = k) <=> ~Closing(k)'
    BY <2>1 DEF SessionsAreOwned, Unused, Closing
  <2> QED
    BY <2>3, <2>4, <2>5 DEF SessionsAreOwned, Closing, FreeSlots
<1>6. CASE ReceiveRequest
  <2>1. \A k \in Handles : sess[k] = "none" <=> sess'[k] = "none"
    BY <1>0, <1>6 DEF ReceiveRequest, Goto
  <2>2. slot' = slot /\ \A k \in Handles : Closing(k) <=> Closing(k)'
    BY <1>6 DEF ReceiveRequest, Closing, Goto
  <2> QED
    BY <1>0, <2>1, <2>2, SameSessions
<1>7. CASE Reply
  <2>1. \A k \in Handles : sess[k] = "none" <=> sess'[k] = "none"
    <3>1. slot[cur] \in Handles /\ sess[slot[cur]] # "none"
      BY <1>0, <1>7 DEF Reply, Goto, TypeOK, LoopTypes, SessionInv, Processing
    <3>2. \A k \in Handles : IF k = slot[cur] \/ sess[k] = "given"
                              THEN sess'[k] \in {"gone", "idle"} ELSE sess'[k] = sess[k]
      BY <1>7 DEF Reply
    <3> QED
      BY <3>1, <3>2
  <2>2. slot' = slot /\ \A k \in Handles : Closing(k) <=> Closing(k)'
    BY <1>7 DEF Reply, Closing, Goto
  <2> QED
    BY <1>0, <2>1, <2>2, SameSessions
<1>8. CASE \E h \in Handles : ClientCalls(h)
  <2>1. \A k \in Handles : sess[k] = "none" <=> sess'[k] = "none"
    BY <1>0, <1>8 DEF ClientCalls
  <2>2. slot' = slot /\ \A k \in Handles : Closing(k) <=> Closing(k)'
    BY <1>8 DEF ClientCalls, Closing, loopVars
  <2> QED
    BY <1>0, <2>1, <2>2, SameSessions
<1>9. CASE \E h \in Handles : ClientCloses(h)
  <2>1. \A k \in Handles : sess[k] = "none" <=> sess'[k] = "none"
    BY <1>0, <1>9 DEF ClientCloses
  <2>2. slot' = slot /\ \A k \in Handles : Closing(k) <=> Closing(k)'
    BY <1>9 DEF ClientCloses, Closing, loopVars
  <2> QED
    BY <1>0, <2>1, <2>2, SameSessions
<1>10. CASE /\ slot' = slot /\ sess' = sess
          /\ \A k \in Handles : Closing(k) <=> Closing(k)'
  BY <1>0, <1>10, SameSessions
<1>11. QED
  BY <1>1, <1>2, <1>3, <1>4, <1>5, <1>6, <1>7, <1>8, <1>9, <1>10
  DEF Next, LoopProcess, WaitAny, Process, RegisterSession, Clients, ProcessWaitList,
      Goto, LinkHolders, CheckSignaled, WaitFindsReady, WaitReturns, Sleep, WakeUp,
      WaitCancelled, UnlinkHolders, ClearNotify, TakeSelected, AcceptAborts,
      ReceiveClosed, DispatchRequest, DispatchAborts, DispatchCloses, RegisterFresh,
      RegisterSelected, RegistrarLinks, Register, RegistrarSignals, RegistrarReturns,
      ClientConnects, Closing, vars, waitVars, loopVars, otherVars

\* The inductive invariant of the server manager, for any servers, slots and
\* kernel sessions.
THEOREM ServerInvariant == Spec => []ServerInv
<1>1. Init => ServerInv
  <2>1. Init => WakeupInv
    BY DEF Init, WakeupInv
  <2>2. Init => SessionInv
    BY DEF Init, SessionInv, Processing
  <2>3. Init => SessionsAreOwned
    BY DEF Init, SessionsAreOwned, FreeSlots, Unused
  <2> QED
    BY <2>1, <2>2, <2>3, TypeInit DEF ServerInv
<1>2. ServerInv /\ [Next]_vars => ServerInv'
  BY TypeStep, WakeupStep, SessionStep, OwnersStep DEF ServerInv
<1> QED
  BY <1>1, <1>2, PTL DEF Spec

\* Every open session has one slot, every slot in use one open session: the
\* destruction of a session leaks no handle, although the other thread may take
\* the slot before the handle is closed (CloseSessionImpl).
THEOREM SessionsHaveOwners == Spec => []SessionsAreOwned
<1>1. ServerInv => SessionsAreOwned
  BY DEF ServerInv
<1> QED
  BY <1>1, ServerInvariant, PTL

\* A step closes only the session the thread is serving or whose client is gone.
LEMMA ClosesStep ==
  ASSUME ServerInv, [Next]_vars, NEW h \in Handles, sess[h] # "none", sess'[h] = "none"
  PROVE  sess[h] \in {"serving", "gone"}
<1>0. sess \in [Handles -> {"none", "given", "idle", "sent", "serving", "gone"}]
  BY DEF ServerInv, TypeOK, KernelTypes
<1>1. CASE CloseHandle
  <2>1. fresh \in Handles /\ sess[fresh] \in {"serving", "gone"}
    BY <1>1 DEF CloseHandle, Goto, ServerInv, SessionInv
  <2>2. h = fresh
    BY <1>0, <1>1, <2>1 DEF CloseHandle
  <2> QED
    BY <2>1, <2>2
<1>2. CASE Reply
  BY <1>0, <1>2 DEF Reply
<1>3. CASE \E k \in Handles : ClientCalls(k) \/ ClientCloses(k)
  BY <1>0, <1>3 DEF ClientCalls, ClientCloses
<1>4. CASE ReceiveRequest
  BY <1>0, <1>4 DEF ReceiveRequest
<1>5. CASE \E s \in Slots : CreateSession(s, "idle") \/ CreateSession(s, "given")
  BY <1>0, <1>5 DEF CreateSession
<1>6. CASE sess' = sess
  BY <1>6
<1>7. QED
  BY <1>1, <1>2, <1>3, <1>4, <1>5, <1>6
  DEF Next, LoopProcess, WaitAny, Process, RegisterSession, Clients, ProcessWaitList,
      LinkHolders, CheckSignaled, WaitFindsReady, WaitReturns, Sleep, WakeUp,
      WaitCancelled, UnlinkHolders, ClearNotify, TakeSelected, AcceptSession,
      AcceptAborts, ReceiveClosed, DispatchRequest, DispatchNewObject, DispatchAborts,
      DispatchCloses, RegisterFresh, RegisterSelected, DestroySession, RegistrarCreates,
      RegistrarLinks, RegistrarSignals, RegistrarReturns, ClientConnects, vars

\* CloseSessionImpl closes the handle it has read before the slot was freed, so
\* no session is closed but one being served or one its client has left.
THEOREM ClosesOnlyItsOwn == Spec => ClosesOnlyServed
<1>1. ServerInv /\ [Next]_vars
        => [\A h \in Handles : sess[h] # "none" /\ sess'[h] = "none"
                                 => sess[h] \in {"serving", "gone"}]_vars
  BY ClosesStep
<1> QED
  BY <1>1, ServerInvariant, PTL DEF Spec, ClosesOnlyServed

--------------------------------------------------------------------------------
\* How often a holder is on a list, when lists are joined, extended and cut.

\* The places of a list at which something stands are finitely many.
LEMMA TimesType ==
  ASSUME NEW S, NEW s \in Seq(S), NEW x
  PROVE  IsFiniteSet({i \in DOMAIN s : s[i] = x}) /\ Times(s, x) \in Nat
<1>1. IsFiniteSet(1 .. Len(s))
  BY LenProperties, FS_Interval
<1>2. {i \in DOMAIN s : s[i] = x} \in SUBSET (1 .. Len(s))
  BY LenProperties
<1> QED
  BY <1>1, <1>2, FS_Subset, FS_CardinalityType DEF Times

\* Nothing occurs in an empty list.
LEMMA TimesEmpty ==
  ASSUME NEW x
  PROVE  Times(<<>>, x) = 0
<1>1. {i \in DOMAIN <<>> : <<>>[i] = x} = {}
  OBVIOUS
<1> QED
  BY <1>1, FS_EmptySet DEF Times

\* What occurs in two lists joined occurs in one or the other.
LEMMA TimesConcat ==
  ASSUME NEW S, NEW s \in Seq(S), NEW t \in Seq(S), NEW x
  PROVE  Times(s \o t, x) = Times(s, x) + Times(t, x)
<1> DEFINE A == {i \in DOMAIN s : s[i] = x}
           B == {i \in DOMAIN t : t[i] = x}
           C == {i \in (Len(s) + 1) .. (Len(s) + Len(t)) : t[i - Len(s)] = x}
           shift == [i \in B |-> i + Len(s)]
<1>1. /\ Len(s) \in Nat /\ Len(t) \in Nat
      /\ DOMAIN s = 1 .. Len(s) /\ DOMAIN t = 1 .. Len(t)
      /\ DOMAIN (s \o t) = 1 .. (Len(s) + Len(t))
      /\ \A i \in 1 .. (Len(s) + Len(t)) :
           (s \o t)[i] = IF i <= Len(s) THEN s[i] ELSE t[i - Len(s)]
  BY LenProperties, ConcatProperties
<1>2. {i \in DOMAIN (s \o t) : (s \o t)[i] = x} = A \cup C /\ A \cap C = {}
  BY <1>1
<1>3. shift \in Bijection(B, C)
  <2>1. shift \in [B -> C] /\ \A i, j \in B : shift[i] = shift[j] => i = j
    BY <1>1
  <2>2. \A k \in C : k - Len(s) \in B /\ shift[k - Len(s)] = k
    BY <1>1
  <2> QED
    BY <2>1, <2>2 DEF Bijection, Injection, Surjection, IsInjective
<1>4. IsFiniteSet(A) /\ IsFiniteSet(B)
  BY TimesType
<1>5. IsFiniteSet(C) /\ Cardinality(C) = Cardinality(B)
  BY <1>3, <1>4, FS_Bijection DEF ExistsBijection
<1>6. Cardinality(A \cup C) = Cardinality(A) + Cardinality(C) - Cardinality(A \cap C)
  BY <1>4, <1>5, FS_Union
<1>7. Cardinality(A) \in Nat /\ Cardinality(C) \in Nat /\ Cardinality(A \cap C) = 0
  BY <1>2, <1>4, <1>5, FS_EmptySet, FS_CardinalityType
<1>8. Times(s \o t, x) = Cardinality(A \cup C)
  BY <1>2 DEF Times
<1>9. Times(s, x) = Cardinality(A) /\ Times(t, x) = Cardinality(B)
  BY DEF Times
<1> HIDE DEF A, B, C
<1> QED
  BY <1>5, <1>6, <1>7, <1>8, <1>9

\* A list of one element has just that.
LEMMA TimesOne ==
  ASSUME NEW e, NEW x
  PROVE  Times(<<e>>, x) = Once(e = x)
<1>1. {i \in DOMAIN <<e>> : <<e>>[i] = x} = IF e = x THEN {1} ELSE {}
  OBVIOUS
<1> QED
  BY <1>1, FS_EmptySet, FS_Singleton DEF Times, Once

\* An element put at the end occurs once more.
LEMMA TimesAppend ==
  ASSUME NEW S, NEW s \in Seq(S), NEW e \in S, NEW x
  PROVE  Times(Append(s, e), x) = Times(s, x) + Once(e = x)
<1>1. Append(s, e) = s \o <<e>> /\ <<e>> \in Seq(S)
  BY AppendIsConcat
<1>2. Times(s \o <<e>>, x) = Times(s, x) + Times(<<e>>, x)
  BY <1>1, TimesConcat
<1> QED
  BY <1>1, <1>2, TimesOne

\* Cutting out the place i.
LEMMA TimesWithout ==
  ASSUME NEW S, NEW s \in Seq(S), NEW i \in DOMAIN s, NEW x
  PROVE  Times(s, x) = Times(SubSeq(s, 1, i - 1) \o SubSeq(s, i + 1, Len(s)), x) + Once(s[i] = x)
<1> DEFINE a == SubSeq(s, 1, i - 1)
           b == SubSeq(s, i + 1, Len(s))
<1>1. i \in 1 .. Len(s) /\ Len(s) \in Nat /\ \A j \in 1 .. Len(s) : s[j] \in S
  BY LenProperties, ElementOfSeq
<1>2. a \in Seq(S) /\ b \in Seq(S) /\ SubSeq(s, 1, i) \in Seq(S) /\ s[i] \in S /\ <<s[i]>> \in Seq(S)
  <2>1. a \in Seq(S)
    BY <1>1, SubSeqProperties
  <2>2. b \in Seq(S)
    BY <1>1, SubSeqProperties
  <2>3. SubSeq(s, 1, i) \in Seq(S)
    BY <1>1, SubSeqProperties
  <2> QED
    BY <1>1, <2>1, <2>2, <2>3
<1>3. SubSeq(s, 1, i) = a \o <<s[i]>>
  BY <1>1, SubSeqRecursiveSecond
<1>4. s = SubSeq(s, 1, i) \o b
  <2>1. SubSeq(s, 1, i) \o b = SubSeq(s, 1, Len(s))
    <3>1. /\ 1 \in 1 .. Len(s) + 1
          /\ i \in 1 - 1 .. Len(s)
          /\ Len(s) \in i .. Len(s)
      BY <1>1
    <3> QED
      BY <3>1, ConcatAdjacentSubSeq
  <2> QED
    BY <2>1, SubSeqFull
<1>5. Times(s, x) = Times(SubSeq(s, 1, i), x) + Times(b, x)
  <2>1. Times(SubSeq(s, 1, i) \o b, x) = Times(SubSeq(s, 1, i), x) + Times(b, x)
    BY <1>2, TimesConcat
  <2> QED
    BY <1>4, <2>1
<1>6. Times(SubSeq(s, 1, i), x) = Times(a, x) + Once(s[i] = x)
  <2>1. Times(a \o <<s[i]>>, x) = Times(a, x) + Times(<<s[i]>>, x)
    BY <1>2, TimesConcat
  <2>2. Times(SubSeq(s, 1, i), x) = Times(a, x) + Times(<<s[i]>>, x)
    BY <1>3, <2>1, Zenon
  <2> QED
    BY <2>2, TimesOne
<1>7. Times(a \o b, x) = Times(a, x) + Times(b, x)
  BY <1>2, TimesConcat
<1>8. Times(a, x) \in Nat /\ Times(b, x) \in Nat /\ Once(s[i] = x) \in Nat
  BY <1>2, TimesType DEF Once
<1> QED
  BY <1>5, <1>6, <1>7, <1>8

\* RegisterServers has linked each server once.
LEMMA TimesOfAll ==
  ASSUME NEW S, IsFiniteSet(S), NEW s \in [1 .. Cardinality(S) -> S],
         \A i, j \in DOMAIN s : s[i] = s[j] => i = j, NEW x
  PROVE  Times(s, x) = Once(x \in S)
<1> DEFINE n == Cardinality(S)
<1>1. n \in Nat /\ IsFiniteSet(1 .. n) /\ Cardinality(1 .. n) = n
  BY FS_CardinalityType, FS_Interval
<1>2. s \in Injection(1 .. n, S)
  BY DEF Injection, IsInjective
<1>3. s \in Surjection(1 .. n, S)
  BY <1>1, <1>2, FS_Injection
<1>4. CASE x \in S
  <2>1. PICK i \in 1 .. n : s[i] = x
    BY <1>3, <1>4 DEF Surjection
  <2>2. {j \in DOMAIN s : s[j] = x} = {i}
    BY <2>1
  <2> QED
    BY <1>4, <2>2, FS_Singleton DEF Times, Once
<1>5. CASE x \notin S
  <2>1. {j \in DOMAIN s : s[j] = x} = {}
    BY <1>5
  <2> QED
    BY <1>5, <2>1, FS_EmptySet DEF Times, Once
<1> QED
  BY <1>4, <1>5

--------------------------------------------------------------------------------
\* The numbers a place contributes.
LEMMA PlaceNumbers ==
  ASSUME TypeOK
  PROVE  /\ linked \in Seq(Holders) /\ waitlist \in Seq(Holders)
         /\ \A x : Times(linked, x) \in Nat /\ Times(waitlist, x) \in Nat
BY TimesType DEF TypeOK, ListTypes

\* What the threads hold and the free slots stay: so do the places.
LEMMA SamePlaces ==
  ASSUME TypeOK, HolderInv, slot' = slot, pc # "aborted",
         \A x \in Holders : Places(x)' = Places(x),
         registrar' # "link" => incoming' = Nobody
  PROVE  HolderInv'
BY DEF HolderInv, NoHolderLost, FreeSlots

\* A free slot comes into the hands of one thread.
LEMMA OneMoreHolder ==
  ASSUME TypeOK, HolderInv, NEW s \in FreeSlots, NEW h \in Handles, pc # "aborted",
         slot' = [slot EXCEPT ![s] = h],
         \A x \in Holders : Places(x)' = Places(x) + Once(x = s),
         registrar' # "link" => incoming' = Nobody
  PROVE  HolderInv'
<1>1. s \in Slots /\ h # Nobody /\ FreeSlots' = FreeSlots \ {s}
  BY Names DEF FreeSlots, TypeOK, KernelTypes
<1> QED
  BY <1>1 DEF HolderInv, NoHolderLost, Once

\* Each step moves a holder from one place to another, or makes a free slot of a
\* session that is in no place but the thread's hands.
LEMMA HolderStep ==
  ASSUME TypeOK, HolderInv, [Next]_vars
  PROVE  HolderInv'
<1> USE DEF waitVars, loopVars, otherVars
<1>0. \A x \in Holders : Times(linked, x) \in Nat /\ Times(waitlist, x) \in Nat
  BY PlaceNumbers
<1>1. CASE ProcessWaitList
  <2>1. \A x \in Holders : Times(linked, x)' = Times(linked, x) + Times(waitlist, x)
    BY <1>1, PlaceNumbers, TimesConcat DEF ProcessWaitList
  <2>2. \A x \in Holders : Times(waitlist, x)' = 0
    BY <1>1, TimesEmpty DEF ProcessWaitList
  <2>3. \A x \in Holders : Places(x)' = Places(x)
    BY <1>0, <1>1, <2>1, <2>2 DEF ProcessWaitList, Goto, Places, Processing
  <2> QED
    BY <1>1, <2>3, SamePlaces DEF ProcessWaitList, Goto, HolderInv
<1>2. CASE TakeSelected
  <2>1. PICK i \in DOMAIN linked :
          /\ linked[i] = cur
          /\ linked' = SubSeq(linked, 1, i - 1) \o SubSeq(linked, i + 1, Len(linked))
    BY <1>2 DEF TakeSelected
  <2>2. \A x \in Holders : Times(linked, x) = Times(linked, x)' + Once(cur = x)
    BY <2>1, PlaceNumbers, TimesWithout
  <2>3. linked' \in Seq(Holders)
    BY TypeStep DEF TypeOK, ListTypes
  <2>4. \A x \in Holders : Times(linked, x)' \in Nat
    BY <2>3, TimesType
  <2>5. \A x \in Holders : Places(x)' = Places(x)
    BY SMTT(30), <1>0, <1>2, <2>2, <2>4 DEF TakeSelected, Goto, Places, Processing, Once
  <2> QED
    BY <1>2, <2>5, SamePlaces DEF TakeSelected, Goto, HolderInv
<1>3. CASE RegisterFresh
  <2>1. fresh \in Holders /\ pc # "aborted"
    BY <1>3, Names DEF RegisterFresh, Goto, TypeOK, LoopTypes
  <2>2. \A x \in Holders : Times(waitlist, x)' = Times(waitlist, x) + Once(fresh = x)
    BY <1>3, <2>1, PlaceNumbers, TimesAppend DEF RegisterFresh, RegisterToWaitList
  <2>3. \A x \in Holders : Places(x)' = Places(x)
    BY <1>0, <1>3, <2>2 DEF RegisterFresh, RegisterToWaitList, Goto, Places, Processing, Once
  <2> QED
    BY <1>3, <2>1, <2>3, SamePlaces DEF RegisterFresh, HolderInv
<1>4. CASE RegisterSelected
  <2>1. cur \in Holders /\ pc # "aborted" /\ Nobody \notin Holders
    BY <1>4, Names DEF RegisterSelected, Goto, TypeOK, LoopTypes, Processing
  <2>2. \A x \in Holders : Times(waitlist, x)' = Times(waitlist, x) + Once(cur = x)
    BY <1>4, <2>1, PlaceNumbers, TimesAppend DEF RegisterSelected, RegisterToWaitList
  <2>3. \A x \in Holders : Places(x)' = Places(x)
    BY <1>0, <1>4, <2>2 DEF RegisterSelected, RegisterToWaitList, Goto, Places, Processing, Once
  <2> QED
    BY <1>4, <2>1, <2>3, SamePlaces DEF RegisterSelected, HolderInv
<1>5. CASE RegistrarLinks
  <2>1. incoming \in Holders /\ pc # "aborted" /\ Nobody \notin Holders
    BY <1>5, Names DEF RegistrarLinks, Register, TypeOK, RegistrarTypes
  <2>2. \A x \in Holders : Times(waitlist, x)' = Times(waitlist, x) + Once(incoming = x)
    BY <1>5, <2>1, PlaceNumbers, TimesAppend DEF RegistrarLinks
  <2>3. \A x \in Holders : Places(x)' = Places(x)
    BY <1>0, <1>5, <2>1, <2>2 DEF RegistrarLinks, Places, Once
  <2> QED
    BY <1>5, <2>1, <2>3, SamePlaces DEF RegistrarLinks
<1>6. CASE AcceptSession \/ DispatchNewObject
  <2>1. PICK s \in FreeSlots, h \in Handles : slot' = [slot EXCEPT ![s] = h] /\ fresh' = s
    BY <1>6 DEF AcceptSession, DispatchNewObject, CreateSession, Unused
  <2>2. \A x \in Holders : Places(x)' = Places(x) + Once(x = s)
    BY <1>0, <1>6, <2>1 DEF AcceptSession, DispatchNewObject, Goto, Places, Processing, Once
  <2> QED
    BY <1>6, <2>1, <2>2, OneMoreHolder DEF AcceptSession, DispatchNewObject, Goto, HolderInv
<1>7. CASE RegistrarCreates
  <2>1. PICK s \in FreeSlots, h \in Handles : slot' = [slot EXCEPT ![s] = h] /\ incoming' = s
    BY <1>7 DEF RegistrarCreates, CreateSession, Unused
  <2>2. incoming = Nobody /\ Nobody \notin Holders
    BY <1>7, Names DEF RegistrarCreates, Register, HolderInv
  <2>3. \A x \in Holders : Places(x)' = Places(x) + Once(x = s)
    BY <1>0, <1>7, <2>1, <2>2 DEF RegistrarCreates, Places, Once
  <2> QED
    BY <1>7, <2>1, <2>3, OneMoreHolder DEF RegistrarCreates, Register
<1>8. CASE DestroySession
  <2>1. cur \in Slots /\ FreeSlots' = FreeSlots \cup {cur}
    BY <1>8 DEF DestroySession, Goto, FreeSlots, TypeOK, LoopTypes, KernelTypes
  <2>a. /\ pc = "close" /\ pc' = "close_handle"
        /\ UNCHANGED <<linked, waitlist, cur, incoming>>
    BY <1>8 DEF DestroySession, Goto
  <2>2. \A x \in Holders : Places(x) = Places(x)' + Once(x = cur)
    BY <1>0, <2>a DEF Places, Processing, Once
  <2>3. \A x \in Holders : Places(x)' \in Nat
    BY <1>0, <2>a DEF Places, Once
  <2> QED
    BY <1>8, <2>1, <2>2, <2>3, Names DEF DestroySession, Goto, HolderInv, NoHolderLost, Once
<1>9. CASE AcceptAborts \/ DispatchAborts
  BY <1>9 DEF AcceptAborts, DispatchAborts, Goto, HolderInv, NoHolderLost
\* Other steps touch neither the lists nor what is in hand.
<1>10. ASSUME UNCHANGED <<linked, waitlist, slot, registrar, incoming>>,
              \/ UNCHANGED <<pc, cur, fresh>>
              \/ pc \notin Processing \cup {"aborted"} /\ pc' \notin Processing
              \/ /\ UNCHANGED cur /\ pc \in Processing /\ pc' \in Processing
                 /\ pc # "register_session" /\ pc' # "register_session"
       PROVE  HolderInv'
  BY <1>10 DEF HolderInv, NoHolderLost, FreeSlots, Places, Processing
<1>11. CASE LinkHolders \/ CheckSignaled \/ WaitFindsReady \/ Sleep \/ WakeUp \/ WaitCancelled
              \/ UnlinkHolders \/ ClearNotify \/ CloseHandle
  BY <1>10, <1>11 DEF LinkHolders, CheckSignaled, WaitFindsReady, WaitReturns, Sleep, WakeUp,
     WaitCancelled, UnlinkHolders, ClearNotify, CloseHandle, Goto, Processing
<1>12. CASE ReceiveRequest \/ ReceiveClosed \/ DispatchRequest \/ DispatchCloses \/ Reply
  BY <1>10, <1>12 DEF ReceiveRequest, ReceiveClosed, DispatchRequest, DispatchCloses, Reply,
     Goto, Processing
<1>13. CASE RegistrarSignals \/ RegistrarReturns
  <2>1. UNCHANGED <<linked, waitlist, slot, incoming, cur, fresh>>
    BY <1>13 DEF RegistrarSignals, RegistrarReturns
  <2>2. registrar # "link" /\ registrar' # "link" /\ pc # "aborted"
        /\ (pc' = pc \/ (pc = "unstarted" /\ pc' = "move"))
    BY <1>13 DEF RegistrarSignals, RegistrarReturns, Register
  <2>3. \A x \in Holders : Places(x)' = Places(x)
    BY <2>1, <2>2 DEF Places, Processing
  <2> QED
    BY <2>1, <2>2, <2>3, SamePlaces DEF HolderInv
<1>14. CASE Clients
  BY <1>10, <1>14 DEF Clients, ClientConnects, ClientCalls, ClientCloses
<1>15. CASE UNCHANGED vars
  BY <1>10, <1>15 DEF vars
<1> QED
  BY <1>1, <1>2, <1>3, <1>4, <1>5, <1>6, <1>7, <1>8, <1>9, <1>11, <1>12, <1>13, <1>14, <1>15
  DEF Next, LoopProcess, WaitAny, Process, RegisterSession

\* Every server and every session in use is in exactly one place, for any number
\* of them and any interleaving of the two threads: none is waited for twice, none
\* is forgotten, and no slot is given away while its session is still waited for.
THEOREM HoldersArePlaced == Spec => []NoHolderLost
<1>1. Init => TypeOK /\ HolderInv
  <2> SUFFICES ASSUME Init PROVE HolderInv
    BY TypeInit
  <2>1. /\ IsFiniteSet(Servers)
        /\ linked \in [1 .. Cardinality(Servers) -> Servers]
        /\ \A i, j \in DOMAIN linked : linked[i] = linked[j] => i = j
    BY ServerAssumption DEF Init
  <2>2. \A x \in Holders : Times(linked, x) = Once(x \in Servers) /\ Times(waitlist, x) = 0
    BY <2>1, TimesOfAll, TimesEmpty DEF Init
  <2>3. \A x \in Holders : Places(x) = Once(x \in Servers)
    BY <2>2, Names DEF Init, Places, Processing, Once
  <2>4. FreeSlots = Slots /\ \A x \in Holders : x \in Servers <=> x \notin Slots
    BY ServerAssumption DEF Init, FreeSlots, Holders
  <2> QED
    BY <2>3, <2>4 DEF Init, HolderInv, NoHolderLost, Once
<1>2. TypeOK /\ HolderInv /\ [Next]_vars => (TypeOK /\ HolderInv)'
  BY TypeStep, HolderStep
<1>3. HolderInv => NoHolderLost
  BY DEF HolderInv
<1> QED
  BY <1>1, <1>2, <1>3, PTL DEF Spec
================================================================================
