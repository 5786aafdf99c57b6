------------------------- MODULE ServiceThread_proof -------------------------
(***************************************************************************)
(* A service is never used by its thread after its end, and racing calls of *)
(* Start and Stop abort nothing, for any callers and numbers of calls.      *)
(***************************************************************************)
EXTENDS ServiceThread, TLAPS

\* Each step keeps the types.
LEMMA TypeStep ==
  ASSUME LifeInv, [Next]_vars
  PROVE  TypeOK'
<1>1. ASSUME NEW c \in Callers, CallStart(c) PROVE TypeOK'
  BY <1>1, CallersAssumption DEF LifeInv, TypeOK, CallStart, Goto, LockMutex
<1>2. ASSUME NEW c \in Callers, CallStop(c) PROVE TypeOK'
  BY <1>2, CallersAssumption DEF LifeInv, TypeOK, CallStop, Goto, LockMutex
<1>3. ASSUME NEW c \in Callers, StartReturnsEarly(c) PROVE TypeOK'
  BY <1>3, CallersAssumption DEF LifeInv, TypeOK, StartReturnsEarly, Goto, UnlockMutex
<1>4. ASSUME NEW c \in Callers, StartThread(c) PROVE TypeOK'
  BY <1>4, CallersAssumption DEF LifeInv, TypeOK, StartThread, Goto, LockCs
<1>5. ASSUME NEW c \in Callers, StartKernel(c) PROVE TypeOK'
  BY <1>5, CallersAssumption DEF LifeInv, TypeOK, StartKernel, Goto
<1>6. ASSUME NEW c \in Callers, StartAborts(c) PROVE TypeOK'
  BY <1>6, CallersAssumption DEF LifeInv, TypeOK, StartAborts, Goto
<1>7. ASSUME NEW c \in Callers, StartReturns(c) PROVE TypeOK'
  BY <1>7, CallersAssumption DEF LifeInv, TypeOK, StartReturns, Goto, UnlockMutex, Wakes
<1>8. ASSUME NEW c \in Callers, StopReturnsEarly(c) PROVE TypeOK'
  BY <1>8, CallersAssumption DEF LifeInv, TypeOK, OwnerInv, Destroying, OthersAreThrough,
        StopReturnsEarly, Goto, UnlockMutex
<1>9. ASSUME NEW c \in Callers, StopClears(c) PROVE TypeOK'
  BY <1>9, CallersAssumption DEF LifeInv, TypeOK, StopClears, Goto
<1>10. ASSUME NEW c \in Callers, StopReturns(c) PROVE TypeOK'
  BY <1>10, CallersAssumption DEF LifeInv, TypeOK, StateInv, StopReturns, Goto, UnlockMutex
<1>11. CASE Destructor
  BY <1>11, CallersAssumption DEF LifeInv, TypeOK, Destructor, Goto, LockMutex,
        OthersAreThrough
<1>12. CASE DestructorNeedsNoStop
  BY <1>12, CallersAssumption DEF LifeInv, TypeOK, DestructorNeedsNoStop, Goto, UnlockMutex
<1>13. CASE DestructorStops
  BY <1>13, CallersAssumption DEF LifeInv, TypeOK, DestructorStops, Goto
<1>14. CASE DestructorStopped
  BY <1>14, CallersAssumption DEF LifeInv, TypeOK, DestructorStopped, Goto, UnlockMutex
<1>15. CASE DestroyUnstarted
  BY <1>15, CallersAssumption DEF LifeInv, TypeOK, DestroyUnstarted, Goto
<1>16. CASE DestroyStarted
  BY <1>16, CallersAssumption DEF LifeInv, TypeOK, DestroyStarted, Goto
<1>17. CASE DestroyExited
  BY <1>17, CallersAssumption DEF LifeInv, TypeOK, DestroyExited, Goto
<1>18. CASE DestroyCloses
  BY <1>18, CallersAssumption DEF LifeInv, TypeOK, DestroyCloses, Goto
<1>19. CASE InvokeChecks
  BY <1>19, CallersAssumption DEF LifeInv, TypeOK, InvokeChecks
<1>20. CASE BodyEnds
  BY <1>20, CallersAssumption DEF LifeInv, TypeOK, BodyEnds
<1>21. CASE Cleanup
  BY <1>21, CallersAssumption DEF LifeInv, TypeOK, Cleanup
<1>22. CASE ThreadExits
  BY <1>22, CallersAssumption DEF LifeInv, TypeOK, ThreadExits
<1>23. CASE UNCHANGED vars
  BY <1>23 DEF LifeInv, TypeOK, vars
<1> QED
  BY <1>1, <1>2, <1>3, <1>4, <1>5, <1>6, <1>7, <1>8, <1>9, <1>10, <1>11, <1>12, <1>13,
        <1>14, <1>15, <1>16, <1>17, <1>18, <1>19, <1>20, <1>21, <1>22, <1>23 DEF Next, Call,
        InCall, Destroy, CreatedThread

\* Who holds threadMutex and cs_thread follows the program points; the flag too.
LEMMA LockStep ==
  ASSUME LifeInv, [Next]_vars
  PROVE  LockInv'
<1>1. ASSUME NEW c \in Callers, CallStart(c) PROVE LockInv'
  BY <1>1, CallersAssumption DEF LifeInv, TypeOK, LockInv, CallStart, Goto, LockMutex
<1>2. ASSUME NEW c \in Callers, CallStop(c) PROVE LockInv'
  BY <1>2, CallersAssumption DEF LifeInv, TypeOK, LockInv, CallStop, Goto, LockMutex
<1>3. ASSUME NEW c \in Callers, StartReturnsEarly(c) PROVE LockInv'
  BY <1>3, CallersAssumption DEF LifeInv, TypeOK, LockInv, StartReturnsEarly, Goto,
        UnlockMutex
<1>4. ASSUME NEW c \in Callers, StartThread(c) PROVE LockInv'
  BY <1>4, CallersAssumption DEF LifeInv, TypeOK, LockInv, StartThread, Goto, LockCs
<1>5. ASSUME NEW c \in Callers, StartKernel(c) PROVE LockInv'
  BY <1>5, CallersAssumption DEF LifeInv, TypeOK, LockInv, StartKernel, Goto
<1>6. ASSUME NEW c \in Callers, StartAborts(c) PROVE LockInv'
  BY <1>6, CallersAssumption DEF LifeInv, TypeOK, LockInv, StartAborts, Goto
<1>7. ASSUME NEW c \in Callers, StartReturns(c) PROVE LockInv'
  BY <1>7, CallersAssumption DEF LifeInv, TypeOK, LockInv, StartReturns, Goto, UnlockMutex,
        Wakes
<1>8. ASSUME NEW c \in Callers, StopReturnsEarly(c) PROVE LockInv'
  BY <1>8, CallersAssumption DEF LifeInv, TypeOK, LockInv, StopReturnsEarly, Goto,
        UnlockMutex
<1>9. ASSUME NEW c \in Callers, StopClears(c) PROVE LockInv'
  BY <1>9, CallersAssumption DEF LifeInv, TypeOK, LockInv, StopClears, Goto
<1>10. ASSUME NEW c \in Callers, StopReturns(c) PROVE LockInv'
  BY <1>10, CallersAssumption DEF LifeInv, TypeOK, LockInv, StopReturns, Goto, UnlockMutex
<1>11. CASE Destructor
  BY <1>11, CallersAssumption DEF LifeInv, TypeOK, LockInv, Destructor, Goto, LockMutex,
        OthersAreThrough
<1>12. CASE DestructorNeedsNoStop
  BY <1>12, CallersAssumption DEF LifeInv, TypeOK, LockInv, DestructorNeedsNoStop, Goto,
        UnlockMutex
<1>13. CASE DestructorStops
  BY <1>13, CallersAssumption DEF LifeInv, TypeOK, LockInv, DestructorStops, Goto
<1>14. CASE DestructorStopped
  BY <1>14, CallersAssumption DEF LifeInv, TypeOK, LockInv, DestructorStopped, Goto,
        UnlockMutex
<1>15. CASE DestroyUnstarted
  BY <1>15, CallersAssumption DEF LifeInv, TypeOK, LockInv, DestroyUnstarted, Goto
<1>16. CASE DestroyStarted
  BY <1>16, CallersAssumption DEF LifeInv, TypeOK, LockInv, DestroyStarted, Goto
<1>17. CASE DestroyExited
  BY <1>17, CallersAssumption DEF LifeInv, TypeOK, LockInv, DestroyExited, Goto
<1>18. CASE DestroyCloses
  BY <1>18, CallersAssumption DEF LifeInv, TypeOK, LockInv, DestroyCloses, Goto
<1>19. CASE InvokeChecks
  BY <1>19, CallersAssumption DEF LifeInv, TypeOK, LockInv, InvokeChecks
<1>20. CASE BodyEnds
  BY <1>20, CallersAssumption DEF LifeInv, LockInv, OwnerInv, Destroying, OthersAreThrough,
        BodyEnds
<1>21. CASE Cleanup
  BY <1>21, CallersAssumption DEF LifeInv, TypeOK, LockInv, Cleanup
<1>22. CASE ThreadExits
  BY <1>22, CallersAssumption DEF LifeInv, TypeOK, LockInv, ThreadExits
<1>23. CASE UNCHANGED vars
  BY <1>23 DEF LifeInv, LockInv, StateInv, vars
<1> QED
  BY <1>1, <1>2, <1>3, <1>4, <1>5, <1>6, <1>7, <1>8, <1>9, <1>10, <1>11, <1>12, <1>13,
        <1>14, <1>15, <1>16, <1>17, <1>18, <1>19, <1>20, <1>21, <1>22, <1>23 DEF Next, Call,
        InCall, Destroy, CreatedThread

\* The destructor runs alone, and from its wait on the thread's end is certain.
LEMMA OwnerStep ==
  ASSUME LifeInv, [Next]_vars
  PROVE  OwnerInv'
<1>1. ASSUME NEW c \in Callers, CallStart(c) PROVE OwnerInv'
  BY <1>1, CallersAssumption DEF LifeInv, TypeOK, OwnerInv, Destroying, OthersAreThrough,
        CallStart, Goto, LockMutex
<1>2. ASSUME NEW c \in Callers, CallStop(c) PROVE OwnerInv'
  BY <1>2, CallersAssumption DEF LifeInv, TypeOK, OwnerInv, Destroying, OthersAreThrough,
        CallStop, Goto, LockMutex
<1>3. ASSUME NEW c \in Callers, StartReturnsEarly(c) PROVE OwnerInv'
  BY <1>3, CallersAssumption DEF LifeInv, TypeOK, OwnerInv, Destroying, OthersAreThrough,
        StartReturnsEarly, Goto, UnlockMutex
<1>4. ASSUME NEW c \in Callers, StartThread(c) PROVE OwnerInv'
  BY <1>4, CallersAssumption DEF LifeInv, TypeOK, OwnerInv, Destroying, OthersAreThrough,
        StartThread, Goto, LockCs
<1>5. ASSUME NEW c \in Callers, StartKernel(c) PROVE OwnerInv'
  BY <1>5, CallersAssumption DEF LifeInv, TypeOK, OwnerInv, Destroying, OthersAreThrough,
        StartKernel, Goto
<1>6. ASSUME NEW c \in Callers, StartAborts(c) PROVE OwnerInv'
  BY <1>6, CallersAssumption DEF LifeInv, TypeOK, OwnerInv, Destroying, OthersAreThrough,
        StartAborts, Goto
<1>7. ASSUME NEW c \in Callers, StartReturns(c) PROVE OwnerInv'
  BY <1>7, CallersAssumption DEF LifeInv, TypeOK, OwnerInv, Destroying, OthersAreThrough,
        StartReturns, Goto, UnlockMutex, Wakes
<1>8. ASSUME NEW c \in Callers, StopReturnsEarly(c) PROVE OwnerInv'
  BY <1>8, CallersAssumption DEF LifeInv, TypeOK, OwnerInv, Destroying, OthersAreThrough,
        StopReturnsEarly, Goto, UnlockMutex
<1>9. ASSUME NEW c \in Callers, StopClears(c) PROVE OwnerInv'
  BY <1>9, CallersAssumption DEF LifeInv, TypeOK, OwnerInv, Destroying, OthersAreThrough,
        StopClears, Goto
<1>10. ASSUME NEW c \in Callers, StopReturns(c) PROVE OwnerInv'
  BY <1>10, CallersAssumption DEF LifeInv, TypeOK, OwnerInv, Destroying, OthersAreThrough,
        StopReturns, Goto, UnlockMutex
<1>11. CASE Destructor
  BY <1>11, CallersAssumption DEF OwnerInv, Destroying, OthersAreThrough, Destructor, Goto,
        LockMutex
<1>12. CASE DestructorNeedsNoStop
  BY <1>12, CallersAssumption DEF LifeInv, TypeOK, OwnerInv, StateInv, WaitInv, Destroying,
        OthersAreThrough, DestructorNeedsNoStop, Goto, UnlockMutex
<1>13. CASE DestructorStops
  BY <1>13, CallersAssumption DEF LifeInv, TypeOK, OwnerInv, Destroying, OthersAreThrough,
        DestructorStops, Goto
<1>14. CASE DestructorStopped
  BY <1>14, CallersAssumption DEF LifeInv, LockInv, OwnerInv, Destroying, OthersAreThrough,
        DestructorStopped, Goto, UnlockMutex
<1>15. CASE DestroyUnstarted
  BY <1>15, CallersAssumption DEF LifeInv, TypeOK, OwnerInv, Destroying, OthersAreThrough,
        DestroyUnstarted, Goto
<1>16. CASE DestroyStarted
  BY <1>16, CallersAssumption DEF LifeInv, OwnerInv, StateInv, Destroying, OthersAreThrough,
        DestroyStarted, Goto
<1>17. CASE DestroyExited
  BY <1>17, CallersAssumption DEF LifeInv, TypeOK, OwnerInv, Destroying, OthersAreThrough,
        DestroyExited, Goto
<1>18. CASE DestroyCloses
  BY <1>18, CallersAssumption DEF LifeInv, TypeOK, OwnerInv, Destroying, OthersAreThrough,
        DestroyCloses, Goto
<1>19. CASE InvokeChecks
  BY <1>19, CallersAssumption DEF LifeInv, TypeOK, OwnerInv, Destroying, OthersAreThrough,
        InvokeChecks
<1>20. CASE BodyEnds
  BY <1>20, CallersAssumption DEF LifeInv, TypeOK, OwnerInv, Destroying, OthersAreThrough,
        BodyEnds
<1>21. CASE Cleanup
  BY <1>21, CallersAssumption DEF LifeInv, TypeOK, OwnerInv, Destroying, OthersAreThrough,
        Cleanup
<1>22. CASE ThreadExits
  BY <1>22, CallersAssumption DEF LifeInv, TypeOK, OwnerInv, Destroying, OthersAreThrough,
        ThreadExits
<1>23. CASE UNCHANGED vars
  BY <1>23 DEF LifeInv, TypeOK, OwnerInv, Destroying, OthersAreThrough, vars
<1> QED
  BY <1>1, <1>2, <1>3, <1>4, <1>5, <1>6, <1>7, <1>8, <1>9, <1>10, <1>11, <1>12, <1>13,
        <1>14, <1>15, <1>16, <1>17, <1>18, <1>19, <1>20, <1>21, <1>22, <1>23 DEF Next, Call,
        InCall, Destroy, CreatedThread

\* libstratosphere's state and the kernel's thread go together.
LEMMA StateStep ==
  ASSUME LifeInv, [Next]_vars
  PROVE  StateInv'
<1>1. ASSUME NEW c \in Callers, CallStart(c) PROVE StateInv'
  BY <1>1, CallersAssumption DEF LifeInv, TypeOK, StateInv, CallStart, Goto, LockMutex
<1>2. ASSUME NEW c \in Callers, CallStop(c) PROVE StateInv'
  BY <1>2, CallersAssumption DEF LifeInv, TypeOK, StateInv, CallStop, Goto, LockMutex
<1>3. ASSUME NEW c \in Callers, StartReturnsEarly(c) PROVE StateInv'
  BY <1>3, CallersAssumption DEF LifeInv, TypeOK, StateInv, StartReturnsEarly, Goto,
        UnlockMutex
<1>4. ASSUME NEW c \in Callers, StartThread(c) PROVE StateInv'
  BY <1>4, CallersAssumption DEF LifeInv, TypeOK, LockInv, OwnerInv, StateInv, WaitInv,
        Destroying, OthersAreThrough, StartThread, Goto, LockCs
<1>5. ASSUME NEW c \in Callers, StartKernel(c) PROVE StateInv'
  BY <1>5, CallersAssumption DEF LifeInv, TypeOK, LockInv, StateInv, StartKernel, Goto
<1>6. ASSUME NEW c \in Callers, StartAborts(c) PROVE StateInv'
  BY <1>6, CallersAssumption DEF LifeInv, StateInv, WaitInv, StartAborts, Goto
<1>7. ASSUME NEW c \in Callers, StartReturns(c) PROVE StateInv'
  BY <1>7, CallersAssumption DEF LifeInv, TypeOK, LockInv, StateInv, StartReturns, Goto,
        UnlockMutex, Wakes
<1>8. ASSUME NEW c \in Callers, StopReturnsEarly(c) PROVE StateInv'
  BY <1>8, CallersAssumption DEF LifeInv, TypeOK, StateInv, StopReturnsEarly, Goto,
        UnlockMutex
<1>9. ASSUME NEW c \in Callers, StopClears(c) PROVE StateInv'
  BY <1>9, CallersAssumption DEF LifeInv, TypeOK, StateInv, StopClears, Goto
<1>10. ASSUME NEW c \in Callers, StopReturns(c) PROVE StateInv'
  BY <1>10, CallersAssumption DEF LifeInv, TypeOK, StateInv, StopReturns, Goto, UnlockMutex
<1>11. CASE Destructor
  BY <1>11, CallersAssumption DEF LifeInv, TypeOK, StateInv, Destructor, Goto, LockMutex,
        OthersAreThrough
<1>12. CASE DestructorNeedsNoStop
  BY <1>12, CallersAssumption DEF LifeInv, TypeOK, StateInv, DestructorNeedsNoStop, Goto,
        UnlockMutex
<1>13. CASE DestructorStops
  BY <1>13, CallersAssumption DEF LifeInv, TypeOK, StateInv, DestructorStops, Goto
<1>14. CASE DestructorStopped
  BY <1>14, CallersAssumption DEF LifeInv, TypeOK, StateInv, DestructorStopped, Goto,
        UnlockMutex
<1>15. CASE DestroyUnstarted
  BY <1>15, CallersAssumption DEF LifeInv, TypeOK, LockInv, StateInv, DestroyUnstarted, Goto
<1>16. CASE DestroyStarted
  BY <1>16, CallersAssumption DEF LifeInv, OwnerInv, StateInv, Destroying, OthersAreThrough,
        DestroyStarted, Goto
<1>17. CASE DestroyExited
  BY <1>17, CallersAssumption DEF LifeInv, TypeOK, StateInv, DestroyExited, Goto
<1>18. CASE DestroyCloses
  BY <1>18, CallersAssumption DEF LifeInv, TypeOK, OwnerInv, StateInv, Destroying,
        OthersAreThrough, DestroyCloses, Goto
<1>19. CASE InvokeChecks
  BY <1>19, CallersAssumption DEF LifeInv, LockInv, OwnerInv, StateInv, Destroying,
        OthersAreThrough, InvokeChecks
<1>20. CASE BodyEnds
  BY <1>20, CallersAssumption DEF LifeInv, TypeOK, StateInv, BodyEnds
<1>21. CASE Cleanup
  BY <1>21, CallersAssumption DEF LifeInv, TypeOK, StateInv, Cleanup
<1>22. CASE ThreadExits
  BY <1>22, CallersAssumption DEF LifeInv, LockInv, StateInv, ThreadExits
<1>23. CASE UNCHANGED vars
  BY <1>23 DEF LifeInv, TypeOK, StateInv, vars
<1> QED
  BY <1>1, <1>2, <1>3, <1>4, <1>5, <1>6, <1>7, <1>8, <1>9, <1>10, <1>11, <1>12, <1>13,
        <1>14, <1>15, <1>16, <1>17, <1>18, <1>19, <1>20, <1>21, <1>22, <1>23 DEF Next, Call,
        InCall, Destroy, CreatedThread

\* No step leaves a running thread that nobody wants and nobody waits for.
LEMMA WaitStep ==
  ASSUME LifeInv, [Next]_vars
  PROVE  WaitInv'
<1>1. ASSUME NEW c \in Callers, CallStart(c) PROVE WaitInv'
  BY <1>1, CallersAssumption DEF LifeInv, TypeOK, WaitInv, CallStart, Goto, LockMutex
<1>2. ASSUME NEW c \in Callers, CallStop(c) PROVE WaitInv'
  BY <1>2, CallersAssumption DEF LifeInv, TypeOK, WaitInv, CallStop, Goto, LockMutex
<1>3. ASSUME NEW c \in Callers, StartReturnsEarly(c) PROVE WaitInv'
  BY <1>3, CallersAssumption DEF WaitInv, StartReturnsEarly, Goto, UnlockMutex
<1>4. ASSUME NEW c \in Callers, StartThread(c) PROVE WaitInv'
  BY <1>4, CallersAssumption DEF WaitInv, StartThread, Goto, LockCs
<1>5. ASSUME NEW c \in Callers, StartKernel(c) PROVE WaitInv'
  BY <1>5, CallersAssumption DEF LifeInv, LockInv, WaitInv, StartKernel, Goto
<1>6. ASSUME NEW c \in Callers, StartAborts(c) PROVE WaitInv'
  BY <1>6, CallersAssumption DEF LifeInv, WaitInv, StartAborts, Goto
<1>7. ASSUME NEW c \in Callers, StartReturns(c) PROVE WaitInv'
  BY <1>7, CallersAssumption DEF LifeInv, TypeOK, WaitInv, StartReturns, Goto, UnlockMutex,
        Wakes
<1>8. ASSUME NEW c \in Callers, StopReturnsEarly(c) PROVE WaitInv'
  BY <1>8, CallersAssumption DEF LifeInv, TypeOK, WaitInv, StopReturnsEarly, Goto,
        UnlockMutex
<1>9. ASSUME NEW c \in Callers, StopClears(c) PROVE WaitInv'
  BY <1>9, CallersAssumption DEF LifeInv, TypeOK, WaitInv, StopClears, Goto
<1>10. ASSUME NEW c \in Callers, StopReturns(c) PROVE WaitInv'
  BY <1>10, CallersAssumption DEF WaitInv, StopReturns, Goto, UnlockMutex
<1>11. CASE Destructor
  BY <1>11, CallersAssumption DEF LifeInv, TypeOK, WaitInv, Destructor, Goto, LockMutex,
        OthersAreThrough
<1>12. CASE DestructorNeedsNoStop
  BY <1>12, CallersAssumption DEF LifeInv, TypeOK, WaitInv, DestructorNeedsNoStop, Goto,
        UnlockMutex
<1>13. CASE DestructorStops
  BY <1>13, CallersAssumption DEF LifeInv, TypeOK, WaitInv, DestructorStops, Goto
<1>14. CASE DestructorStopped
  BY <1>14, CallersAssumption DEF WaitInv, DestructorStopped, Goto, UnlockMutex
<1>15. CASE DestroyUnstarted
  BY <1>15, CallersAssumption DEF LifeInv, TypeOK, WaitInv, DestroyUnstarted, Goto
<1>16. CASE DestroyStarted
  BY <1>16, CallersAssumption DEF LifeInv, TypeOK, WaitInv, DestroyStarted, Goto
<1>17. CASE DestroyExited
  BY <1>17, CallersAssumption DEF WaitInv, DestroyExited, Goto
<1>18. CASE DestroyCloses
  BY <1>18, CallersAssumption DEF WaitInv, DestroyCloses, Goto
<1>19. CASE InvokeChecks
  BY <1>19, CallersAssumption DEF LifeInv, OwnerInv, WaitInv, Destroying, OthersAreThrough,
        InvokeChecks
<1>20. CASE BodyEnds
  BY <1>20, CallersAssumption DEF LifeInv, TypeOK, WaitInv, BodyEnds
<1>21. CASE Cleanup
  BY <1>21, CallersAssumption DEF LifeInv, TypeOK, WaitInv, Cleanup
<1>22. CASE ThreadExits
  BY <1>22, CallersAssumption DEF WaitInv, ThreadExits
<1>23. CASE UNCHANGED vars
  BY <1>23 DEF LifeInv, StateInv, WaitInv, vars
<1> QED
  BY <1>1, <1>2, <1>3, <1>4, <1>5, <1>6, <1>7, <1>8, <1>9, <1>10, <1>11, <1>12, <1>13,
        <1>14, <1>15, <1>16, <1>17, <1>18, <1>19, <1>20, <1>21, <1>22, <1>23 DEF Next, Call,
        InCall, Destroy, CreatedThread

\* The thread's flag, locks, state and program points always fit together:
\* what Start, Stop and the destructor rely on when they race.
THEOREM LifeInvariant == Spec => []LifeInv
<1>1. Init => LifeInv
  <2> SUFFICES ASSUME Init PROVE LifeInv
    OBVIOUS
  <2> USE CallersAssumption DEF Init
  <2>1. TypeOK
    <3>1. calls \in [Callers -> 0 .. MaxCalls]
      <4>1. 0 \in 0 .. MaxCalls
        OBVIOUS
      <4> QED
        BY <4>1
    <3>2. pc \in [Callers -> {"idle", "Start", "StartThread", "Started", "Stop", "WaitThread", "aborted",
                              "~Stop", "~WaitThread", "DestroyThread", "WaitForThreadExit", "assert",
                              "destroyed"}]
      OBVIOUS
    <3> QED
      BY <3>1, <3>2 DEF TypeOK
  <2>2. LockInv
    BY DEF LockInv
  <2>3. OwnerInv
    BY DEF OwnerInv, Destroying
  <2>4. StateInv
    BY DEF StateInv
  <2>5. WaitInv
    BY DEF WaitInv
  <2> QED
    BY <2>1, <2>2, <2>3, <2>4, <2>5 DEF LifeInv
<1>2. LifeInv /\ [Next]_vars => LifeInv'
  BY TypeStep, LockStep, OwnerStep, StateStep, WaitStep DEF LifeInv
<1> QED
  BY <1>1, <1>2, PTL DEF Spec

\* While the loop of a service runs, the service is not being destroyed, and
\* it is either wanted or being waited for by the holder of threadMutex.
THEOREM ServiceOutlivesLoop == Spec => []LoopOnlyWhileServiceLives
<1>1. ASSUME LifeInv PROVE LoopOnlyWhileServiceLives
  <2> SUFFICES ASSUME at = "body"
               PROVE  /\ kernel = "running"
                      /\ pc[Owner] \notin {"DestroyThread", "WaitForThreadExit", "assert", "destroyed"}
                      /\ running \/ \E c \in Callers : mutex = c /\ pc[c] \in {"WaitThread", "~WaitThread"}
    BY DEF LoopOnlyWhileServiceLives
  <2>1. kernel = "running"
    BY <1>1 DEF LifeInv, StateInv
  <2>2. pc[Owner] \notin {"DestroyThread", "WaitForThreadExit", "assert", "destroyed"}
    BY <1>1, <2>1 DEF LifeInv, OwnerInv, StateInv
  <2>3. running \/ \E c \in Callers : pc[c] \in {"WaitThread", "~WaitThread"}
    BY <1>1, <2>1, <2>2 DEF LifeInv, WaitInv
  <2> QED
    BY <1>1, <2>1, <2>2, <2>3 DEF LifeInv, LockInv
<1> QED
  BY <1>1, LifeInvariant, PTL

\* DestroyThread gives the thread object up only once the thread is gone.
THEOREM ExitBeforeClose == Spec => []ClosedAfterExit
<1>1. ASSUME LifeInv PROVE ClosedAfterExit
  BY <1>1 DEF LifeInv, StateInv, ClosedAfterExit
<1> QED
  BY <1>1, LifeInvariant, PTL

\* Only the restart of a thread that has ended aborts the process: no order of
\* racing Start() and Stop() makes the kernel refuse a thread's first start.
THEOREM OnlyRestartAborts == Spec => []AbortsOnlyOnRestart
<1>1. ASSUME LifeInv PROVE AbortsOnlyOnRestart
  BY <1>1 DEF LifeInv, StateInv, AbortsOnlyOnRestart
<1> QED
  BY <1>1, LifeInvariant, PTL

\* The assertion of DestroyThread (os_thread_manager.cpp:125) never holds when it
\* is reached: whatever Start and Stop did before, the thread is Terminated.
THEOREM AssertionAlwaysFails == Spec => [](pc[Owner] = "assert" => ~DestroyAssertion)
<1>1. LifeInv => (pc[Owner] = "assert" => ~DestroyAssertion)
  <2> SUFFICES ASSUME LifeInv, pc[Owner] = "assert" PROVE state = "Terminated"
    BY DEF DestroyAssertion
  <2>1. kernel = "exited"
    BY DEF LifeInv, OwnerInv
  <2> QED
    BY <2>1 DEF LifeInv, StateInv
<1> QED
  BY <1>1, LifeInvariant, PTL
================================================================================
