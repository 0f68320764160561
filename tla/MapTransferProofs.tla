------------------------- MODULE MapTransferProofs ---------------------------
(***************************************************************************)
(* For any set of calls, MapTransfer is type correct and implements        *)
(* TransferOutcome: the steps of a call and of the callback that writes    *)
(* its handler without the lock answer only what the abstract call may.    *)
(***************************************************************************)
EXTENDS MapTransfer, TLAPS

Over(c) == transfer[c] \in {"complete", "error"}

\* Only an end of transfer reaches the main loop, the callback and what the
\* callback writes.
ToldIsOver ==
    /\ \A c \in pending \cup complete : Over(c)
    /\ main # NoCall => Over(main)
    /\ \A c \in error : transfer[c] = "error"

\* A call leaves its loop when it has seen complete or when its time is over.
WaitedLongEnough ==
    \A c \in Calls : pc[c] \in {"clear", "read"} => c \in complete \cup expired

\* A call asks once and answers once.
AsksOnce ==
    \A c \in Calls :
        /\ pc[c] \notin {"free", "done"} => answer[c] = "none"
        /\ pc[c] \in {"start", "get"} => transfer[c] = "none"

\* A call has its handler from its Get to its answer, and the callback writes
\* none that never was.
HandlerLives ==
    \A c \in Calls :
        /\ pc[c] \in {"start", "get", "handler"} => handler[c] = "none"
        /\ pc[c] \in {"proxy", "connect", "test", "tested", "wait", "clear",
                      "read", "free"} => handler[c] = "live"
        /\ handler[c] = "freed" => pc[c] = "done"
        /\ pc[c] \in {"free", "done"} => answer[c] # "none"
        /\ c \in complete => handler[c] # "none"

\* A call that leaves its loop with the lock has seen complete.
LockedTold ==
    \A c \in Calls : c \in locked =>
        /\ pc[c] \notin {"start", "get", "handler", "wait"}
        /\ pc[c] = "clear" => c \in complete

\* The callback tells every end of transfer once, complete before error.
ToldOnce ==
    /\ callback = "none" <=> main = NoCall
    /\ pending \cap complete = {} /\ main \notin pending
    /\ callback = "complete" => main \notin complete
    /\ callback = "error" => main \in complete /\ main \notin error
    /\ error \subseteq complete

\* A failure that was told stays in the handler until the call has read it.
ErrorKept ==
    \A c \in Calls :
        /\ c \in complete /\ handler[c] = "live" /\ transfer[c] = "error"
        /\ ~(main = c /\ callback = "error")
        => c \in error

Strengthening ==
    /\ ToldIsOver /\ WaitedLongEnough /\ AsksOnce
    /\ HandlerLives /\ LockedTold /\ ToldOnce /\ ErrorKept

\* The inductive invariant.
IInv == TypeOK /\ Strengthening

----------------------------------------------------------------------------
\* The initial state satisfies the invariant.
LEMMA InitInv == Init => IInv
BY NoCallIsNone DEF Init, IInv, Strengthening, TypeOK, ToldIsOver, WaitedLongEnough,
   AsksOnce, HandlerLives, LockedTold, ToldOnce, ErrorKept, Over

\* Every step keeps the types.
LEMMA TypeStep == TypeOK /\ [Next]_vars => TypeOK'
<1> SUFFICES ASSUME TypeOK, [Next]_vars PROVE TypeOK'
    OBVIOUS
<1>0. CASE Die
    BY <1>0 DEF Die, TypeOK, caller, mem, loop
<1>1. ASSUME NEW c \in Calls, MessageProxy(c) \/ Get(c) \/ GetRefused(c)
      PROVE  TypeOK'
    BY <1>0, <1>1 DEF TypeOK, MessageProxy, Get, GetRefused, Move, mem, loop
<1>2. ASSUME NEW c \in Calls, NewHandler(c) \/ TransferProxy(c) \/ Connect(c)
      PROVE  TypeOK'
    BY <1>2 DEF TypeOK, NewHandler, TransferProxy, Connect, Move, mem, loop
<1>3. ASSUME NEW c \in Calls, Test(c) \/ Wait(c) \/ SpuriousWake(c) \/ Timeout(c)
      PROVE  TypeOK'
    BY <1>3 DEF TypeOK, Test, Wait, SpuriousWake, Timeout, Move, mem, loop
<1>4. ASSUME NEW c \in Calls, Clear(c) \/ ReadError(c) \/ Free(c)
      PROVE  TypeOK'
    BY <1>0, <1>4 DEF TypeOK, Clear, ReadError, Free, Move, mem, loop
<1>5. ASSUME NEW c \in Calls, Dispatch(c) \/ TransferEnds(c) \/ TimePasses(c)
      PROVE  TypeOK'
    BY <1>5 DEF TypeOK, Dispatch, TransferEnds, TimePasses, caller, mem, loop
<1>6. CASE Callback
    BY <1>0, <1>6 DEF TypeOK, Callback, SetComplete, SetError, SignalCond,
       TouchFreed, CallbackAt, caller, mem, loop
<1>7. CASE UNCHANGED vars
    BY <1>7 DEF vars, TypeOK, caller, mem, loop
<1> QED
    BY <1>1, <1>2, <1>3, <1>4, <1>5, <1>6, <1>7 DEF Next, Step, Rest

\* Every step keeps the rest of the invariant.
LEMMA NextInv == IInv /\ [Next]_vars => IInv'
<1> SUFFICES ASSUME IInv, [Next]_vars PROVE Strengthening'
    BY TypeStep DEF IInv
<1> USE NoCallIsNone DEF IInv, Strengthening, TypeOK, ToldIsOver, WaitedLongEnough,
        AsksOnce, HandlerLives, LockedTold, ToldOnce, ErrorKept, Over, Move,
        CallbackAt, caller, mem, loop
<1>0. CASE Die
    BY <1>0 DEF Die
<1>1. ASSUME NEW c \in Calls, MessageProxy(c) PROVE Strengthening'
    BY <1>0, <1>1 DEF MessageProxy
<1>2. ASSUME NEW c \in Calls, Get(c) PROVE Strengthening'
    BY <1>2 DEF Get
<1>3. ASSUME NEW c \in Calls, GetRefused(c) PROVE Strengthening'
    BY <1>0, <1>3 DEF GetRefused
<1>4. ASSUME NEW c \in Calls, NewHandler(c) PROVE Strengthening'
    BY <1>4 DEF NewHandler
<1>5. ASSUME NEW c \in Calls, TransferProxy(c) PROVE Strengthening'
    BY <1>5 DEF TransferProxy
<1>6. ASSUME NEW c \in Calls, Connect(c) PROVE Strengthening'
    BY <1>6 DEF Connect
<1>7. ASSUME NEW c \in Calls, Test(c) PROVE Strengthening'
    BY <1>7 DEF Test
<1>8. ASSUME NEW c \in Calls, Wait(c) PROVE Strengthening'
    BY <1>8 DEF Wait
<1>9. ASSUME NEW c \in Calls, SpuriousWake(c) PROVE Strengthening'
    BY <1>9 DEF SpuriousWake
<1>10. ASSUME NEW c \in Calls, Timeout(c) PROVE Strengthening'
    BY <1>10 DEF Timeout
<1>11. ASSUME NEW c \in Calls, Clear(c) PROVE Strengthening'
    BY <1>0, <1>11 DEF Clear
<1>12. ASSUME NEW c \in Calls, ReadError(c) PROVE Strengthening'
    BY <1>12 DEF ReadError
<1>13. ASSUME NEW c \in Calls, Free(c) PROVE Strengthening'
    BY <1>13 DEF Free
<1>14. ASSUME NEW c \in Calls, Dispatch(c) PROVE Strengthening'
    BY <1>14 DEF Dispatch
<1>15. ASSUME NEW c \in Calls, TransferEnds(c) PROVE Strengthening'
    BY <1>15 DEF TransferEnds
<1>16. ASSUME NEW c \in Calls, TimePasses(c) PROVE Strengthening'
    BY <1>16 DEF TimePasses
<1>17. CASE SetComplete
    BY <1>17 DEF SetComplete
<1>18. CASE SetError
    BY <1>18 DEF SetError
<1>19. CASE SignalCond
    BY <1>19 DEF SignalCond
<1>20. CASE TouchFreed
  <2>1. CASE ~Die
    <3>1. /\ main' = NoCall /\ callback' = "none" /\ handler[main] = "freed"
          /\ UNCHANGED <<caller, transfer, mem, expired, pending, alive>>
        BY <1>20, <2>1 DEF TouchFreed
    <3> QED
        BY <3>1
  <2> QED
      BY <1>0, <2>1
<1>21. CASE UNCHANGED vars
    BY <1>21 DEF vars
<1> QED
    BY <1>1, <1>2, <1>3, <1>4, <1>5, <1>6, <1>7, <1>8, <1>9, <1>10, <1>11, <1>12, <1>13, <1>14, <1>15, <1>16, <1>17, <1>18, <1>19, <1>20, <1>21 DEF Next, Step, Callback, Rest

----------------------------------------------------------------------------
\* What a step leaves alone of the handlers and of the main loop is not told.
LEMMA NotTold == UNCHANGED <<complete, main, callback>> => UNCHANGED Told
BY DEF Told

\* Every step is a step of the abstract call or changes nothing of it.
LEMMA OutcomeStep ==
    IInv /\ [Next]_vars =>
        [Outcome!Next]_<<transfer, expired, Told, answer, alive>>
<1> DEFINE Abstract == \/ Outcome!Next
                       \/ UNCHANGED <<transfer, expired, Told, answer, alive>>
<1> SUFFICES ASSUME IInv, [Next]_vars PROVE Abstract
    OBVIOUS
<1> USE DEF Move, CallbackAt, caller, mem, loop
<1>0. ASSUME Die, alive,
             NEW c \in Calls,
             \/ answer[c] = "none" /\ (transfer[c] = "none" \/ c \in complete)
             \/ answer[c] # "none" /\ Over(c)
      PROVE  Abstract
  <2>1. c \in complete => Told[c] # "no"
      BY DEF Told
  <2>2. UNCHANGED <<transfer, expired, Told, answer>>
      BY <1>0, NotTold DEF Die
  <2> QED
      BY <1>0, <2>1, <2>2 DEF Die, Outcome!Next, Outcome!Die, Outcome!Outcomes, Over
<1>1. ASSUME NEW c \in Calls, MessageProxy(c) PROVE Abstract
  <2>1. answer[c] = "none" /\ transfer[c] = "none"
      BY <1>1 DEF MessageProxy, IInv, Strengthening, AsksOnce
  <2> QED
      BY <1>1, <2>1, NotTold DEF MessageProxy, Outcome!Next, Outcome!ReturnFalse
<1>2. ASSUME NEW c \in Calls, Get(c) PROVE Abstract
  <2>1. answer[c] = "none" /\ transfer[c] = "none"
      BY <1>2 DEF Get, IInv, Strengthening, AsksOnce
  <2> QED
      BY <1>2, <2>1, NotTold DEF Get, Outcome!Next, Outcome!Begin
<1>3. ASSUME NEW c \in Calls, GetRefused(c) PROVE Abstract
  <2>1. answer[c] = "none" /\ transfer[c] = "none"
      BY <1>3 DEF GetRefused, IInv, Strengthening, AsksOnce
  <2> QED
      BY <1>0, <1>3, <2>1, NotTold DEF GetRefused
<1>4. ASSUME NEW c \in Calls, Clear(c) PROVE Abstract
  <2>1. CASE Die
    <3>1. answer[c] = "none" /\ c \in complete
        BY <1>4, <2>1, NoCallIsNone DEF Clear, Die, IInv, Strengthening, TypeOK,
           AsksOnce, LockedTold
    <3> QED
        BY <1>0, <1>4, <2>1, <3>1 DEF Clear
  <2> QED
      BY <1>4, <2>1, NotTold DEF Clear
<1>5. ASSUME NEW c \in Calls, ReadError(c) PROVE Abstract
  <2>1. /\ answer[c] = "none" /\ c \in complete \cup expired /\ handler[c] = "live"
      BY <1>5 DEF ReadError, IInv, Strengthening, AsksOnce, WaitedLongEnough,
         HandlerLives
  <2>2. UNCHANGED <<transfer, expired, Told, alive>>
      BY <1>5, NotTold DEF ReadError
  <2>3. CASE c \in error
    <3>1. transfer[c] = "error" /\ Told[c] = "done"
        BY <2>3 DEF IInv, Strengthening, ToldIsOver, ToldOnce, Told
    <3> QED
        BY <1>5, <2>1, <2>2, <2>3, <3>1 DEF ReadError, Outcome!Next,
           Outcome!ReturnFalse
  <2>4. CASE c \notin error
    <3>1. Told[c] # "no" \/ c \in expired
        BY <2>1 DEF Told
    <3>2. ~(transfer[c] = "error" /\ Told[c] = "done")
        BY <2>1, <2>4 DEF Told, IInv, Strengthening, ErrorKept
    <3> QED
        BY <1>5, <2>1, <2>2, <2>4, <3>1, <3>2 DEF ReadError, Outcome!Next,
           Outcome!ReturnTrue
  <2> QED
      BY <2>3, <2>4
<1>6. ASSUME NEW c \in Calls, TransferEnds(c) PROVE Abstract
    BY <1>6, NotTold DEF TransferEnds, Outcome!Next, Outcome!End, Outcome!Outcomes
<1>7. ASSUME NEW c \in Calls, TimePasses(c) PROVE Abstract
    BY <1>7, NotTold DEF TimePasses, Outcome!Next, Outcome!Expire
<1>8. ASSUME NEW c \in Calls,
             \/ NewHandler(c) \/ TransferProxy(c) \/ Connect(c) \/ Test(c) \/ Wait(c)
             \/ SpuriousWake(c) \/ Timeout(c) \/ Free(c)
      PROVE  Abstract
    BY <1>8, NotTold DEF NewHandler, TransferProxy, Connect, Test, Wait,
       SpuriousWake, Timeout, Free
<1>9. ASSUME NEW c \in Calls, Dispatch(c) PROVE Abstract
  <2>1. UNCHANGED Told
      BY <1>9 DEF Dispatch, Told, IInv, Strengthening, ToldOnce
  <2> QED
      BY <1>9, <2>1 DEF Dispatch
<1>10. ASSUME SetComplete PROVE Abstract
  <2>1. /\ main \in Calls /\ main \notin complete
        /\ transfer[main] \in {"complete", "error"}
      BY <1>10 DEF SetComplete, IInv, TypeOK, Strengthening, ToldIsOver, ToldOnce, Over
  <2>2. Told[main] = "no" /\ Told' = [Told EXCEPT ![main] = "begun"]
      BY <1>10, <2>1 DEF SetComplete, Told
  <2> QED
      BY <1>10, <2>1, <2>2 DEF SetComplete, Outcome!Next, Outcome!TellEnd,
         Outcome!Outcomes
<1>11. ASSUME alive, main \in Calls, callback = "error", callback' # "error",
              UNCHANGED <<complete, transfer, expired, answer, alive>>
       PROVE  Abstract
  <2>1. main \in complete
      BY <1>11 DEF IInv, Strengthening, ToldOnce
  <2>2. Told[main] = "begun" /\ Told' = [Told EXCEPT ![main] = "done"]
      BY <1>11, <2>1 DEF Told
  <2> QED
      BY <1>11, <2>2 DEF Outcome!Next, Outcome!TellOutcome
<1>12. ASSUME SetError PROVE Abstract
    BY <1>11, <1>12 DEF SetError, IInv, TypeOK
<1>13. ASSUME SignalCond PROVE Abstract
  <2>1. UNCHANGED Told
      BY <1>13 DEF SignalCond, Told
  <2> QED
      BY <1>13, <2>1 DEF SignalCond
<1>14. ASSUME TouchFreed PROVE Abstract
  <2>1. main \in Calls /\ answer[main] # "none" /\ Over(main)
      BY <1>14 DEF TouchFreed, IInv, TypeOK, Strengthening, HandlerLives, ToldIsOver
  <2>2. CASE Die
      BY <1>0, <1>14, <2>1, <2>2 DEF TouchFreed
  <2>3. CASE ~Die
    <3>1. /\ callback' = "none" /\ main' = NoCall
          /\ UNCHANGED <<complete, transfer, expired, answer, alive>>
        BY <1>14, <2>3 DEF TouchFreed
    <3>2. CASE callback = "error"
        BY <1>11, <1>14, <2>1, <3>1, <3>2 DEF TouchFreed
    <3>3. CASE callback # "error"
      <4>1. UNCHANGED Told
          BY <3>1, <3>3 DEF Told
      <4> QED
          BY <3>1, <4>1
    <3> QED
        BY <3>2, <3>3
  <2> QED
      BY <2>2, <2>3
<1>15. CASE UNCHANGED vars
    BY <1>15, NotTold DEF vars
<1> QED
    BY <1>1, <1>2, <1>3, <1>4, <1>5, <1>6, <1>7, <1>8, <1>9, <1>10, <1>12, <1>13,
       <1>14, <1>15 DEF Next, Step, Callback, Rest

----------------------------------------------------------------------------
\* The invariant holds in every state (camel-map-dbus-utils.c 71-209).
THEOREM Invariance == Spec => []IInv
<1> QED
    BY InitInv, NextInv, PTL DEF Spec

\* The state of calls, callbacks and transfers stays within its types.
THEOREM TypeCorrect == Spec => []TypeOK
<1>1. IInv => TypeOK
    BY DEF IInv
<1> QED
    BY <1>1, Invariance, PTL

\* camel_map_dbus_get_message keeps the promise of TransferOutcome.
THEOREM KeepsOutcomeHolds == Spec => KeepsOutcome
<1>1. Init => Outcome!Init
    BY DEF Init, Outcome!Init, Told
<1> QED
    BY <1>1, OutcomeStep, Invariance, PTL DEF Spec, KeepsOutcome, Outcome!Spec

==============================================================================
