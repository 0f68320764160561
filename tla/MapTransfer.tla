---------------------------- MODULE MapTransfer ----------------------------
(***************************************************************************)
(* Waiting for the phone to transfer a message: camel_map_dbus_get_message *)
(* and its callback transfer_on_signal (camel/camel-map-dbus-utils.c       *)
(* 71-209).                                                                *)
(*                                                                         *)
(* A call asks for the transfer, then creates a proxy for it and connects  *)
(* the callback, and waits on the condition of a handler of its own.  The  *)
(* main loop runs the callback of one call at a time when the proxy is     *)
(* told that the transfer has ended.  The callback writes the handler and  *)
(* signals without taking the handler's lock, so each of its writes is a   *)
(* step of its own, and nothing stops it when the handler is freed.        *)
(***************************************************************************)
EXTENDS FiniteSets

CONSTANTS
    Calls,          \* calls of camel_map_dbus_get_message, each made once
    NoCall          \* the main loop runs no callback

ASSUME NoCallIsNone == NoCall \notin Calls

VARIABLES
    pc,             \* where each call is
    transfer,       \* the phone's transfer for each call
    proxied,        \* calls with a proxy for their transfer
    connected,      \* calls whose callback is connected to that proxy
    handler,        \* the calls' TransferHandlers: "none", "live" or "freed"
    locked,         \* handlers whose lock is held
    complete,       \* handlers with complete set
    error,          \* handlers with error set
    expired,        \* calls whose end_time has passed
    answer,         \* what each call returned
    pending,        \* calls with an end of transfer the main loop has to tell
    main,           \* the call whose callback the main loop runs
    callback,       \* the next step of that callback
    alive           \* the process runs

caller == <<pc, proxied, connected, answer>>
mem    == <<handler, locked, complete, error>>
loop   == <<pending, main, callback>>

vars == <<caller, transfer, mem, expired, loop, alive>>

----------------------------------------------------------------------------

Init ==
    /\ pc = [c \in Calls |-> "start"]
    /\ transfer = [c \in Calls |-> "none"]
    /\ proxied = {} /\ connected = {}
    /\ handler = [c \in Calls |-> "none"]
    /\ locked = {} /\ complete = {} /\ error = {}
    /\ expired = {}
    /\ answer = [c \in Calls |-> "none"]
    /\ pending = {}
    /\ main = NoCall /\ callback = "none"
    /\ alive = TRUE

Move(c, from, to) == alive /\ pc[c] = from /\ pc' = [pc EXCEPT ![c] = to]

\* The process ends.
Die == alive' = FALSE /\ UNCHANGED <<caller, transfer, mem, expired, loop>>

----------------------------------------------------------------------------
(* camel_map_dbus_get_message.                                             *)

\* The proxy of the message; without one the answer is FALSE.
MessageProxy(c) ==
    /\ \/ Move(c, "start", "get") /\ UNCHANGED answer
       \/ /\ Move(c, "start", "done")
          /\ answer' = [answer EXCEPT ![c] = "FALSE"]
    /\ UNCHANGED <<proxied, connected, transfer, mem, expired, loop, alive>>

Get(c) ==
    /\ Move(c, "get", "handler")
    /\ transfer' = [transfer EXCEPT ![c] = "running"]
    /\ UNCHANGED <<proxied, connected, answer, mem, expired, loop, alive>>

\* The reply of a refused Get is NULL and used all the same: the process ends
\* or goes on with the path of a transfer that does not exist.
GetRefused(c) ==
    \/ /\ Move(c, "get", "handler")
       /\ UNCHANGED <<proxied, connected, answer, transfer, mem, expired, loop,
                      alive>>
    \/ alive /\ pc[c] = "get" /\ Die

NewHandler(c) ==
    /\ Move(c, "handler", "proxy")
    /\ handler' = [handler EXCEPT ![c] = "live"]
    /\ locked' = locked \cup {c}
    /\ UNCHANGED <<proxied, connected, answer, transfer, complete, error,
                   expired, loop, alive>>

\* The proxy of the transfer is told what happens from now on only.
TransferProxy(c) ==
    /\ Move(c, "proxy", "connect")
    /\ proxied' \in {proxied, proxied \cup {c}}
    /\ UNCHANGED <<connected, answer, transfer, mem, expired, loop, alive>>

Connect(c) ==
    /\ Move(c, "connect", "test")
    /\ connected' = connected \cup ({c} \cap proxied)
    /\ UNCHANGED <<proxied, answer, transfer, mem, expired, loop, alive>>

\* The condition of the loop.  The handler's lock is held, but the callback does
\* not take it: it may set complete and signal before the call waits.
Test(c) ==
    /\ Move(c, "test", IF c \in complete THEN "clear" ELSE "tested")
    /\ UNCHANGED <<proxied, connected, answer, transfer, mem, expired, loop,
                   alive>>

\* The call gives the lock back and from now on takes a signal.
Wait(c) ==
    /\ Move(c, "tested", "wait")
    /\ locked' = locked \ {c}
    /\ UNCHANGED <<proxied, connected, answer, transfer, handler, complete,
                   error, expired, loop, alive>>

\* g_cond_wait_until may return without a signal.
SpuriousWake(c) ==
    /\ c \notin expired
    /\ Move(c, "wait", "test")
    /\ locked' = locked \cup {c}
    /\ UNCHANGED <<proxied, connected, answer, transfer, handler, complete,
                   error, expired, loop, alive>>

\* Mutant of Timeout: g_cond_wait, which has no end_time.
TimeoutNever(c) == FALSE /\ UNCHANGED vars

\* end_time has passed: leave the loop, with the lock released.
Timeout(c) ==
    /\ c \in expired
    /\ Move(c, "wait", "clear")
    /\ UNCHANGED <<proxied, connected, answer, transfer, mem, expired, loop,
                   alive>>

\* Clearing the mutex while it is locked is undefined: newer GLibs abort.
Clear(c) ==
    \/ /\ Move(c, "clear", "read")
       /\ locked' = locked \ {c}
       /\ UNCHANGED <<proxied, connected, answer, transfer, handler, complete,
                      error, expired, loop, alive>>
    \/ alive /\ pc[c] = "clear" /\ c \in locked /\ Die

\* Mutant of ReadError: the status is returned in place of the success.
ReadStatus(c) ==
    /\ Move(c, "read", "free")
    /\ answer' = [answer EXCEPT ![c] = transfer[c]]
    /\ UNCHANGED <<proxied, connected, transfer, mem, expired, loop, alive>>

\* success = handler->error != TRUE
ReadError(c) ==
    /\ Move(c, "read", "free")
    /\ answer' = [answer EXCEPT ![c] = IF c \in error THEN "FALSE" ELSE "TRUE"]
    /\ UNCHANGED <<proxied, connected, transfer, mem, expired, loop, alive>>

\* The callback stays connected.
Free(c) ==
    /\ Move(c, "free", "done")
    /\ handler' = [handler EXCEPT ![c] = "freed"]
    /\ UNCHANGED <<proxied, connected, answer, transfer, locked, complete,
                   error, expired, loop, alive>>

----------------------------------------------------------------------------
(* transfer_on_signal, run by the main loop.                               *)

\* The main loop hands an end of transfer to the callback, if one is connected.
Dispatch(c) ==
    /\ alive
    /\ main = NoCall
    /\ c \in pending
    /\ pending' = pending \ {c}
    /\ IF c \in connected THEN main' = c /\ callback' = "complete"
                          ELSE UNCHANGED <<main, callback>>
    /\ UNCHANGED <<caller, transfer, mem, expired, alive>>

CallbackAt(step) == alive /\ main # NoCall /\ callback = step

SetComplete ==
    /\ CallbackAt("complete")
    /\ handler[main] = "live"
    /\ complete' = complete \cup {main}
    /\ callback' = "error"
    /\ UNCHANGED <<caller, transfer, handler, locked, error, expired, pending,
                   main, alive>>

\* Mutant of SetError: an error sets complete only.
SetErrorNever ==
    /\ CallbackAt("error")
    /\ handler[main] = "live"
    /\ error' = error \ {main}
    /\ callback' = "signal"
    /\ UNCHANGED <<caller, transfer, handler, locked, complete, expired, pending,
                   main, alive>>

SetError ==
    /\ CallbackAt("error")
    /\ handler[main] = "live"
    /\ error' = IF transfer[main] = "error" THEN error \cup {main}
                                            ELSE error \ {main}
    /\ callback' = "signal"
    /\ UNCHANGED <<caller, transfer, handler, locked, complete, expired,
                   pending, main, alive>>

\* Without the lock: a call that has tested complete but does not wait yet
\* misses the signal, and nobody signals again.
SignalCond ==
    /\ CallbackAt("signal")
    /\ handler[main] = "live"
    /\ IF pc[main] = "wait"
       THEN /\ pc' = [pc EXCEPT ![main] = "test"]
            /\ locked' = locked \cup {main}
       ELSE UNCHANGED <<pc, locked>>
    /\ main' = NoCall /\ callback' = "none"
    /\ UNCHANGED <<proxied, connected, answer, transfer, handler, complete,
                   error, expired, pending, alive>>

\* The handler is gone: what a write to it or a signal does is undefined.  The
\* process ends, or the rest of the callback has no effect on the calls.
TouchFreed ==
    /\ alive /\ main # NoCall
    /\ handler[main] = "freed"
    /\ \/ Die
       \/ /\ main' = NoCall /\ callback' = "none"
          /\ UNCHANGED <<caller, transfer, mem, expired, pending, alive>>

----------------------------------------------------------------------------
(* The phone and the clock.                                                *)

\* The transfer ends; whoever has a proxy for it by now is told.
TransferEnds(c) ==
    /\ alive
    /\ transfer[c] = "running"
    /\ \E s \in {"complete", "error"} : transfer' = [transfer EXCEPT ![c] = s]
    /\ pending' = pending \cup ({c} \cap proxied)
    /\ UNCHANGED <<caller, mem, expired, main, callback, alive>>

\* The two minutes that began with the handler are over.
TimePasses(c) ==
    /\ alive
    /\ handler[c] = "live" /\ c \notin expired
    /\ expired' = expired \cup {c}
    /\ UNCHANGED <<caller, transfer, mem, loop, alive>>

\* The process has ended, or every call is over and the main loop is idle.
Rest ==
    /\ \/ ~alive
       \/ /\ \A c \in Calls : pc[c] = "done" /\ transfer[c] # "running"
          /\ pending = {} /\ main = NoCall
    /\ UNCHANGED vars

----------------------------------------------------------------------------

Step(c) ==
    \/ MessageProxy(c) \/ Get(c) \/ GetRefused(c) \/ NewHandler(c)
    \/ TransferProxy(c) \/ Connect(c) \/ Test(c) \/ Wait(c)
    \/ Timeout(c) \/ Clear(c) \/ ReadError(c) \/ Free(c)

Callback == SetComplete \/ SetError \/ SignalCond \/ TouchFreed

Next ==
    \/ \E c \in Calls : Step(c) \/ SpuriousWake(c) \/ Dispatch(c)
                        \/ TransferEnds(c) \/ TimePasses(c)
    \/ Callback
    \/ Rest

Spec == Init /\ [][Next]_vars

\* Threads run and the clock goes on; the phone need not finish, and the main
\* loop, which may be busy, need not dispatch.
Fairness == \A c \in Calls : WF_vars(Step(c)) /\ WF_vars(TimePasses(c))

FairSpec == Spec /\ Fairness

----------------------------------------------------------------------------
(* Properties.                                                             *)

\* Type correctness of the whole state.
TypeOK ==
    /\ pc \in [Calls -> {"start", "get", "handler", "proxy", "connect", "test",
                         "tested", "wait", "clear", "read", "free", "done"}]
    /\ transfer \in [Calls -> {"none", "running", "complete", "error"}]
    /\ {proxied, connected, locked, complete, error, expired, pending}
          \subseteq SUBSET Calls
    /\ handler \in [Calls -> {"none", "live", "freed"}]
    /\ answer \in [Calls -> {"none", "TRUE", "FALSE"}]
    /\ main \in Calls \cup {NoCall}
    /\ callback \in {"none", "complete", "error", "signal"}
    /\ alive \in BOOLEAN

\* How far the callback has told the handler of a call: complete is set before
\* error.
Told == [c \in Calls |->
            IF c \notin complete THEN "no"
            ELSE IF main = c /\ callback = "error" THEN "begun" ELSE "done"]

\* camel_map_dbus_get_message keeps the promise of TransferOutcome, wherever the
\* callback's writes and its signal fall between the call's steps: a failure
\* that was told is never taken for a success, one is only while it is being
\* told or when the time is over, no answer comes before the end of the transfer
\* or of the time, and the process ends only of a refused Get, a call whose end
\* was told, or an end that is told after the answer.
Outcome == INSTANCE TransferOutcome
               WITH transfer <- transfer, expired <- expired, told <- Told,
                    answer <- answer, alive <- alive
KeepsOutcome == Outcome!Spec

\* Every call is answered, at the latest when its time is over: a signal that
\* comes between the test and the wait, or before the callback is connected, is
\* lost and costs time, not the answer.
CallsAnswered ==
    \A c \in Calls : pc[c] # "start" ~> pc[c] = "done" \/ ~alive

============================================================================
