-------------------------- MODULE TransferOutcome --------------------------
(***************************************************************************)
(* What camel_map_dbus_get_message promises its caller about the transfer  *)
(* of a message from the phone to a file.  The end of a transfer is told   *)
(* to the call in two steps, and may never be: FALSE is answered only if   *)
(* no transfer was begun or a failure was told, TRUE only if an end is     *)
(* being told or the time is over, and not for a failure that was told.    *)
(* Module MapTransfer implements this; MapMessageFetch builds on it.       *)
(***************************************************************************)

CONSTANT Calls      \* calls of camel_map_dbus_get_message, each made once

VARIABLES
    transfer,       \* the phone's transfer for each call
    expired,        \* the calls whose time is over
    told,           \* the end of each transfer: "no", "begun" or "done"
    answer,         \* what each call returned
    alive           \* the process runs

Outcomes == {"complete", "error"}

Init ==
    /\ transfer = [c \in Calls |-> "none"]
    /\ expired = {}
    /\ told = [c \in Calls |-> "no"]
    /\ answer = [c \in Calls |-> "none"]
    /\ alive = TRUE

Begin(c) ==
    /\ transfer[c] = "none" /\ answer[c] = "none"
    /\ transfer' = [transfer EXCEPT ![c] = "running"]
    /\ UNCHANGED <<expired, told, answer, alive>>

End(c) ==
    /\ transfer[c] = "running"
    /\ \E s \in Outcomes : transfer' = [transfer EXCEPT ![c] = s]
    /\ UNCHANGED <<expired, told, answer, alive>>

Expire(c) ==
    /\ expired' = expired \cup {c}
    /\ UNCHANGED <<transfer, told, answer, alive>>

\* That there is an end is told before what end it is.
TellEnd(c) ==
    /\ transfer[c] \in Outcomes /\ told[c] = "no"
    /\ told' = [told EXCEPT ![c] = "begun"]
    /\ UNCHANGED <<transfer, expired, answer, alive>>

TellOutcome(c) ==
    /\ told[c] = "begun"
    /\ told' = [told EXCEPT ![c] = "done"]
    /\ UNCHANGED <<transfer, expired, answer, alive>>

ReturnTrue(c) ==
    /\ answer[c] = "none"
    /\ told[c] # "no" \/ c \in expired
    /\ ~(transfer[c] = "error" /\ told[c] = "done")
    /\ answer' = [answer EXCEPT ![c] = "TRUE"]
    /\ UNCHANGED <<transfer, expired, told, alive>>

ReturnFalse(c) ==
    /\ answer[c] = "none"
    /\ transfer[c] = "none" \/ (transfer[c] = "error" /\ told[c] = "done")
    /\ answer' = [answer EXCEPT ![c] = "FALSE"]
    /\ UNCHANGED <<transfer, expired, told, alive>>

\* The process may end of a Get that is refused, of a call that was told and
\* leaves with its handler locked, and of an end that comes after the answer.
Die ==
    /\ alive /\ alive' = FALSE
    /\ \E c \in Calls :
          \/ answer[c] = "none" /\ (transfer[c] = "none" \/ told[c] # "no")
          \/ answer[c] # "none" /\ transfer[c] \in Outcomes
    /\ UNCHANGED <<transfer, expired, told, answer>>

Next ==
    \/ \E c \in Calls : Begin(c) \/ End(c) \/ Expire(c) \/ TellEnd(c)
                        \/ TellOutcome(c) \/ ReturnTrue(c) \/ ReturnFalse(c)
    \/ Die

Spec == Init /\ [][Next]_<<transfer, expired, told, answer, alive>>

============================================================================
