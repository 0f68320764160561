---------------------------- MODULE DeviceChoice -----------------------------
(***************************************************************************)
(* What the account's configuration page promises about the phone an       *)
(* account is for: at any time the user's choice is one message access     *)
(* service as a whole or none, it is one that was offered on the page, and *)
(* an account only ever gets a service that was the choice.  A new search  *)
(* takes the offers away, and with them the choice may move to another of  *)
(* them.  Module MapDeviceConfig implements this.                          *)
(***************************************************************************)

CONSTANTS
    Records,    \* the message access services of the phones around
    NoDevice    \* no choice, or an account without a phone

VARIABLES
    offered,    \* the services on the page
    choice,     \* the service chosen on the page
    account     \* the service of the account

choosing == <<offered, choice, account>>

Init == offered = {} /\ choice = NoDevice /\ account = NoDevice

\* The page is opened for the account as it is.
Edit ==
    /\ choice' = account
    /\ offered' = {account} \ {NoDevice}
    /\ UNCHANGED account

Choose ==
    /\ choice' \in offered \cup {NoDevice}
    /\ UNCHANGED <<offered, account>>

Search ==
    /\ choice' \in offered \cup {choice, NoDevice}
    /\ offered' = {}
    /\ UNCHANGED account

Found ==
    /\ offered' \in SUBSET Records
    /\ UNCHANGED <<choice, account>>

Leave == offered' = {} /\ choice' = NoDevice

Apply  == choice # NoDevice /\ account' = choice /\ Leave
Cancel == UNCHANGED account /\ Leave

Next == Edit \/ Choose \/ Search \/ Found \/ Apply \/ Cancel

Spec == Init /\ [][Next]_choosing

==============================================================================
