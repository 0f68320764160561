--------------------------- MODULE MapDeviceConfig ---------------------------
(***************************************************************************)
(* Configuring an account: the page with the list of phones, the search    *)
(* for phones in a thread of its own, and the settings the page fills in   *)
(* (configuration/e-mail-config-map-backend.c, e-mail-config-map-          *)
(* discovery.c, utils/camel-map-settings.c).                               *)
(*                                                                         *)
(* Everything but the search runs in the main loop, so a handler is one    *)
(* action with all the handlers it sets off: removing rows may move GTK's  *)
(* selection, which changes hidden entries, which are bound to the         *)
(* settings.  A provider is known by its four fields, as the settings are. *)
(* Rows point to providers; freed are the providers whose memory was given *)
(* back.  What of a name matters is whether there is one.                  *)
(***************************************************************************)
EXTENDS Naturals

CONSTANTS
    Devices,        \* the phones around
    Records,        \* the message access services they have
    DeviceOf,       \* the phone of each service
    Named,          \* a device name with text
    Blank,          \* the empty text
    Unset,          \* NULL, and channel 0
    NoProvider,     \* the provider of a row that only says something
    NoRow,          \* the selection when nothing is selected
    NoDevice,       \* no choice
    MaxAbandoned    \* bound: searches whose page was closed

ASSUME RecordsHaveDevices == DeviceOf \in [Records -> Devices]

ASSUME NamesDistinct ==
    /\ Named \notin {Blank, Unset} /\ Blank # Unset
    /\ {Blank, Unset} \cap (Devices \cup Records) = {}
    /\ NoProvider # NoRow /\ NoDevice \notin Records

ASSUME BoundIsNat == MaxAbandoned \in Nat

Providers == [name : {Named, Blank}, address : Devices,
              service : Records, channel : Records]
Settings  == [name : {Named, Blank, Unset},
              address : Devices \cup {Blank, Unset},
              service : Records \cup {Blank, Unset},
              channel : Records \cup {Unset}]

ASSUME PointersDistinct == {NoProvider, NoRow} \cap Providers = {}

VARIABLES
    alive,          \* the process runs
    page,           \* "open" or "closed"
    settings,       \* the settings the page works on
    account,        \* the settings of the account, as saved
    rows,           \* the rows of the list, each by its provider
    selected,       \* the selected row
    providers,      \* priv->providers
    freed,          \* providers that were freed
    sensitive,      \* the button "Discover" can be pressed
    search,         \* the page's search: "none" or where its thread is
    todo,           \* the phones that answered, still to be asked
    found,          \* the providers the search has made
    abandoned       \* searches whose page was closed meanwhile

view   == <<rows, selected, providers, freed, sensitive>>
thread == <<search, todo, found>>

vars == <<alive, page, settings, account, view, thread, abandoned>>

----------------------------------------------------------------------------
(* camel-map-settings.c, and the bindings of the hidden entries to it.     *)

NoSettings == [name |-> Unset, address |-> Unset, service |-> Unset,
               channel |-> Unset]

\* The setters and getters of the four, which the code calls directly, ...
SetField(s, field, value) == [s EXCEPT ![field] = value]
GetField(s, field)        == s[field]

\* ... and the GObject properties that bindings and the account's file use.
SetProperty(s, field, value) == SetField(s, field, value)
GetProperty(s, field)        == GetField(s, field)

\* Mutant of SetText: an empty text for the channel is not refused.
SetTextAlways(s, field, text) == SetProperty(s, field, text)

\* gtk_entry_set_text on a hidden entry: the binding sets the property, unless
\* the entry shows that text already, as it does an empty one for NULL.
\* channel_text_to_uint refuses an empty text.
SetText(s, field, text) ==
    IF text = Blank /\ (field = "channel" \/ s[field] = Unset)
    THEN s ELSE SetProperty(s, field, text)

SetTexts(s, p) ==
    SetText(SetText(SetText(SetText(s, "service", p.service), "name", p.name),
                    "address", p.address), "channel", p.channel)

NoTexts == [name |-> Blank, address |-> Blank, service |-> Blank,
            channel |-> Blank]

----------------------------------------------------------------------------
(* e-mail-config-map-backend.c: the list and its selection.                *)

\* Mutant of SelectionChanged: the address of the provider is not set.
SelectionForgettingAddress(r) ==
    IF r = NoProvider THEN SetTexts(settings, NoTexts)
    ELSE [SetTexts(settings, r) EXCEPT !.address = settings.address]

\* device_selection_changed with row r selected: the settings afterwards.
SelectionChanged(r) ==
    SetTexts(settings, IF r = NoProvider THEN NoTexts ELSE r)

\* The handler reads the providers of the rows rs while those of dead are
\* freed: no harm is done, or anything.
Reads(rs, dead) ==
    alive' \in IF rs \cap dead = {} THEN {TRUE} ELSE BOOLEAN

\* gtk_list_store_clear removes row by row.  When it removes the selected one,
\* GTK may select one of those left, which calls the handler, and so on.
ClearRows(dead) ==
    \E walk \in SUBSET (IF selected = NoRow THEN {} ELSE rows \ {selected}) :
        /\ Reads(walk, dead)
        /\ IF walk = {} THEN UNCHANGED settings
           ELSE \E last \in walk : settings' = SelectionChanged(last)

\* The user, or GTK for the user, selects another row or none.
Select(r) ==
    /\ alive /\ page = "open"
    /\ r # selected
    /\ selected' = r
    /\ IF r = NoRow THEN UNCHANGED <<alive, settings>>
       ELSE Reads({r}, freed) /\ settings' = SelectionChanged(r)
    /\ UNCHANGED <<page, account, rows, providers, freed, sensitive, thread,
                   abandoned>>

----------------------------------------------------------------------------
(* e-mail-config-map-backend.c: the page.                                  *)

\* e_mail_config_map_provider_from_text.
ProviderFromText(s) ==
    [f \in DOMAIN s |-> GetField(s, f)]

\* insert_widgets, on a copy of the account's settings.
InsertWidgets ==
    /\ alive /\ page = "closed"
    /\ page' = "open"
    /\ settings' = account
    /\ providers' = IF account.name = Unset THEN {} ELSE {ProviderFromText(account)}
    /\ rows' = IF account.name = Unset THEN {NoProvider} ELSE providers'
    /\ freed' = freed \ providers'
    /\ selected' = NoRow
    /\ sensitive' = TRUE
    /\ UNCHANGED <<alive, account, thread, abandoned>>

\* Mutant of CheckComplete: any page is complete.
CheckNothing == TRUE

\* check_complete: only the name is looked at.
CheckComplete == settings.name \notin {Blank, Unset}

\* The page goes; a search that still runs has nothing left to report to.
Leave ==
    /\ alive /\ page = "open"
    /\ search # "none" => abandoned < MaxAbandoned
    /\ abandoned' = IF search = "none" THEN abandoned ELSE abandoned + 1
    /\ page' = "closed"
    /\ settings' = NoSettings
    /\ rows' = {} /\ selected' = NoRow /\ providers' = {}
    /\ sensitive' = FALSE
    /\ search' = "none" /\ todo' = {} /\ found' = {}
    /\ UNCHANGED <<alive, freed>>

Apply == CheckComplete /\ account' = [f \in DOMAIN settings |->
                                         GetProperty(settings, f)] /\ Leave

Cancel == UNCHANGED account /\ Leave

\* Mutant of RunDiscovery: the old rows stay until the search is over.
RunDiscoveryKeepingRows ==
    /\ alive /\ page = "open" /\ sensitive
    /\ freed' = freed \cup providers
    /\ providers' = {}
    /\ rows' = rows \cup {NoProvider}
    /\ sensitive' = FALSE
    /\ search' = "inquiry" /\ todo' = {} /\ found' = {}
    /\ UNCHANGED <<alive, page, settings, account, selected, abandoned>>

\* run_discovery, for a click on the button: the providers are freed first,
\* the rows that point to them are removed then.
RunDiscovery ==
    /\ alive /\ page = "open" /\ sensitive
    /\ freed' = freed \cup providers
    /\ providers' = {}
    /\ ClearRows(freed')
    /\ rows' = {NoProvider} /\ selected' = NoRow
    /\ sensitive' = FALSE
    /\ search' = "inquiry" /\ todo' = {} /\ found' = {}
    /\ UNCHANGED <<page, account, abandoned>>

\* The end of a search in the main loop, with kept in priv->providers and the
\* button as given.
ShowFound(kept, button) ==
    /\ alive /\ search = "over"
    /\ freed' = freed \cup providers
    /\ providers' = kept
    /\ ClearRows(freed')
    /\ rows' = IF found = {} THEN {NoProvider} ELSE found
    /\ selected' = NoRow
    /\ sensitive' = button
    /\ search' = "none" /\ todo' = {} /\ found' = {}
    /\ UNCHANGED <<page, account, abandoned>>

\* Mutants of DevicesDiscover: the providers found are kept to be freed by the
\* next search; the button stays as it was when nothing was found.
DevicesDiscoverKeeping  == ShowFound(found, TRUE)
DevicesDiscoverNoButton == ShowFound({}, IF found = {} THEN sensitive ELSE TRUE)

\* devices_discover_cb while the page is open: nothing is kept of the list.
DevicesDiscover == ShowFound({}, TRUE)

\* devices_discover_cb when the page is closed: it uses the page's private
\* data and button, which are gone.
DevicesDiscoverLate ==
    /\ alive /\ abandoned > 0
    /\ abandoned' = abandoned - 1
    /\ alive' \in BOOLEAN
    /\ UNCHANGED <<page, settings, account, view, thread>>

----------------------------------------------------------------------------
(* e-mail-config-map-discovery.c, in the thread of the search.             *)

Searching(from, to) == alive /\ search = from /\ search' = to

\* The local adapter and the inquiry: no adapter, a failure or some phones.
Inquiry ==
    /\ \/ Searching("inquiry", "over") /\ UNCHANGED todo
       \/ Searching("inquiry", "phones") /\ todo' \in SUBSET Devices
    /\ UNCHANGED <<alive, page, settings, account, view, found, abandoned>>

\* sdp_connect fails: the function returns and the list made so far is lost.
ConnectFails ==
    /\ todo # {}
    /\ Searching("phones", "over")
    /\ found' = {} /\ todo' = {}
    /\ UNCHANGED <<alive, page, settings, account, view, abandoned>>

\* The answer of a phone: those of its services that have a channel.  The name
\* is read anew for each phone, and is what the buffer held when that fails.
AskPhone(d) ==
    /\ d \in todo
    /\ Searching("phones", "phones")
    /\ \E rs \in SUBSET {r \in Records : DeviceOf[r] = d}, n \in {Named, Blank} :
          LET new == {[name |-> n, address |-> d, service |-> r, channel |-> r] :
                      r \in rs}
          IN found' = found \cup new /\ freed' = freed \ new
    /\ todo' = todo \ {d}
    /\ UNCHANGED <<alive, page, settings, account, rows, selected, providers,
                   sensitive, abandoned>>

\* A service without a name, or a failed request whose result is used.
AskPhoneCrash ==
    /\ alive /\ search = "phones" /\ todo # {}
    /\ alive' = FALSE
    /\ UNCHANGED <<page, settings, account, view, thread, abandoned>>

AllAsked ==
    /\ todo = {}
    /\ Searching("phones", "over")
    /\ UNCHANGED <<alive, page, settings, account, view, todo, found, abandoned>>

Search == Inquiry \/ ConnectFails \/ AllAsked \/ AskPhoneCrash
          \/ \E d \in Devices : AskPhone(d)

----------------------------------------------------------------------------

Init ==
    /\ alive = TRUE
    /\ page = "closed"
    /\ settings = NoSettings /\ account = NoSettings
    /\ rows = {} /\ selected = NoRow
    /\ providers = {} /\ freed = {}
    /\ sensitive = FALSE
    /\ search = "none" /\ todo = {} /\ found = {}
    /\ abandoned = 0

\* The process is over.
Ended == ~alive /\ UNCHANGED vars

Next ==
    \/ InsertWidgets \/ Apply \/ Cancel
    \/ \E r \in rows \cup {NoRow} : Select(r)
    \/ RunDiscovery \/ DevicesDiscover \/ DevicesDiscoverLate
    \/ Search
    \/ Ended

Spec == Init /\ [][Next]_vars

\* Requests to phones have timeouts, and the main loop runs its callbacks; the
\* user has to do nothing.
Fairness == WF_vars(Search) /\ WF_vars(DevicesDiscover)

FairSpec == Spec /\ Fairness

----------------------------------------------------------------------------
(* Properties.                                                             *)

\* Type correctness of the whole state.
TypeOK ==
    /\ alive \in BOOLEAN
    /\ page \in {"open", "closed"}
    /\ settings \in Settings /\ account \in Settings
    /\ rows \subseteq Providers \cup {NoProvider}
    /\ selected \in rows \cup {NoRow}
    /\ providers \subseteq Providers /\ freed \subseteq Providers
    /\ sensitive \in BOOLEAN
    /\ search \in {"none", "inquiry", "phones", "over"}
    /\ todo \subseteq Devices /\ found \subseteq Providers
    /\ abandoned \in 0..MaxAbandoned

\* Between two handlers no row of the list points to a provider that was
\* freed, although run_discovery frees them before it removes the rows.
RowsLive == rows \cap freed = {}

\* check_complete looks at the name only; when it accepts, address, service and
\* channel are those of one service, whatever was selected, searched for or
\* cleared on the way.
CompleteIsUsable ==
    CheckComplete =>
        \E r \in Records : /\ settings.address = DeviceOf[r]
                           /\ settings.service = r /\ settings.channel = r

\* Selecting rows and removing them never reads a freed provider: the process
\* is only at risk from answers of phones and from a page closed too early.
DiesOnlyOfSearch ==
    [][alive /\ ~alive' => search = "phones" \/ abandoned' < abandoned]_vars

\* The page implements DeviceChoice: the choice is what its settings say.
Mixed == "mixed"

ServiceOf(s) ==
    IF s.name \in {Blank, Unset} THEN NoDevice
    ELSE IF \E r \in Records : s.service = r /\ s.channel = r /\ s.address = DeviceOf[r]
         THEN s.service ELSE Mixed

Choice == INSTANCE DeviceChoice
          WITH offered <- {ServiceOf(p) : p \in rows \ {NoProvider}} \ {NoDevice},
               choice  <- ServiceOf(settings),
               account <- ServiceOf(account)

ChoosesDevice == Choice!Spec

\* After a search the button comes back, whatever became of the search, unless
\* the page was closed or the process died.
ButtonReturns ==
    page = "open" /\ ~sensitive ~> sensitive \/ page = "closed" \/ ~alive

==============================================================================
