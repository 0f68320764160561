----------------------- MODULE MapDeviceConfigProofs -------------------------
(***************************************************************************)
(* The safety properties of MapDeviceConfig for any phones and services    *)
(* and any number of searches.                                             *)
(*                                                                         *)
(* None of them is inductive: that a row is not freed needs that the       *)
(* providers a search makes are not, and that the page has none of its own *)
(* while it searches; that complete settings are of one service needs that *)
(* every provider which can be selected is, and the saved account as well. *)
(***************************************************************************)
EXTENDS MapDeviceConfig, TLAPS

\* Address, service and channel are those of one service.
OneService(s) == \E r \in Records : /\ s.address = DeviceOf[r]
                                    /\ s.service = r /\ s.channel = r

\* Every provider that is or will be on the page.
OffersServices ==
    \A p \in (rows \ {NoProvider}) \cup found \cup providers : OneService(p)

\* The page has a provider of its own until its first search only, and it is
\* its only row; while it searches no row has a provider.
OwnProvider ==
    /\ page = "closed" => search = "none"
    /\ search # "none" => providers = {} /\ rows = {NoProvider}
    /\ providers # {} => \E p \in Providers : providers = {p} /\ rows = {p}

SavedUsable ==
    /\ account.name \in {Named, Unset}
    /\ account.name = Named => OneService(account)

\* The inductive invariant.
IInv ==
    /\ TypeOK
    /\ RowsLive
    /\ found \cap freed = {}
    /\ OwnProvider
    /\ OffersServices
    /\ CompleteIsUsable
    /\ SavedUsable

----------------------------------------------------------------------------
(* The settings.                                                           *)

\* Reading a record field by field, as e_mail_config_map_provider_from_text
\* and the saving of the account do, gives the record.
LEMMA CopyIsSame ==
    ASSUME NEW s \in Settings
    PROVE  /\ ProviderFromText(s) = s
           /\ [f \in DOMAIN s |-> GetProperty(s, f)] = s
BY DEF Settings, ProviderFromText, GetProperty, GetField

\* Settings that were never set have no name.
LEMMA NoSettingsBlank ==
    NoSettings \in Settings /\ NoSettings.name = Unset /\ Unset # Named
BY NamesDistinct DEF NoSettings, Settings

\* Whatever row is selected, the settings stay within their types, and when
\* they have a name, they are those of the row's service
\* (device_selection_changed).
LEMMA SelectionUsable ==
    ASSUME settings \in Settings,
           NEW r \in Providers \cup {NoProvider}, r # NoProvider => OneService(r)
    PROVE  LET s == SelectionChanged(r)
           IN /\ s \in Settings
              /\ s.name = Named => /\ OneService(s)
                                   /\ r # NoProvider /\ r.name = Named
                                   /\ s.service = r.service
<1> USE NamesDistinct, PointersDistinct
<1> DEFINE t == IF r = NoProvider THEN NoTexts ELSE r
           a == SetText(settings, "service", t.service)
           b == SetText(a, "name", t.name)
           c == SetText(b, "address", t.address)
           d == SetText(c, "channel", t.channel)
<1>t. /\ t.service \in Records \cup {Blank} /\ t.name \in {Named, Blank}
      /\ t.address \in Devices \cup {Blank} /\ t.channel \in Records \cup {Blank}
    BY DEF Providers, NoTexts
<1>1. SelectionChanged(r) = d
    BY DEF SelectionChanged, SetTexts
<1>2. a \in Settings /\ (t.service # Blank => a.service = t.service)
    BY DEF SetText, SetProperty, SetField, Settings, Providers, NoTexts
<1>3. /\ b \in Settings /\ b.service = a.service
      /\ b.name = Named => t.name = Named
    BY <1>2 DEF SetText, SetProperty, SetField, Settings, Providers, NoTexts
<1>4. /\ c \in Settings /\ c.service = b.service /\ c.name = b.name
      /\ t.address # Blank => c.address = t.address
    BY <1>3 DEF SetText, SetProperty, SetField, Settings, Providers, NoTexts
<1>5. /\ d \in Settings /\ d.service = c.service /\ d.name = c.name
      /\ d.address = c.address
      /\ t.channel # Blank => d.channel = t.channel
    BY <1>t, <1>4 DEF SetText, SetProperty, SetField, Settings
<1> HIDE DEF a, b, c, d
<1>6. CASE r = NoProvider
  <2>1. t.name = Blank
      BY <1>6 DEF NoTexts
  <2> QED
      BY <1>1, <1>3, <1>4, <1>5, <2>1
<1>7. CASE r # NoProvider
  <2>1. t = r /\ r \in Providers
      BY <1>7
  <2>2. r.service # Blank /\ r.address # Blank /\ r.channel # Blank
      BY <2>1 DEF Providers
  <2>3. d.service = r.service /\ d.address = r.address /\ d.channel = r.channel
      BY <1>2, <1>3, <1>4, <1>5, <2>1, <2>2
  <2>4. d.name = Named => r.name = Named
      BY <1>3, <1>4, <1>5, <2>1
  <2> QED
      BY <1>1, <1>5, <1>7, <2>1, <2>3, <2>4 DEF OneService
<1> QED
    BY <1>6, <1>7

\* The settings after the rows were removed, whatever rows GTK selected
\* (gtk_list_store_clear).
LEMMA ClearRowsUsable ==
    ASSUME TypeOK, OffersServices, CompleteIsUsable, NEW dead, ClearRows(dead)
    PROVE  settings' \in Settings /\ CompleteIsUsable'
<1>1. CASE UNCHANGED settings
    BY <1>1 DEF TypeOK, CompleteIsUsable, CheckComplete
<1>2. CASE \E r \in rows : settings' = SelectionChanged(r)
  <2>1. PICK r \in rows : settings' = SelectionChanged(r)
      BY <1>2
  <2>2. settings' \in Settings /\ (settings'.name = Named => OneService(settings'))
      BY <2>1, SelectionUsable DEF TypeOK, OffersServices
  <2> QED
      BY <2>2 DEF CompleteIsUsable, CheckComplete, OneService, Settings
<1> QED
    BY <1>1, <1>2 DEF ClearRows

----------------------------------------------------------------------------
(* The steps.                                                              *)

\* Removing rows reads no freed provider unless one of several rows is freed.
LEMMA ClearRowsSafe ==
    ASSUME NEW dead, ClearRows(dead), alive, TypeOK, NEW q,
           \/ rows \cap dead = {}
           \/ rows = {q}
    PROVE  alive' = TRUE
<1>1. PICK walk \in SUBSET (IF selected = NoRow THEN {} ELSE rows \ {selected}) :
         Reads(walk, dead)
    BY DEF ClearRows
<1>2. walk \cap dead = {}
    BY <1>1 DEF TypeOK
<1> QED
    BY <1>1, <1>2 DEF Reads

\* The initial state satisfies the invariant.
LEMMA InitInv == Init => IInv
<1> SUFFICES ASSUME Init PROVE IInv
    OBVIOUS
<1>1. TypeOK
  <2>1. settings \in Settings /\ account \in Settings
      BY NoSettingsBlank DEF Init
  <2>2. abandoned \in 0..MaxAbandoned
      BY BoundIsNat DEF Init
  <2>3. /\ rows \subseteq Providers \cup {NoProvider} /\ selected \in rows \cup {NoRow}
        /\ providers \subseteq Providers /\ freed \subseteq Providers
        /\ todo \subseteq Devices /\ found \subseteq Providers
      BY DEF Init
  <2>4. /\ alive \in BOOLEAN /\ page \in {"open", "closed"} /\ sensitive \in BOOLEAN
        /\ search \in {"none", "inquiry", "phones", "over"}
      BY DEF Init
  <2> QED
      BY <2>1, <2>2, <2>3, <2>4 DEF TypeOK
<1>2. CompleteIsUsable /\ SavedUsable
    BY NoSettingsBlank DEF Init, CompleteIsUsable, CheckComplete, SavedUsable
<1> QED
    BY <1>1, <1>2 DEF Init, IInv, RowsLive, OwnProvider, OffersServices

\* An account with a name can be shown as a provider.
LEMMA SavedIsProvider ==
    ASSUME IInv, account.name # Unset
    PROVE  account \in Providers /\ OneService(account)
<1>1. account \in Settings /\ account.name = Named /\ OneService(account)
    BY DEF IInv, TypeOK, SavedUsable
<1> QED
    BY <1>1, RecordsHaveDevices DEF OneService, Providers, Settings

\* Every step keeps it: the page, the search and the selection.
LEMMA NextInv == IInv /\ [Next]_vars => IInv'
<1> SUFFICES ASSUME IInv, [Next]_vars PROVE IInv'
    OBVIOUS
<1> USE NamesDistinct, PointersDistinct, BoundIsNat
<1>1. CASE InsertWidgets
  <2>1. ProviderFromText(account) = account
      BY CopyIsSame DEF IInv, TypeOK
  <2>2. account.name # Unset => account \in Providers /\ OneService(account)
      BY SavedIsProvider
  <2>3. /\ providers' = IF account.name = Unset THEN {} ELSE {account}
        /\ rows' = IF account.name = Unset THEN {NoProvider} ELSE {account}
      BY <1>1, <2>1 DEF InsertWidgets
  <2>4. TypeOK'
      BY <1>1, <2>2, <2>3 DEF IInv, TypeOK, InsertWidgets, thread
  <2>5. RowsLive' /\ (found \cap freed = {})' /\ OwnProvider' /\ OffersServices'
      BY <1>1, <2>2, <2>3 DEF IInv, TypeOK, RowsLive, OwnProvider,
         OffersServices, InsertWidgets, thread
  <2>6. CompleteIsUsable' /\ SavedUsable'
      BY <1>1 DEF IInv, TypeOK, CompleteIsUsable, CheckComplete, SavedUsable,
         OneService, InsertWidgets
  <2> QED
      BY <2>4, <2>5, <2>6 DEF IInv
<1>2. CASE Leave /\ SavedUsable' /\ account' \in Settings
  <2>1. settings' = NoSettings
      BY <1>2 DEF Leave
  <2>2. TypeOK'
    <3>1. settings' \in Settings
        BY <2>1, NoSettingsBlank
    <3>2. abandoned' \in 0..MaxAbandoned
        BY <1>2 DEF IInv, TypeOK, Leave
    <3>3. /\ rows' \subseteq Providers \cup {NoProvider}
          /\ selected' \in rows' \cup {NoRow}
          /\ providers' \subseteq Providers /\ freed' \subseteq Providers
          /\ todo' \subseteq Devices /\ found' \subseteq Providers
        BY <1>2 DEF IInv, TypeOK, Leave
    <3>4. /\ alive' \in BOOLEAN /\ page' \in {"open", "closed"}
          /\ sensitive' \in BOOLEAN
          /\ search' \in {"none", "inquiry", "phones", "over"}
        BY <1>2 DEF IInv, TypeOK, Leave
    <3> QED
        BY <1>2, <3>1, <3>2, <3>3, <3>4 DEF TypeOK
  <2>3. CompleteIsUsable'
      BY <2>1, NoSettingsBlank DEF CompleteIsUsable, CheckComplete
  <2> QED
      BY <1>2, <2>2, <2>3 DEF IInv, RowsLive, OwnProvider, OffersServices, Leave
<1>3. CASE Apply
  <2>1. account' = settings
      BY <1>3, CopyIsSame DEF Apply, IInv, TypeOK
  <2>2. SavedUsable' /\ account' \in Settings
      BY <1>3, <2>1 DEF Apply, IInv, TypeOK, CompleteIsUsable, CheckComplete,
         SavedUsable, OneService, Settings
  <2> QED
      BY <1>2, <1>3, <2>2 DEF Apply
<1>4. CASE Cancel
    BY <1>2, <1>4 DEF Cancel, IInv, TypeOK, SavedUsable
<1>5. ASSUME NEW r \in rows \cup {NoRow}, Select(r) PROVE IInv'
  <2>1. settings' \in Settings /\ CompleteIsUsable'
    <3>1. CASE r = NoRow
        BY <1>5, <3>1 DEF Select, IInv, TypeOK, CompleteIsUsable, CheckComplete
    <3>2. CASE r # NoRow
      <4>1. settings' = SelectionChanged(r)
          BY <1>5, <3>2 DEF Select
      <4>2. settings' \in Settings /\ (settings'.name = Named => OneService(settings'))
          BY <1>5, <3>2, <4>1, SelectionUsable DEF IInv, TypeOK, OffersServices
      <4> QED
          BY <4>2 DEF CompleteIsUsable, CheckComplete, OneService, Settings
    <3> QED
        BY <3>1, <3>2
  <2> QED
      BY <1>5, <2>1 DEF Select, IInv, TypeOK, RowsLive, OwnProvider,
         OffersServices, SavedUsable, Reads, thread
<1>6. CASE RunDiscovery
  <2>1. settings' \in Settings /\ CompleteIsUsable' /\ alive' \in BOOLEAN
      BY <1>6, ClearRowsUsable DEF RunDiscovery, IInv, ClearRows, Reads
  <2> QED
      BY <1>6, <2>1 DEF RunDiscovery, IInv, TypeOK, RowsLive, OwnProvider,
         OffersServices, SavedUsable
<1>7. CASE DevicesDiscover
  <2>1. settings' \in Settings /\ CompleteIsUsable' /\ alive' \in BOOLEAN
      BY <1>7, ClearRowsUsable DEF DevicesDiscover, ShowFound, IInv, ClearRows, Reads
  <2> QED
      BY <1>7, <2>1 DEF DevicesDiscover, ShowFound, IInv, TypeOK, RowsLive,
         OwnProvider, OffersServices, SavedUsable
<1>8. CASE DevicesDiscoverLate
    BY <1>8 DEF DevicesDiscoverLate, IInv, TypeOK, RowsLive, OwnProvider,
       OffersServices, CompleteIsUsable, CheckComplete, SavedUsable, OneService,
       view, thread
<1>9. CASE Inquiry \/ ConnectFails \/ AllAsked \/ AskPhoneCrash
    BY <1>9 DEF Inquiry, ConnectFails, AllAsked, AskPhoneCrash, Searching, IInv,
       TypeOK, RowsLive, OwnProvider, OffersServices, CompleteIsUsable,
       CheckComplete, SavedUsable, OneService, view, thread
<1>10. ASSUME NEW d \in Devices, AskPhone(d) PROVE IInv'
  <2>1. PICK rs \in SUBSET {r \in Records : DeviceOf[r] = d}, n \in {Named, Blank} :
           LET new == {[name |-> n, address |-> d, service |-> r, channel |-> r] :
                       r \in rs}
           IN found' = found \cup new /\ freed' = freed \ new
      BY <1>10 DEF AskPhone
  <2> DEFINE new == {[name |-> n, address |-> d, service |-> r, channel |-> r] :
                     r \in rs}
  <2>2. new \subseteq Providers /\ \A p \in new : OneService(p)
      BY DEF Providers, OneService
  <2> HIDE DEF new
  <2>3. found' = found \cup new /\ freed' = freed \ new
      BY <2>1 DEF new
  <2> QED
      BY <1>10, <2>2, <2>3 DEF AskPhone, Searching, IInv, TypeOK, RowsLive,
         OwnProvider, OffersServices, CompleteIsUsable, CheckComplete,
         SavedUsable, OneService
<1>11. CASE UNCHANGED vars
    BY <1>11 DEF vars, view, thread, IInv, TypeOK, RowsLive, OwnProvider,
       OffersServices, CompleteIsUsable, CheckComplete, SavedUsable, OneService
<1> QED
    BY <1>1, <1>3, <1>4, <1>5, <1>6, <1>7, <1>8, <1>9, <1>10, <1>11
       DEF Next, Search, Ended

----------------------------------------------------------------------------
\* The invariant holds in every state.
THEOREM Invariance == Spec => []IInv
<1>1. Init => IInv
    BY InitInv
<1>2. IInv /\ [Next]_vars => IInv'
    BY NextInv
<1> QED
    BY <1>1, <1>2, PTL DEF Spec

\* The state stays within its types, among them that the saved account can be
\* read back as a provider (e_mail_config_map_provider_from_text).
THEOREM TypeCorrect == Spec => []TypeOK
<1>1. IInv => TypeOK
    BY DEF IInv
<1> QED
    BY <1>1, Invariance, PTL

\* No row points to a freed provider between two handlers, although
\* run_discovery frees the providers before it removes the rows.
THEOREM RowsLiveHolds == Spec => []RowsLive
<1>1. IInv => RowsLive
    BY DEF IInv
<1> QED
    BY <1>1, Invariance, PTL

\* Settings that check_complete accepts are those of one service.
THEOREM CompleteIsUsableHolds == Spec => []CompleteIsUsable
<1>1. IInv => CompleteIsUsable
    BY DEF IInv
<1> QED
    BY <1>1, Invariance, PTL

\* The handlers of the page never end the process by reading a freed provider:
\* only a phone's answer and the end of a search whose page was closed can.
THEOREM DiesOnlyOfSearchHolds == Spec => DiesOnlyOfSearch
<1> DEFINE Dies == alive /\ ~alive' => search = "phones" \/ abandoned' < abandoned
<1>1. IInv /\ [Next]_vars => [Dies]_vars
  <2> SUFFICES ASSUME IInv, Next, alive, ~alive'
               PROVE  search = "phones" \/ abandoned' < abandoned
      OBVIOUS
  <2> USE NamesDistinct, PointersDistinct, BoundIsNat
  <2>1. ASSUME NEW r \in rows \cup {NoRow} PROVE ~Select(r)
    <3>1. CASE r = NoRow
        BY <3>1 DEF Select
    <3>2. CASE r # NoRow
      <4>1. {r} \cap freed = {}
          BY <2>1, <3>2 DEF IInv, RowsLive
      <4> QED
          BY <3>2, <4>1 DEF Select, Reads
    <3> QED
        BY <3>1, <3>2
  <2>2. ~RunDiscovery
    <3>1. rows \cap (freed \cup providers) = {} \/ \E q : rows = {q}
        BY DEF IInv, RowsLive, OwnProvider
    <3> QED
        BY <3>1, ClearRowsSafe DEF IInv, RunDiscovery
  <2>3. ~DevicesDiscover
    <3>1. search = "over" => rows \cap (freed \cup providers) = {}
        BY DEF IInv, RowsLive, OwnProvider
    <3> QED
        BY <3>1, ClearRowsSafe DEF IInv, DevicesDiscover, ShowFound
  <2>4. CASE DevicesDiscoverLate
      BY <2>4 DEF DevicesDiscoverLate, IInv, TypeOK
  <2>5. CASE Search
      BY <2>5 DEF Search, Inquiry, ConnectFails, AllAsked, AskPhone,
         AskPhoneCrash, Searching
  <2>6. ~InsertWidgets /\ ~Apply /\ ~Cancel /\ ~Ended
      BY DEF InsertWidgets, Apply, Cancel, Leave, Ended, vars
  <2> QED
      BY <2>1, <2>2, <2>3, <2>4, <2>5, <2>6 DEF Next
<1> QED
    BY <1>1, Invariance, PTL DEF Spec, DiesOnlyOfSearch

----------------------------------------------------------------------------
(* The page implements DeviceChoice.                                       *)

\* What a row, the settings or an account say of the phone, in the cases that
\* occur.
LEMMA ServiceOfCases ==
    ASSUME NEW s, s.name \in {Named, Blank, Unset}, s.name = Named => OneService(s)
    PROVE  /\ s.name # Named => ServiceOf(s) = NoDevice
           /\ s.name = Named => ServiceOf(s) = s.service /\ s.service \in Records
BY NamesDistinct DEF ServiceOf, OneService

\* A selected row becomes the choice, or takes it away.
LEMMA SelectionChooses ==
    ASSUME IInv, NEW r \in rows, NEW s, s = SelectionChanged(r)
    PROVE  \/ ServiceOf(s) = NoDevice
           \/ r # NoProvider /\ ServiceOf(s) = ServiceOf(r)
<1>1. /\ s \in Settings
      /\ s.name = Named => /\ OneService(s)
                           /\ r # NoProvider /\ r.name = Named
                           /\ s.service = r.service
    BY SelectionUsable DEF IInv, TypeOK, OffersServices
<1>2. s.name \in {Named, Blank, Unset}
    BY <1>1 DEF Settings
<1>3. CASE s.name # Named
    BY <1>2, <1>3, ServiceOfCases
<1>4. CASE s.name = Named
  <2>1. ServiceOf(s) = s.service
      BY <1>1, <1>2, <1>4, ServiceOfCases
  <2>2. OneService(r)
      BY <1>1, <1>4 DEF IInv, OffersServices
  <2>3. ServiceOf(r) = r.service
      BY <1>1, <1>4, <2>2, ServiceOfCases
  <2> QED
      BY <1>1, <1>4, <2>1, <2>3
<1> QED
    BY <1>3, <1>4

\* Every step of the page is a step of the choice or changes nothing there.
LEMMA ChoiceStep == IInv /\ [Next]_vars => [Choice!Next]_(Choice!choosing)
<1> DEFINE offered == {ServiceOf(p) : p \in rows \ {NoProvider}} \ {NoDevice}
           choice  == ServiceOf(settings)
           saved   == ServiceOf(account)
<1> SUFFICES ASSUME IInv, Next
             PROVE  Choice!Next \/ UNCHANGED <<offered, choice, saved>>
    BY DEF vars, view, thread, Choice!choosing
<1> USE NamesDistinct, PointersDistinct
<1>a. IInv'
    BY NextInv
<1>1. CASE InsertWidgets
  <2>1. ProviderFromText(account) = account
      BY CopyIsSame DEF IInv, TypeOK
  <2>2. rows' = IF account.name = Unset THEN {NoProvider} ELSE {account}
      BY <1>1, <2>1 DEF InsertWidgets
  <2>3. choice' = saved /\ saved' = saved
      BY <1>1 DEF InsertWidgets
  <2>4. offered' = {saved} \ {NoDevice}
    <3>1. CASE account.name = Unset
        BY <2>2, <3>1 DEF ServiceOf
    <3>2. CASE account.name # Unset
        BY <2>2, <3>2, SavedIsProvider
    <3> QED
        BY <3>1, <3>2
  <2> QED
      BY <2>3, <2>4 DEF Choice!Next, Choice!Edit
<1>2. CASE Apply \/ Cancel
  <2>1. offered' = {} /\ choice' = NoDevice
      BY <1>2, NoSettingsBlank DEF Apply, Cancel, Leave, ServiceOf
  <2>2. CASE Apply
    <3>1. saved' = choice
        BY <2>2, CopyIsSame DEF Apply, IInv, TypeOK
    <3>2. choice # NoDevice
        BY <2>2, ServiceOfCases DEF Apply, IInv, TypeOK, CheckComplete,
           CompleteIsUsable, OneService, Settings
    <3> QED
        BY <2>1, <3>1, <3>2 DEF Choice!Next, Choice!Apply, Choice!Leave
  <2>3. CASE Cancel
      BY <2>1, <2>3 DEF Cancel, Choice!Next, Choice!Cancel, Choice!Leave
  <2> QED
      BY <1>2, <2>2, <2>3
<1>3. ASSUME NEW r \in rows \cup {NoRow}, Select(r)
      PROVE  Choice!Next \/ UNCHANGED <<offered, choice, saved>>
  <2>1. UNCHANGED <<offered, saved>>
      BY <1>3 DEF Select
  <2>2. CASE r = NoRow
      BY <1>3, <2>1, <2>2 DEF Select
  <2>3. CASE r # NoRow
    <3>1. settings' = SelectionChanged(r)
        BY <1>3, <2>3 DEF Select
    <3>2. choice' \in offered \cup {NoDevice}
        BY <2>3, <3>1, SelectionChooses
    <3> QED
        BY <2>1, <3>2 DEF Choice!Next, Choice!Choose
  <2> QED
      BY <2>2, <2>3
<1>4. CASE RunDiscovery
  <2>1. offered' = {} /\ saved' = saved
      BY <1>4 DEF RunDiscovery
  <2>2. choice' \in offered \cup {choice, NoDevice}
    <3>1. CASE UNCHANGED settings
        BY <3>1
    <3>2. CASE \E q \in rows : settings' = SelectionChanged(q)
        BY <3>2, SelectionChooses
    <3> QED
        BY <1>4, <3>1, <3>2 DEF RunDiscovery, ClearRows
  <2> QED
      BY <2>1, <2>2 DEF Choice!Next, Choice!Search
<1>5. CASE DevicesDiscover
  <2>1. rows = {NoProvider}
      BY <1>5 DEF DevicesDiscover, ShowFound, IInv, OwnProvider
  <2>2. selected # NoRow => rows \ {selected} = {}
      BY <2>1 DEF IInv, TypeOK
  <2>3. UNCHANGED <<choice, saved>>
      BY <1>5, <2>2 DEF DevicesDiscover, ShowFound, ClearRows
  <2>4. \A p \in rows' \ {NoProvider} :
           p.name \in {Named, Blank, Unset} /\ OneService(p)
      BY <1>a DEF IInv, TypeOK, OffersServices, Providers
  <2>5. offered' \in SUBSET Records
      BY <2>4, ServiceOfCases
  <2> QED
      BY <2>3, <2>5 DEF Choice!Next, Choice!Found
<1>6. CASE DevicesDiscoverLate \/ Search \/ Ended
    BY <1>6 DEF DevicesDiscoverLate, Search, Inquiry, ConnectFails, AllAsked,
       AskPhone, AskPhoneCrash, Ended, vars, view
<1> QED
    BY <1>1, <1>2, <1>3, <1>4, <1>5, <1>6 DEF Next

\* The page implements the choice of a device (insert_widgets,
\* device_selection_changed, run_discovery, devices_discover_cb).
THEOREM ChoosesDeviceHolds == Spec => ChoosesDevice
<1>1. Init => Choice!Init
    BY NoSettingsBlank DEF Init, Choice!Init, ServiceOf
<1>2. IInv /\ [Next]_vars => [Choice!Next]_(Choice!choosing)
    BY ChoiceStep
<1> QED
    BY <1>1, <1>2, Invariance, PTL DEF Spec, ChoosesDevice, Choice!Spec

==============================================================================
