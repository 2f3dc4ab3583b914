--------------------- MODULE MarketplaceRegistryProofs ---------------------
(***************************************************************************)
(* MarketplaceRegistry keeps its types and its safety properties for every *)
(* set of addresses, APIs, prices and every lifetime.  TypeOK /\ ApisSound *)
(* is inductive; the action properties follow from the guards under it.    *)
(***************************************************************************)
EXTENDS MarketplaceRegistry, TLAPS

\* The three kinds of key are distinct, and a key names one thing.
LEMMA Keys ==
    ASSUME NEW a \in Address, NEW i \in ApiId
    PROVE  /\ Provider(a) \in DataKey /\ Api(i) \in DataKey
           /\ Provider(a) # Instance /\ Api(i) # Instance
BY DEF Provider, Api, Instance, DataKey

\* Prolonged lives are whole numbers, and a prolonged entry that could be
\* used can be used for more than Threshold ledgers.
LEMMA ExtendLives ==
    ASSUME ledger \in Nat, NEW lives \in [DataKey -> Int], NEW keys
    PROVE  /\ Extend(lives, keys) \in [DataKey -> Int]
           /\ \A k \in keys \intersect DataKey :
                 Extend(lives, keys)[k] > ledger + Threshold
BY RegistryAssumption DEF Extend

LEMMA CreateLives ==
    ASSUME ledger \in Nat, until \in [DataKey -> Int], NEW k
    PROVE  Create(k) \in [DataKey -> Int]
<1>1. ledger + MinLife - 1 \in Int
      BY RegistryAssumption
<1>2. [until EXCEPT ![k] = ledger + MinLife - 1] \in [DataKey -> Int]
      BY <1>1, Zenon
<1>. QED BY <1>2 DEF Create
LEMMA PublishTyped ==
    ASSUME events \in Seq(Event), NEW e \in Event, Publish(e)
    PROVE  events' \in Seq(Event)
BY DEF Publish
-----------------------------------------------------------------------------
(* Type correctness *)

LEMMA InitTyped == Init => TypeOK
BY RegistryAssumption DEF Init, TypeOK

\* What the governing actions do to the state.
LEMMA GovernTyped ==
    ASSUME TypeOK, NEW a \in Address, Govern(a)
    PROVE  TypeOK'
<1>. USE DEF TypeOK, Invoke
<1>1. ASSUME NEW asset \in Asset, Initialize(a, asset)
      PROVE  TypeOK'
  <2>1. config' \in PlatformConfig
        BY <1>1 DEF Initialize, PlatformConfig
  <2>2. until' \in [DataKey -> Int]
        BY <1>1, ExtendLives DEF Initialize
  <2>. QED BY <1>1, <2>1, <2>2 DEF Initialize
<1>2. ASSUME NEW paused \in BOOLEAN, SetPaused(a, paused)
      PROVE  TypeOK'
  <2>1. config' \in PlatformConfig
        BY <1>2 DEF SetPaused, PlatformConfig
  <2>2. until' \in [DataKey -> Int]
        BY <1>2, ExtendLives DEF SetPaused
  <2>3. events' \in Seq(Event)
        BY <1>2, PublishTyped DEF SetPaused, Event
  <2>. QED BY <1>2, <2>1, <2>2, <2>3 DEF SetPaused
<1>3. ASSUME NEW hash \in Hash, UpgradeContract(a, hash)
      PROVE  TypeOK'
  <2>1. events' \in Seq(Event)
        BY <1>3, PublishTyped DEF UpgradeContract, Event
  <2>. QED BY <1>3, <2>1 DEF UpgradeContract, entries
<1>. QED BY <1>1, <1>2, <1>3 DEF Govern

LEMMA ProvideTyped ==
    ASSUME TypeOK, NEW a \in Address, Provide(a)
    PROVE  TypeOK'
<1>. USE DEF TypeOK, Invoke
<1>1. ASSUME NEW hash \in Hash, RegisterProvider(a, hash)
      PROVE  TypeOK'
  <2>1. providers' \in [Address -> ProviderProfile \union {None}]
        BY <1>1 DEF RegisterProvider, ProviderProfile
  <2>2. until' \in [DataKey -> Int]
        BY <1>1, ExtendLives, CreateLives DEF RegisterProvider
  <2>3. events' \in Seq(Event)
        BY <1>1, PublishTyped DEF RegisterProvider, Event
  <2>. QED BY <1>1, <2>1, <2>2, <2>3 DEF RegisterProvider
<1>2. ASSUME NEW hash \in Hash, UpdateProviderMetadata(a, hash)
      PROVE  TypeOK'
  <2>1. providers[a] \in ProviderProfile
        BY <1>2 DEF UpdateProviderMetadata, read_provider
  <2>2. [providers[a] EXCEPT !.metadata_hash = hash] \in ProviderProfile
        BY <2>1 DEF ProviderProfile
  <2>3. providers' = [providers EXCEPT ![a] =
                        [providers[a] EXCEPT !.metadata_hash = hash]]
        BY <1>2 DEF UpdateProviderMetadata
  <2>4. providers' \in [Address -> ProviderProfile \union {None}]
        BY <2>2, <2>3
  <2>5. until' \in [DataKey -> Int]
        BY <1>2, ExtendLives DEF UpdateProviderMetadata
  <2>6. events' \in Seq(Event)
        BY <1>2, PublishTyped DEF UpdateProviderMetadata, Event
  <2>. QED BY <1>2, <2>4, <2>5, <2>6 DEF UpdateProviderMetadata
<1>3. ASSUME NEW i \in ApiId, NEW hash \in Hash, NEW price \in Prices,
             NEW to \in Address, RegisterApi(a, i, hash, price, to)
      PROVE  TypeOK'
  <2>1. [provider |-> a, metadata_hash |-> hash, price |-> price,
         recipient |-> to, active |-> TRUE] \in ApiProduct
        BY RegistryAssumption DEF ApiProduct
  <2>2. apis' \in [ApiId -> ApiProduct \union {None}]
        BY <1>3, <2>1 DEF RegisterApi
  <2>3. until' \in [DataKey -> Int]
        BY <1>3, ExtendLives, CreateLives DEF RegisterApi
  <2>4. events' \in Seq(Event)
        BY <1>3, PublishTyped, RegistryAssumption DEF RegisterApi, Event
  <2>. QED BY <1>3, <2>2, <2>3, <2>4 DEF RegisterApi
<1>4. ASSUME NEW i \in ApiId, NEW price \in Prices, UpdateApiPrice(a, i, price)
      PROVE  TypeOK'
  <2>1. apis[i] \in ApiProduct
        BY <1>4 DEF UpdateApiPrice, read_api
  <2>2. [apis[i] EXCEPT !.price = price] \in ApiProduct
        BY <2>1, RegistryAssumption DEF ApiProduct
  <2>3. apis' = [apis EXCEPT ![i] = [apis[i] EXCEPT !.price = price]]
        BY <1>4 DEF UpdateApiPrice
  <2>4. apis' \in [ApiId -> ApiProduct \union {None}]
        BY <2>2, <2>3
  <2>5. until' \in [DataKey -> Int]
        BY <1>4, ExtendLives DEF UpdateApiPrice
  <2>6. events' \in Seq(Event)
        BY <1>4, PublishTyped, RegistryAssumption DEF UpdateApiPrice, Event
  <2>. QED BY <1>4, <2>4, <2>5, <2>6 DEF UpdateApiPrice
<1>5. ASSUME NEW i \in ApiId, NEW active \in BOOLEAN, SetApiStatus(a, i, active)
      PROVE  TypeOK'
  <2>1. apis[i] \in ApiProduct
        BY <1>5 DEF SetApiStatus, read_api
  <2>2. [apis[i] EXCEPT !.active = active] \in ApiProduct
        BY <2>1 DEF ApiProduct
  <2>3. apis' = [apis EXCEPT ![i] = [apis[i] EXCEPT !.active = active]]
        BY <1>5 DEF SetApiStatus
  <2>4. apis' \in [ApiId -> ApiProduct \union {None}]
        BY <2>2, <2>3
  <2>5. until' \in [DataKey -> Int]
        BY <1>5, ExtendLives DEF SetApiStatus
  <2>6. events' \in Seq(Event)
        BY <1>5, PublishTyped DEF SetApiStatus, Event
  <2>. QED BY <1>5, <2>4, <2>5, <2>6 DEF SetApiStatus
<1>. QED BY <1>1, <1>2, <1>3, <1>4, <1>5 DEF Provide

LEMMA OtherTyped ==
    ASSUME TypeOK,
           \/ \E a \in Address : Read(a)
           \/ Close
           \/ \E k \in DataKey : Restore(k)
    PROVE  TypeOK'
<1>. USE DEF TypeOK
<1>1. ASSUME NEW a \in Address, Read(a)
      PROVE  TypeOK'
  <2>1. PICK keys : until' = Extend(until, keys)
        BY <1>1 DEF Read, GetPlatformConfig, GetProvider, GetApi
  <2>2. until' \in [DataKey -> Int]
        BY <2>1, ExtendLives
  <2>. QED BY <1>1, <2>2 DEF Read, GetPlatformConfig, GetProvider, GetApi,
                             Invoke, entries
<1>2. CASE Close
      BY <1>2 DEF Close, entries
<1>3. ASSUME NEW k \in DataKey, Restore(k)
      PROVE  TypeOK'
      BY <1>3, CreateLives DEF Restore, entries
<1>. QED BY <1>1, <1>2, <1>3

LEMMA NextTyped == TypeOK /\ [Next]_vars => TypeOK'
<1>. SUFFICES ASSUME TypeOK, [Next]_vars PROVE TypeOK'
     OBVIOUS
<1>1. CASE UNCHANGED vars
      BY <1>1 DEF vars, TypeOK
<1>2. CASE Next
      BY <1>2, GovernTyped, ProvideTyped, OtherTyped DEF Next
<1>. QED BY <1>1, <1>2

\* Every variable has its type.
THEOREM TypeCorrect == Spec => []TypeOK
BY InitTyped, NextTyped, PTL DEF Spec
-----------------------------------------------------------------------------
(* Steps *)

\* A step that changes an entry is one of six; the others change none.
LEMMA Changes ==
    ASSUME [Next]_vars
    PROVE  \/ UNCHANGED <<config, providers, apis, wasm>>
           \/ \E a \in Address : Govern(a) \/ Provide(a)
BY DEF Next, vars, Read, GetPlatformConfig, GetProvider, GetApi, Close, Restore,
       entries

\* Governing changes neither providers nor APIs.
LEMMA GovernStep ==
    ASSUME TypeOK, NEW a \in Address, Govern(a)
    PROVE  /\ UNCHANGED <<providers, apis>>
           /\ signer' = a
           /\ config' # config => /\ config'.admin = a
                                  /\ until'[Instance] > ledger + Threshold
           /\ wasm' # wasm => config.admin = a
           /\ config # None => /\ config' # None
                               /\ config'.admin = config.admin
                               /\ config'.accepted_asset = config.accepted_asset
<1>. USE DEF TypeOK, Invoke
<1>1. Instance \in DataKey
      BY DEF DataKey
<1>2. ASSUME NEW asset \in Asset, Initialize(a, asset)
      PROVE  /\ UNCHANGED <<providers, apis, wasm>> /\ signer' = a
             /\ config = None /\ config'.admin = a
             /\ until'[Instance] > ledger + Threshold
      BY <1>1, <1>2, ExtendLives DEF Initialize
<1>3. ASSUME NEW paused \in BOOLEAN, SetPaused(a, paused)
      PROVE  /\ UNCHANGED <<providers, apis, wasm>> /\ signer' = a
             /\ config' \in PlatformConfig
             /\ config.admin = a /\ config'.admin = a
             /\ config'.accepted_asset = config.accepted_asset
             /\ until'[Instance] > ledger + Threshold
  <2>1. until'[Instance] > ledger + Threshold
        BY <1>1, <1>3, ExtendLives DEF SetPaused
  <2>2. config \in PlatformConfig
        BY <1>3 DEF SetPaused
  <2>. QED BY <1>3, <2>1, <2>2 DEF SetPaused, PlatformConfig
<1>4. ASSUME NEW hash \in Hash, UpgradeContract(a, hash)
      PROVE  /\ UNCHANGED <<providers, apis, config>> /\ signer' = a
             /\ config.admin = a
      BY <1>4 DEF UpgradeContract, entries
<1>5. None \notin PlatformConfig
      BY RegistryNoneAssumption
<1>. QED BY <1>2, <1>3, <1>4, <1>5 DEF Govern

\* A provider changes its own profile, or its own API, while the platform is
\* not paused; what it writes it prolongs.
OwnProfile(a) ==
    /\ UNCHANGED apis
    /\ \A p \in Address : providers'[p] # providers[p] =>
          p = a /\ until'[Provider(p)] > ledger + Threshold
    /\ \A p \in Address : providers[p] # None => providers'[p] # None

OwnApi(a) ==
    /\ UNCHANGED providers
    /\ \A i \in ApiId : apis'[i] # apis[i] =>
          /\ apis'[i] # None
          /\ apis'[i].provider = a
          /\ providers[a] # None
          /\ 0 < apis'[i].price /\ apis'[i].price <= MaxPrice
          /\ until'[Api(i)] > ledger + Threshold
          /\ apis[i] # None => /\ apis[i].provider = a
                               /\ apis'[i].recipient = apis[i].recipient
                               /\ apis'[i].metadata_hash = apis[i].metadata_hash

LEMMA RegisterProviderStep ==
    ASSUME TypeOK, NEW a \in Address, NEW hash \in Hash, RegisterProvider(a, hash)
    PROVE  OwnProfile(a)
<1>1. until'[Provider(a)] > ledger + Threshold
      BY Keys, ExtendLives, CreateLives DEF RegisterProvider, TypeOK, Provider,
         DataKey
<1>2. providers'[a] \in ProviderProfile
      BY DEF RegisterProvider, TypeOK, ProviderProfile
<1>3. None \notin ProviderProfile
      BY RegistryNoneAssumption
<1>. QED BY <1>1, <1>2, <1>3 DEF OwnProfile, RegisterProvider, TypeOK

LEMMA UpdateProviderStep ==
    ASSUME TypeOK, NEW a \in Address, NEW hash \in Hash,
           UpdateProviderMetadata(a, hash)
    PROVE  OwnProfile(a)
<1>1. until'[Provider(a)] > ledger + Threshold
      BY ExtendLives DEF UpdateProviderMetadata, TypeOK, Provider, DataKey
<1>2. providers[a] \in ProviderProfile
      BY DEF UpdateProviderMetadata, read_provider, TypeOK
<1>3. [providers[a] EXCEPT !.metadata_hash = hash] \in ProviderProfile
      BY <1>2 DEF ProviderProfile
<1>4. providers' = [providers EXCEPT ![a] =
                      [providers[a] EXCEPT !.metadata_hash = hash]]
      BY DEF UpdateProviderMetadata
<1>5. None \notin ProviderProfile
      BY RegistryNoneAssumption
<1>. QED BY <1>1, <1>3, <1>4, <1>5 DEF OwnProfile, UpdateProviderMetadata, TypeOK

LEMMA RegisterApiStep ==
    ASSUME TypeOK, NEW a \in Address, NEW i \in ApiId, NEW hash \in Hash,
           NEW price \in Prices, NEW to \in Address,
           RegisterApi(a, i, hash, price, to)
    PROVE  OwnApi(a)
<1> DEFINE product == [provider |-> a, metadata_hash |-> hash, price |-> price,
                       recipient |-> to, active |-> TRUE]
<1>1. until'[Api(i)] > ledger + Threshold
      BY ExtendLives, CreateLives DEF RegisterApi, TypeOK, Api, DataKey
<1>2. product \in ApiProduct
      BY RegistryAssumption DEF ApiProduct
<1>3. None \notin ApiProduct
      BY RegistryNoneAssumption
<1>4. apis' = [apis EXCEPT ![i] = product] /\ apis[i] = None
      BY DEF RegisterApi
<1>5. 0 < product.price /\ product.price <= MaxPrice /\ product.provider = a
      BY DEF RegisterApi, validate_price
<1>6. UNCHANGED providers /\ providers[a] # None
      BY DEF RegisterApi, read_provider
<1> HIDE DEF product
<1>. QED BY <1>1, <1>2, <1>3, <1>4, <1>5, <1>6 DEF OwnApi, TypeOK

LEMMA UpdatePriceStep ==
    ASSUME TypeOK, ApisSound, NEW a \in Address, NEW i \in ApiId,
           NEW price \in Prices, UpdateApiPrice(a, i, price)
    PROVE  OwnApi(a)
<1> DEFINE product == [apis[i] EXCEPT !.price = price]
<1>1. until'[Api(i)] > ledger + Threshold
      BY ExtendLives DEF UpdateApiPrice, TypeOK, Api, DataKey
<1>2. apis[i] \in ApiProduct /\ apis[i].provider = a
      BY DEF UpdateApiPrice, read_api, TypeOK
<1>3. /\ product \in ApiProduct
      /\ product.provider = a
      /\ product.price = price
      /\ product.recipient = apis[i].recipient
      /\ product.metadata_hash = apis[i].metadata_hash
      BY <1>2, RegistryAssumption DEF ApiProduct
<1>4. None \notin ApiProduct
      BY RegistryNoneAssumption
<1>5. apis' = [apis EXCEPT ![i] = product] /\ UNCHANGED providers
      BY DEF UpdateApiPrice
<1>6. 0 < price /\ price <= MaxPrice
      BY DEF UpdateApiPrice, validate_price
<1>7. providers[a] # None
      BY <1>2, <1>4 DEF ApisSound
<1> HIDE DEF product
<1>. QED BY <1>1, <1>2, <1>3, <1>4, <1>5, <1>6, <1>7 DEF OwnApi, TypeOK

LEMMA SetStatusStep ==
    ASSUME TypeOK, ApisSound, NEW a \in Address, NEW i \in ApiId,
           NEW active \in BOOLEAN, SetApiStatus(a, i, active)
    PROVE  OwnApi(a)
<1> DEFINE product == [apis[i] EXCEPT !.active = active]
<1>1. until'[Api(i)] > ledger + Threshold
      BY ExtendLives DEF SetApiStatus, TypeOK, Api, DataKey
<1>2. apis[i] \in ApiProduct /\ apis[i].provider = a
      BY DEF SetApiStatus, read_api, TypeOK
<1>3. /\ product \in ApiProduct
      /\ product.provider = a
      /\ product.price = apis[i].price
      /\ product.recipient = apis[i].recipient
      /\ product.metadata_hash = apis[i].metadata_hash
      BY <1>2 DEF ApiProduct
<1>4. None \notin ApiProduct
      BY RegistryNoneAssumption
<1>5. apis' = [apis EXCEPT ![i] = product] /\ UNCHANGED providers
      BY DEF SetApiStatus
<1>6. providers[a] # None /\ 0 < apis[i].price /\ apis[i].price <= MaxPrice
      BY <1>2, <1>4 DEF ApisSound
<1> HIDE DEF product
<1>. QED BY <1>1, <1>2, <1>3, <1>4, <1>5, <1>6 DEF OwnApi, TypeOK

LEMMA ProvideStep ==
    ASSUME TypeOK, ApisSound, NEW a \in Address, Provide(a)
    PROVE  /\ UNCHANGED <<config, wasm>>
           /\ signer' = a
           /\ config # None /\ ~ config.paused
           /\ OwnProfile(a) \/ OwnApi(a)
<1>1. OwnProfile(a) \/ OwnApi(a)
      BY RegisterProviderStep, UpdateProviderStep, RegisterApiStep,
         UpdatePriceStep, SetStatusStep DEF Provide
<1>2. UNCHANGED <<config, wasm>> /\ signer' = a /\ require_running
      BY DEF Provide, RegisterProvider, UpdateProviderMetadata, RegisterApi,
         UpdateApiPrice, SetApiStatus, Invoke
<1>. QED BY <1>1, <1>2 DEF require_running
-----------------------------------------------------------------------------
(* Theorems *)

LEMMA SoundKept == TypeOK /\ ApisSound /\ [Next]_vars => ApisSound'
<1>. SUFFICES ASSUME TypeOK, ApisSound, [Next]_vars PROVE ApisSound'
     OBVIOUS
<1>1. CASE UNCHANGED <<config, providers, apis, wasm>>
      BY <1>1 DEF ApisSound
<1>2. ASSUME NEW a \in Address, Govern(a)
      PROVE  ApisSound'
      BY <1>2, GovernStep DEF ApisSound
<1>3. ASSUME NEW a \in Address, Provide(a)
      PROVE  ApisSound'
  <2>1. CASE OwnProfile(a)
    <3>. SUFFICES ASSUME NEW i \in ApiId, apis[i] # None
                  PROVE  providers'[apis[i].provider] # None
         BY <2>1 DEF OwnProfile, ApisSound
    <3>1. apis[i].provider \in Address
          BY DEF TypeOK, ApiProduct
    <3>. QED BY <2>1, <3>1 DEF OwnProfile, ApisSound
  <2>2. CASE OwnApi(a)
        BY <2>2 DEF OwnApi, ApisSound
  <2>. QED BY <1>3, <2>1, <2>2, ProvideStep
<1>. QED BY <1>1, <1>2, <1>3, Changes

\* An API belongs to a registered provider at a price within the bounds.
THEOREM ApisAreSound == Spec => []ApisSound
<1>1. Init => ApisSound
      BY DEF Init, ApisSound
<1>. QED BY <1>1, SoundKept, TypeCorrect, PTL DEF Spec

\* The four action properties hold of every step.
LEMMA StepsSound ==
    ASSUME TypeOK, ApisSound, [Next]_vars
    PROVE  NoReassignment /\ Authorised /\ Frozen /\ Outlives
<1>. USE DEF NoReassignment, Authorised, Frozen, Outlives
<1>1. CASE UNCHANGED <<config, providers, apis, wasm>>
      BY <1>1
<1>2. ASSUME NEW a \in Address, Govern(a)
      PROVE  NoReassignment /\ Authorised /\ Frozen /\ Outlives
      BY <1>2, GovernStep
<1>3. ASSUME NEW a \in Address, Provide(a)
      PROVE  NoReassignment /\ Authorised /\ Frozen /\ Outlives
  <2>1. UNCHANGED <<config, wasm>> /\ signer' = a /\ config # None /\ ~ config.paused
        BY <1>3, ProvideStep
  <2>2. CASE OwnProfile(a)
        BY <2>1, <2>2 DEF OwnProfile
  <2>3. CASE OwnApi(a)
        BY <2>1, <2>3 DEF OwnApi
  <2>. QED BY <1>3, <2>2, <2>3, ProvideStep
<1>. QED BY <1>1, <1>2, <1>3, Changes

\* No admin, asset, provider, recipient or description is ever replaced.
THEOREM Reassignment == Spec => NothingReassigned
BY StepsSound, TypeCorrect, ApisAreSound, PTL DEF Spec, NothingReassigned

\* Every change is authorised by whom it concerns.
THEOREM Authority == Spec => ChangesAuthorised
BY StepsSound, TypeCorrect, ApisAreSound, PTL DEF Spec, ChangesAuthorised

\* A paused platform changes no provider and no API.
THEOREM Pause == Spec => PauseFreezes
BY StepsSound, TypeCorrect, ApisAreSound, PTL DEF Spec, PauseFreezes

\* Whatever is written lives on for more than Threshold ledgers.
THEOREM Rent == Spec => WritesOutlive
BY StepsSound, TypeCorrect, ApisAreSound, PTL DEF Spec, WritesOutlive
-----------------------------------------------------------------------------
(* The events *)

ReaderFacts == INSTANCE AccumulateProofs WITH Start <- EmptyView, Step <- Apply

\* The registry as its events tell it, and a reader who has followed them.
View == [providers |-> providers, apis |-> apis,
         paused |-> config # None /\ config.paused]

\* A reader who has read all events but the last has one step to do.
LEMMA ReadOne ==
    ASSUME TypeOK, NEW e \in Event, Publish(e)
    PROVE  Reader!After(events') = Apply(Reader!After(events), e)
<1>1. events \in Seq(Event) /\ events' = Append(events, e)
      BY DEF TypeOK, Publish
<1>2. ReaderFacts!After(Append(events, e)) = Apply(ReaderFacts!After(events), e)
      BY <1>1, ReaderFacts!AfterAppend
<1>3. /\ Reader!After(events) = ReaderFacts!After(events)
      /\ Reader!After(events') = ReaderFacts!After(events')
      BY DEF Reader!After, ReaderFacts!After, Reader!Running, ReaderFacts!Running
<1>. QED BY <1>1, <1>2, <1>3

LEMMA NothingPublished ==
    ASSUME EventsTell, UNCHANGED events, View' = View
    PROVE  EventsTell'
BY DEF EventsTell, View

LEMMA ToldOne ==
    ASSUME TypeOK, EventsTell, NEW e \in Event, Publish(e), View' = Apply(View, e)
    PROVE  EventsTell'
BY ReadOne DEF EventsTell, View

LEMMA SetPausedTold ==
    ASSUME TypeOK, EventsTell, NEW a \in Address, NEW paused \in BOOLEAN,
           SetPaused(a, paused)
    PROVE  EventsTell'
<1> DEFINE e == [type |-> IF paused THEN "PlatformPaused" ELSE "PlatformUnpaused",
                 admin |-> a]
<1>1. e \in Event /\ Publish(e)
      BY DEF Event, SetPaused
<1>2. config \in PlatformConfig /\ config' = [config EXCEPT !.paused = paused]
      BY DEF SetPaused, TypeOK
<1>3. config' \in PlatformConfig /\ config'.paused = paused
      BY <1>2 DEF PlatformConfig
<1>4. config' # None
      BY <1>3, RegistryNoneAssumption
<1>5. View' = [View EXCEPT !.paused = paused]
      BY <1>3, <1>4 DEF View, SetPaused
<1>6. Apply(View, e) = [View EXCEPT !.paused = paused]
  <2>1. CASE paused
        BY <2>1 DEF Apply
  <2>2. CASE ~ paused
        BY <2>2 DEF Apply
  <2>. QED BY <2>1, <2>2
<1> HIDE DEF e
<1>. QED BY <1>1, <1>5, <1>6, ToldOne

LEMMA GovernTold ==
    ASSUME TypeOK, EventsTell, NEW a \in Address, Govern(a)
    PROVE  EventsTell'
<1>1. ASSUME NEW asset \in Asset, Initialize(a, asset)
      PROVE  EventsTell'
  <2>1. ~ (config # None /\ config.paused) /\ ~ (config' # None /\ config'.paused)
        BY <1>1 DEF Initialize
  <2>2. View' = View
        BY <1>1, <2>1 DEF Initialize, View
  <2>. QED BY <1>1, <2>2, NothingPublished DEF Initialize
<1>2. ASSUME NEW paused \in BOOLEAN, SetPaused(a, paused)
      PROVE  EventsTell'
      BY <1>2, SetPausedTold
<1>3. ASSUME NEW hash \in Hash, UpgradeContract(a, hash)
      PROVE  EventsTell'
  <2> DEFINE e == [type |-> "ContractUpgraded", admin |-> a, wasm_hash |-> hash]
  <2>1. e \in Event /\ Publish(e)
        BY <1>3 DEF Event, UpgradeContract
  <2>2. Apply(View, e) = View
        BY DEF Apply
  <2>3. View' = View
        BY <1>3 DEF UpgradeContract, entries, View
  <2> HIDE DEF e
  <2>. QED BY <2>1, <2>2, <2>3, ToldOne
<1>. QED BY <1>1, <1>2, <1>3 DEF Govern

LEMMA ProvideTold ==
    ASSUME TypeOK, EventsTell, NEW a \in Address, Provide(a)
    PROVE  EventsTell'
<1>1. ASSUME NEW hash \in Hash, RegisterProvider(a, hash)
      PROVE  EventsTell'
  <2> DEFINE e == [type |-> "ProviderRegistered", provider |-> a,
                   metadata_hash |-> hash]
  <2>1. e \in Event /\ Publish(e)
        BY <1>1 DEF Event, RegisterProvider
  <2>2. View' = Apply(View, e)
        BY <1>1 DEF RegisterProvider, View, Apply
  <2> HIDE DEF e
  <2>. QED BY <2>1, <2>2, ToldOne
<1>2. ASSUME NEW hash \in Hash, UpdateProviderMetadata(a, hash)
      PROVE  EventsTell'
  <2> DEFINE e == [type |-> "ProviderUpdated", provider |-> a,
                   metadata_hash |-> hash]
  <2>1. e \in Event /\ Publish(e)
        BY <1>2 DEF Event, UpdateProviderMetadata
  <2>2. View' = Apply(View, e)
        BY <1>2 DEF UpdateProviderMetadata, View, Apply
  <2> HIDE DEF e
  <2>. QED BY <2>1, <2>2, ToldOne
<1>3. ASSUME NEW i \in ApiId, NEW hash \in Hash, NEW price \in Prices,
             NEW to \in Address, RegisterApi(a, i, hash, price, to)
      PROVE  EventsTell'
  <2> DEFINE e == [type |-> "ApiRegistered", api_id |-> i, provider |-> a,
                   metadata_hash |-> hash, price |-> price, recipient |-> to]
  <2>1. e \in Event /\ Publish(e)
        BY <1>3, RegistryAssumption DEF Event, RegisterApi
  <2>2. View' = Apply(View, e)
        BY <1>3 DEF RegisterApi, View, Apply
  <2> HIDE DEF e
  <2>. QED BY <2>1, <2>2, ToldOne
<1>4. ASSUME NEW i \in ApiId, NEW price \in Prices, UpdateApiPrice(a, i, price)
      PROVE  EventsTell'
  <2> DEFINE e == [type |-> "ApiPriceUpdated", api_id |-> i, price |-> price]
  <2>1. e \in Event /\ Publish(e)
        BY <1>4, RegistryAssumption DEF Event, UpdateApiPrice
  <2>2. View' = Apply(View, e)
        BY <1>4 DEF UpdateApiPrice, View, Apply
  <2> HIDE DEF e
  <2>. QED BY <2>1, <2>2, ToldOne
<1>5. ASSUME NEW i \in ApiId, NEW active \in BOOLEAN, SetApiStatus(a, i, active)
      PROVE  EventsTell'
  <2> DEFINE e == [type |-> "ApiStatusChanged", api_id |-> i, active |-> active]
  <2>1. e \in Event /\ Publish(e)
        BY <1>5 DEF Event, SetApiStatus
  <2>2. View' = Apply(View, e)
        BY <1>5 DEF SetApiStatus, View, Apply
  <2> HIDE DEF e
  <2>. QED BY <2>1, <2>2, ToldOne
<1>. QED BY <1>1, <1>2, <1>3, <1>4, <1>5 DEF Provide

LEMMA TellKept == TypeOK /\ EventsTell /\ [Next]_vars => EventsTell'
<1>. SUFFICES ASSUME TypeOK, EventsTell, [Next]_vars PROVE EventsTell'
     OBVIOUS
<1>1. CASE UNCHANGED <<events, entries>>
      BY <1>1, NothingPublished DEF View, entries
<1>2. ASSUME NEW a \in Address, Govern(a) \/ Provide(a)
      PROVE  EventsTell'
      BY <1>2, GovernTold, ProvideTold
<1>3. \/ UNCHANGED <<events, entries>>
      \/ \E a \in Address : Govern(a) \/ Provide(a)
      BY DEF Next, vars, Read, GetPlatformConfig, GetProvider, GetApi, Close,
             Restore, entries
<1>. QED BY <1>1, <1>2, <1>3

\* The events are a complete record of the registry: replayed from the
\* beginning, however many they are, they give its state.
THEOREM EventsSuffice == Spec => []EventsTell
<1>1. Init => EventsTell
  <2>. SUFFICES ASSUME Init PROVE EventsTell
       OBVIOUS
  <2>1. Reader!After(<<>>) = EmptyView
        BY ReaderFacts!AfterEmpty DEF Reader!After, ReaderFacts!After,
           Reader!Running, ReaderFacts!Running
  <2>2. ~ (config # None /\ config.paused)
        BY DEF Init
  <2>. QED BY <2>1, <2>2 DEF Init, EventsTell, EmptyView
<1>. QED BY <1>1, TellKept, TypeCorrect, PTL DEF Spec
=============================================================================
