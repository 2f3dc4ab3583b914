------------------------ MODULE MarketplaceRegistry ------------------------
(***************************************************************************)
(* The Soroban contract (contracts/api_marketplace_registry): providers    *)
(* register themselves and priced APIs, an admin can pause the platform.   *)
(* An action is a successful invocation; one that fails is rolled back and *)
(* changes nothing.  Entries live for a number of ledgers; an entry past   *)
(* its life is kept, but cannot be used until somebody restores it.        *)
(***************************************************************************)
EXTENDS Integers, Sequences

CONSTANTS Address, ApiId, Hash, Asset,
          MaxPrice,       \* MAX_PRICE
          Prices,         \* the prices callers try
          Threshold,      \* TTL_THRESHOLD
          ExtendTo,       \* TTL_EXTEND_TO
          MinLife,        \* the network's lifetime of a new entry
          MaxLedger,      \* bound on the ledger number
          MaxEvents,      \* bound on the number of events
          Original,       \* the hash of this contract's code
          None

ASSUME RegistryAssumption == /\ Prices \subseteq Int
                             /\ MaxPrice \in Nat /\ MaxLedger \in Nat
                             /\ Threshold \in Nat /\ ExtendTo \in Nat
                             /\ Threshold < ExtendTo
                             /\ MinLife \in Nat \ {0}
                             /\ MaxEvents \in Nat

PlatformConfig == [admin : Address, accepted_asset : Asset, paused : BOOLEAN]
ProviderProfile == [owner : Address, metadata_hash : Hash, active : BOOLEAN]
ApiProduct == [provider : Address, metadata_hash : Hash, price : Int,
               recipient : Address, active : BOOLEAN]

\* What the contract publishes.
Event ==
    [type : {"PlatformPaused", "PlatformUnpaused"}, admin : Address]
    \union [type : {"ContractUpgraded"}, admin : Address, wasm_hash : Hash]
    \union [type : {"ProviderRegistered", "ProviderUpdated"},
            provider : Address, metadata_hash : Hash]
    \union [type : {"ApiRegistered"}, api_id : ApiId, provider : Address,
            metadata_hash : Hash, price : Int, recipient : Address]
    \union [type : {"ApiPriceUpdated"}, api_id : ApiId, price : Int]
    \union [type : {"ApiStatusChanged"}, api_id : ApiId, active : BOOLEAN]

ASSUME RegistryNoneAssumption ==
    None \notin PlatformConfig \union ProviderProfile \union ApiProduct

\* The instance holds the configuration, and the contract itself.
Instance == <<"instance">>
Provider(a) == <<"provider", a>>
Api(i) == <<"api", i>>
DataKey == {Instance} \union {Provider(a) : a \in Address}
                      \union {Api(i) : i \in ApiId}

VARIABLES ledger,         \* the current ledger
          wasm,           \* the hash of the code that runs
          config,         \* the platform configuration, or None
          providers,      \* providers[a]: a profile, or None
          apis,           \* apis[i]: a product, or None
          until,          \* until[k]: the last ledger entry k can be used in
          events,         \* the events published
          signer          \* who authorised the last invocation

entries == <<config, providers, apis>>
vars == <<ledger, wasm, config, providers, apis, until, events, signer>>

Live(k) == until[k] >= ledger

\* A new entry gets the network's lifetime; extend_ttl prolongs a life that
\* has no more than Threshold ledgers left.
Create(k) == [until EXCEPT ![k] = ledger + MinLife - 1]
Extend(lives, keys) ==
    [k \in DataKey |-> IF k \in keys /\ lives[k] - ledger <= Threshold
                       THEN ledger + ExtendTo ELSE lives[k]]

Publish(event) == /\ Len(events) < MaxEvents
                  /\ events' = Append(events, event)

\* An invocation runs this code and finds the instance.
Invoke(by) == /\ wasm = Original
              /\ Live(Instance)
              /\ signer' = by
              /\ UNCHANGED ledger

\* A slip of require_running: the flag is not looked at.
require_initialized == config # None
require_running == config # None /\ ~ config.paused

\* A slip of validate_price: zero is a price.
validate_nonnegative(price) == 0 <= price /\ price <= MaxPrice
validate_price(price) == 0 < price /\ price <= MaxPrice
read_provider(a) == providers[a] # None /\ Live(Provider(a))
read_api(i) == apis[i] # None /\ Live(Api(i))
-----------------------------------------------------------------------------
(* Platform *)

\* A slip of Initialize: the arguments are swapped.
InitializeSwapped(admin, asset) ==
    /\ Invoke(admin)
    /\ config = None
    /\ config' = [admin |-> asset, accepted_asset |-> admin, paused |-> FALSE]
    /\ until' = Extend(until, {Instance})
    /\ UNCHANGED <<wasm, providers, apis, events>>

Initialize(admin, asset) ==
    /\ Invoke(admin)
    /\ config = None
    /\ config' = [admin |-> admin, accepted_asset |-> asset, paused |-> FALSE]
    /\ until' = Extend(until, {Instance})
    /\ UNCHANGED <<wasm, providers, apis, events>>

\* pause_platform and unpause_platform.
SetPaused(admin, paused) ==
    /\ Invoke(admin)
    /\ config # None /\ config.admin = admin
    /\ config' = [config EXCEPT !.paused = paused]
    /\ until' = Extend(until, {Instance})
    /\ Publish([type |-> IF paused THEN "PlatformPaused" ELSE "PlatformUnpaused",
                admin |-> admin])
    /\ UNCHANGED <<wasm, providers, apis>>

\* From the next invocation on, other code runs.
UpgradeContract(admin, hash) ==
    /\ Invoke(admin)
    /\ config # None /\ config.admin = admin
    /\ wasm' = hash
    /\ Publish([type |-> "ContractUpgraded", admin |-> admin, wasm_hash |-> hash])
    /\ UNCHANGED <<entries, until>>

GetPlatformConfig(by) == /\ Invoke(by)
                         /\ config # None
                         /\ until' = Extend(until, {Instance})
                         /\ UNCHANGED <<wasm, entries, events>>
-----------------------------------------------------------------------------
(* Providers *)

RegisterProvider(a, hash) ==
    /\ Invoke(a)
    /\ require_running
    /\ providers[a] = None
    /\ providers' = [providers EXCEPT ![a] =
                       [owner |-> a, metadata_hash |-> hash, active |-> TRUE]]
    /\ until' = Extend(Create(Provider(a)), {Provider(a)})
    /\ Publish([type |-> "ProviderRegistered", provider |-> a,
                metadata_hash |-> hash])
    /\ UNCHANGED <<wasm, config, apis>>

\* A slip of UpdateProviderMetadata: the entry's life is not extended.
UpdateWithoutExtension(a, hash) ==
    /\ Invoke(a)
    /\ require_running
    /\ read_provider(a)
    /\ providers' = [providers EXCEPT ![a].metadata_hash = hash]
    /\ Publish([type |-> "ProviderUpdated", provider |-> a,
                metadata_hash |-> hash])
    /\ UNCHANGED <<wasm, config, apis, until>>

UpdateProviderMetadata(a, hash) ==
    /\ Invoke(a)
    /\ require_running
    /\ read_provider(a)
    /\ providers' = [providers EXCEPT ![a].metadata_hash = hash]
    /\ until' = Extend(until, {Provider(a)})
    /\ Publish([type |-> "ProviderUpdated", provider |-> a,
                metadata_hash |-> hash])
    /\ UNCHANGED <<wasm, config, apis>>

\* get_provider and provider.
GetProvider(by, a) == /\ Invoke(by)
                      /\ read_provider(a)
                      /\ until' = Extend(until, {Provider(a)})
                      /\ UNCHANGED <<wasm, entries, events>>
-----------------------------------------------------------------------------
(* APIs *)

\* A slip of RegisterApi: an entry that is there is overwritten.
RegisterApiAgain(a, i, hash, price, recipient) ==
    /\ Invoke(a)
    /\ require_running
    /\ validate_price(price)
    /\ read_provider(a)
    /\ apis' = [apis EXCEPT ![i] =
                  [provider |-> a, metadata_hash |-> hash, price |-> price,
                   recipient |-> recipient, active |-> TRUE]]
    /\ until' = Extend(Create(Api(i)), {Provider(a), Api(i)})
    /\ Publish([type |-> "ApiRegistered", api_id |-> i, provider |-> a,
                metadata_hash |-> hash, price |-> price, recipient |-> recipient])
    /\ UNCHANGED <<wasm, config, providers>>

\* An archived API is there for has, or the invocation fails.
RegisterApi(a, i, hash, price, recipient) ==
    /\ Invoke(a)
    /\ require_running
    /\ validate_price(price)
    /\ read_provider(a)
    /\ apis[i] = None
    /\ apis' = [apis EXCEPT ![i] =
                  [provider |-> a, metadata_hash |-> hash, price |-> price,
                   recipient |-> recipient, active |-> TRUE]]
    /\ until' = Extend(Create(Api(i)), {Provider(a), Api(i)})
    /\ Publish([type |-> "ApiRegistered", api_id |-> i, provider |-> a,
                metadata_hash |-> hash, price |-> price, recipient |-> recipient])
    /\ UNCHANGED <<wasm, config, providers>>

UpdateApiPrice(a, i, price) ==
    /\ Invoke(a)
    /\ require_running
    /\ validate_price(price)
    /\ read_api(i) /\ apis[i].provider = a
    /\ apis' = [apis EXCEPT ![i].price = price]
    /\ until' = Extend(until, {Api(i)})
    /\ Publish([type |-> "ApiPriceUpdated", api_id |-> i, price |-> price])
    /\ UNCHANGED <<wasm, config, providers>>

\* A slip of SetApiStatus: any registered provider may call it.
SetAnyApiStatus(a, i, active) ==
    /\ Invoke(a)
    /\ require_running
    /\ read_api(i) /\ read_provider(a)
    /\ apis' = [apis EXCEPT ![i].active = active]
    /\ until' = Extend(until, {Api(i)})
    /\ Publish([type |-> "ApiStatusChanged", api_id |-> i, active |-> active])
    /\ UNCHANGED <<wasm, config, providers>>

\* A slip of SetApiStatus: the event says what the status was.
SetStatusPublishingOld(a, i, active) ==
    /\ Invoke(a)
    /\ require_running
    /\ read_api(i) /\ apis[i].provider = a
    /\ apis' = [apis EXCEPT ![i].active = active]
    /\ until' = Extend(until, {Api(i)})
    /\ Publish([type |-> "ApiStatusChanged", api_id |-> i,
                active |-> apis[i].active])
    /\ UNCHANGED <<wasm, config, providers>>

\* set_api_status and set_api_active.
SetApiStatus(a, i, active) ==
    /\ Invoke(a)
    /\ require_running
    /\ read_api(i) /\ apis[i].provider = a
    /\ apis' = [apis EXCEPT ![i].active = active]
    /\ until' = Extend(until, {Api(i)})
    /\ Publish([type |-> "ApiStatusChanged", api_id |-> i, active |-> active])
    /\ UNCHANGED <<wasm, config, providers>>

\* get_api and api.
GetApi(by, i) == /\ Invoke(by)
                 /\ read_api(i)
                 /\ until' = Extend(until, {Api(i)})
                 /\ UNCHANGED <<wasm, entries, events>>
-----------------------------------------------------------------------------
(* The network *)

Close == /\ ledger < MaxLedger
         /\ ledger' = ledger + 1
         /\ UNCHANGED <<wasm, entries, until, events, signer>>

Exists(k) == \/ k = Instance
             \/ \E a \in Address : k = Provider(a) /\ providers[a] # None
             \/ \E i \in ApiId : k = Api(i) /\ apis[i] # None

Restore(k) == /\ Exists(k) /\ ~ Live(k)
              /\ until' = Create(k)
              /\ UNCHANGED <<ledger, wasm, entries, events, signer>>

Init == /\ ledger = 0
        /\ wasm = Original
        /\ config = None
        /\ providers = [a \in Address |-> None]
        /\ apis = [i \in ApiId |-> None]
        /\ until = [k \in DataKey |-> IF k = Instance THEN MinLife - 1 ELSE 0]
        /\ events = <<>>
        /\ signer = None

Govern(a) ==
    \/ \E asset \in Asset : Initialize(a, asset)
    \/ \E paused \in BOOLEAN : SetPaused(a, paused)
    \/ \E hash \in Hash : UpgradeContract(a, hash)

Provide(a) ==
    \/ \E hash \in Hash : RegisterProvider(a, hash) \/ UpdateProviderMetadata(a, hash)
    \/ \E i \in ApiId, price \in Prices :
          \/ \E hash \in Hash, to \in Address : RegisterApi(a, i, hash, price, to)
          \/ UpdateApiPrice(a, i, price)
    \/ \E i \in ApiId, active \in BOOLEAN : SetApiStatus(a, i, active)

Read(a) == \/ GetPlatformConfig(a)
           \/ \E p \in Address : GetProvider(a, p)
           \/ \E i \in ApiId : GetApi(a, i)

Next == \/ \E a \in Address : Govern(a) \/ Provide(a) \/ Read(a)
        \/ Close
        \/ \E k \in DataKey : Restore(k)

Spec == Init /\ [][Next]_vars
-----------------------------------------------------------------------------
(* Properties *)

\* Every variable has its type.
TypeOK == /\ ledger \in Nat
          /\ wasm \in Hash \union {Original}
          /\ config \in PlatformConfig \union {None}
          /\ providers \in [Address -> ProviderProfile \union {None}]
          /\ apis \in [ApiId -> ApiProduct \union {None}]
          /\ until \in [DataKey -> Int]
          /\ events \in Seq(Event)
          /\ signer \in Address \union {None}

\* An API belongs to a registered provider, at a price within the bounds,
\* whatever was registered, repriced, archived and restored before.
ApisSound ==
    \A i \in ApiId : apis[i] # None =>
       /\ providers[apis[i].provider] # None
       /\ 0 < apis[i].price /\ apis[i].price <= MaxPrice

\* The admin and the asset of the platform, and the provider, recipient and
\* description of an API, never change and are never forgotten, although
\* their entries may be archived and anybody may try to register them again.
NoReassignment ==
    /\ config # None => /\ config' # None
                        /\ config'.admin = config.admin
                        /\ config'.accepted_asset = config.accepted_asset
    /\ \A a \in Address : providers[a] # None => providers'[a] # None
    /\ \A i \in ApiId : apis[i] # None =>
          /\ apis'[i] # None
          /\ apis'[i].provider = apis[i].provider
          /\ apis'[i].recipient = apis[i].recipient
          /\ apis'[i].metadata_hash = apis[i].metadata_hash
NothingReassigned == [][NoReassignment]_vars

\* Every change is authorised by whom it concerns: the provider for itself
\* and its APIs, the admin for the platform and its code.
Authorised == /\ \A a \in Address : providers'[a] # providers[a] => signer' = a
              /\ \A i \in ApiId : apis'[i] # apis[i] => signer' = apis'[i].provider
              /\ config' # config => signer' = config'.admin
              /\ wasm' # wasm => signer' = config.admin
ChangesAuthorised == [][Authorised]_vars

\* While the platform is paused no provider and no API changes.
Frozen == config # None /\ config.paused => UNCHANGED <<providers, apis>>
PauseFreezes == [][Frozen]_vars

\* What an invocation writes can be used for more than Threshold ledgers.
Outlives == /\ config' # config => until'[Instance] > ledger + Threshold
            /\ \A a \in Address : providers'[a] # providers[a] =>
                  until'[Provider(a)] > ledger + Threshold
            /\ \A i \in ApiId : apis'[i] # apis[i] =>
                  until'[Api(i)] > ledger + Threshold
WritesOutlive == [][Outlives]_vars

\* What a reader of the events alone takes the registry to be: before any
\* event, after one more, and after all of them.
EmptyView == [providers |-> [a \in Address |-> None],
              apis |-> [i \in ApiId |-> None],
              paused |-> FALSE]

Apply(view, e) ==
    CASE e.type = "ProviderRegistered" ->
           [view EXCEPT !.providers[e.provider] =
              [owner |-> e.provider, metadata_hash |-> e.metadata_hash,
               active |-> TRUE]]
      [] e.type = "ProviderUpdated" ->
           [view EXCEPT !.providers[e.provider].metadata_hash = e.metadata_hash]
      [] e.type = "ApiRegistered" ->
           [view EXCEPT !.apis[e.api_id] =
              [provider |-> e.provider, metadata_hash |-> e.metadata_hash,
               price |-> e.price, recipient |-> e.recipient, active |-> TRUE]]
      [] e.type = "ApiPriceUpdated" -> [view EXCEPT !.apis[e.api_id].price = e.price]
      [] e.type = "ApiStatusChanged" -> [view EXCEPT !.apis[e.api_id].active = e.active]
      [] e.type = "PlatformPaused" -> [view EXCEPT !.paused = TRUE]
      [] e.type = "PlatformUnpaused" -> [view EXCEPT !.paused = FALSE]
      [] OTHER -> view

Reader == INSTANCE Accumulate WITH Start <- EmptyView, Step <- Apply

\* The events are a complete record: replayed from the beginning they give
\* the registry's providers, APIs and pause.
EventsTell == Reader!After(events) =
                  [providers |-> providers,
                   apis |-> apis,
                   paused |-> config # None /\ config.paused]
=============================================================================
