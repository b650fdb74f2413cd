------------------------------ MODULE AdminFiles ------------------------------
(***************************************************************************)
(* The files an administrator changes while the product runs: application  *)
(* credentials (product_applications.py) and the configuration and its     *)
(* secrets (product_config.py).                                            *)
(*                                                                         *)
(* A request changes the registry in memory before it saves the whole      *)
(* file; configuring a provider writes the configuration and then the      *)
(* secrets.  Every file is written beside its name, synced and renamed.    *)
(* One request at a time: the registry and the store have no lock.         *)
(***************************************************************************)
EXTENDS Naturals, Sequences

CONSTANTS
    Apps,           \* application identifiers
    Providers,      \* external model providers
    ApiKeys,        \* credentials, Blank among them
    Blank, Unset,
    MaxRequests,    \* requests explored
    MaxFailures     \* I/O errors and kills explored

VARIABLES
    credentials,  \* the registry in memory: application -> token and flag
    disk,       \* "registry", "config", "secrets" -> contents
    request,    \* the request in progress: its writes still to do
    up,         \* is the process running?
    answered,   \* history: tokens, revocations, license answered
    configured, \* history: the last configuration answered, if nothing since
    requests, failures

adminVars == <<credentials, disk, request, up, answered, configured, requests, failures>>

NoApps == [a \in {} |-> Unset]
With(f, k, v) == [x \in DOMAIN f \cup {k} |-> IF x = k THEN v ELSE f[x]]
Quiet == [writes |-> <<>>, kind |-> "none"]

AdminInit ==
    /\ credentials = NoApps
    /\ disk = [registry |-> NoApps,
               config |-> [llm |-> Unset, license |-> Unset],
               secrets |-> NoApps]
    /\ request = Quiet /\ up = TRUE
    /\ answered = [tokens |-> {}, revoked |-> {}, license |-> Unset]
    /\ configured = Unset /\ requests = 0 /\ failures = 0

Accept == up /\ request = Quiet /\ requests < MaxRequests
          /\ requests' = requests + 1

-----------------------------------------------------------------------------
(* ApplicationRegistry.create() and revoke().  A token is new every time:  *)
(* the number of the request stands for it.                                *)

Create(app) ==
    /\ Accept
    /\ app \notin DOMAIN credentials
    /\ credentials' = With(credentials, app, [token |-> requests', enabled |-> TRUE])
    /\ request' = [kind |-> "create", app |-> app,
                   writes |-> <<[registry |-> credentials']>>]
    /\ UNCHANGED <<disk, up, answered, configured, failures>>

Revoke(app) ==
    /\ Accept
    /\ app \in DOMAIN credentials
    /\ credentials' = [credentials EXCEPT ![app].enabled = FALSE]
    /\ request' = [kind |-> "revoke", app |-> app,
                   writes |-> <<[registry |-> credentials']>>]
    /\ UNCHANGED <<disk, up, answered, configured, failures>>

Authenticates(app, token) ==
    app \in DOMAIN credentials /\ credentials[app] = [token |-> token, enabled |-> TRUE]

-----------------------------------------------------------------------------
(* configure_llm(): the blank credential is refused after the first file.  *)

Configure(provider, key) ==
    /\ Accept
    /\ configured' = Unset
    /\ request' = [kind |-> "configure", provider |-> provider, key |-> key,
                   writes |-> <<[config |-> [disk.config EXCEPT !.llm = provider]]>> \o
                     (IF key = Unset THEN <<>>
                      ELSE IF key = Blank THEN <<[raise |-> Unset]>>
                      ELSE <<[secrets |-> With(disk.secrets, provider, key)]>>)]
    /\ UNCHANGED <<credentials, disk, up, answered, failures>>

\* Mutant: the license is written without what the file says of the provider.
LicenseAlone ==
    /\ Accept
    /\ answered' = [answered EXCEPT !.license = Unset]
    /\ request' = [kind |-> "license", license |-> requests',
                   writes |-> <<[config |-> [llm |-> Unset, license |-> requests']]>>]
    /\ UNCHANGED <<credentials, disk, up, configured, failures>>

\* configure_license() keeps what the file says of the provider.
License ==
    /\ Accept
    /\ answered' = [answered EXCEPT !.license = Unset]
    /\ request' = [kind |-> "license", license |-> requests',
                   writes |-> <<[config |-> [disk.config EXCEPT !.license = requests']]>>]
    /\ UNCHANGED <<credentials, disk, up, configured, failures>>

-----------------------------------------------------------------------------
\* A write is the file it replaces and the whole new content.
NextWrite == Head(request.writes)
Written(write) ==
    [name \in DOMAIN disk |-> IF name \in DOMAIN write THEN write[name] ELSE disk[name]]

\* tmp.open, write, fsync and os.replace: the name changes whole or not.
Replace ==
    /\ request.writes # <<>>
    /\ "raise" \notin DOMAIN NextWrite
    /\ disk' = Written(NextWrite)
    /\ request' = [request EXCEPT !.writes = Tail(@)]
    /\ UNCHANGED <<credentials, up, answered, configured, requests, failures>>

AnswerRequest ==
    /\ request # Quiet /\ request.writes = <<>>
    /\ request' = Quiet
    /\ answered' = CASE request.kind = "create" ->
                          [answered EXCEPT !.tokens = @ \cup
                             {<<request.app, credentials[request.app].token>>}]
                     [] request.kind = "revoke" ->
                          [answered EXCEPT !.revoked = @ \cup {request.app}]
                     [] request.kind = "license" ->
                          [answered EXCEPT !.license = request.license]
                     [] OTHER -> answered
    /\ configured' = IF request.kind = "configure"
                       THEN [provider |-> request.provider, key |-> request.key]
                       ELSE configured
    /\ UNCHANGED <<credentials, disk, up, requests, failures>>

\* ValueError for the blank credential: the configuration stays changed.
RaiseBlank ==
    /\ request.writes # <<>>
    /\ "raise" \in DOMAIN NextWrite
    /\ request' = Quiet
    /\ UNCHANGED <<credentials, disk, up, answered, configured, requests, failures>>

Fail == failures < MaxFailures /\ failures' = failures + 1

\* An I/O error: the client sees it, the memory keeps the change.
SaveFails ==
    /\ request.writes # <<>> /\ Fail
    /\ request' = Quiet
    /\ UNCHANGED <<credentials, disk, up, answered, configured, requests>>

Kill ==
    /\ up /\ Fail
    /\ up' = FALSE /\ request' = Quiet /\ credentials' = NoApps
    /\ UNCHANGED <<disk, answered, configured, requests>>

LoadRegistry ==
    /\ ~up
    /\ up' = TRUE /\ credentials' = disk.registry
    /\ UNCHANGED <<disk, request, answered, configured, requests, failures>>

AdminNext ==
    \/ \E app \in Apps : Create(app) \/ Revoke(app)
    \/ \E provider \in Providers, key \in ApiKeys \cup {Unset} :
         Configure(provider, key)
    \/ License
    \/ Replace \/ AnswerRequest \/ RaiseBlank \/ SaveFails \/ Kill \/ LoadRegistry

AdminSpec == AdminInit /\ [][AdminNext]_adminVars

-----------------------------------------------------------------------------
\* A revocation that was answered holds in memory, on disk and after every
\* restart, whatever saves fail later; a credential that was answered and
\* not revoked since authenticates, in every process.
CredentialsSurvive ==
    /\ \A app \in answered.revoked :
         /\ app \in DOMAIN disk.registry /\ ~disk.registry[app].enabled
         /\ up => ~\E token \in 1..MaxRequests : Authenticates(app, token)
    /\ \A pair \in answered.tokens :
         /\ pair[1] \in DOMAIN disk.registry
         /\ disk.registry[pair[1]].token = pair[2]
         /\ up /\ ~Authenticates(pair[1], pair[2]) => ~credentials[pair[1]].enabled

\* A provider or a license that was answered is what a restarted service
\* reads from the two files until somebody asks for another one, and neither
\* request loses what the other one wrote.
ConfigurationSurvives ==
    request = Quiet =>
      /\ answered.license # Unset => disk.config.license = answered.license
      /\ configured # Unset =>
           /\ disk.config.llm = configured.provider
           /\ configured.key # Unset =>
                disk.secrets[configured.provider] = configured.key

\* What an administrator was told is done survives restarts: credentials,
\* revocations, settings and licence.
AdministrationSurvives == CredentialsSurvive /\ ConfigurationSurvives
=============================================================================
