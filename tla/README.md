# stormio: a TLA+ verification project

stormio provisions virtual servers ("assets") in OpenStack on behalf of a
calling platform ("Vertex"): a caller posts an asset request, stormio stores it
in MongoDB, builds a server with an address and a registered agent, tells the
caller, and later deletes the server on request.  The repository also carries
the goose library, the OpenStack client stormio is built on.

This directory holds the TLA+ modules, the TLC configurations, the proofs and
`PROJECT.json`, which maps every definition to the lines it models.  Source
paths below are relative to `src/` of the Go workspace (`scheduler.go` is
`src/stormstack.org/stormio/scheduler/scheduler.go`, and so on).

## The system

| component | code | state | operations | talks to |
|---|---|---|---|---|
| asset requests | `controllers/assets.go` | none of its own | createAsset, retrieveAsset, destroyAsset | writes the collection, sends into the channels CRequest and DelNotification |
| provisioner | `scheduler/scheduler.go` | four channels of 50, the goroutines and the request objects they hold by pointer | worker (createServer, updateAndNotify), deactivation (terminateInstance, notifyDeActivation, notifyDettachAsset), RescheduleOldRequests | collection, server provisioning, the caller over HTTP, storm agents |
| persistence | `persistence/mongoaccess.go` | the collection Assets | Create, Update (an upsert of the whole object), Find, FindAll, Remove | MongoDB |
| server provisioning | `provision/serverprovision.go` | flavour, image and address services of one provider | ProvisionInstance, DeprovisionInstance, GetServer | nova, neutron, storm agents |
| floating IPs | `provision/serverprovision.go` | addresses tracked in memory | Attach, Retain, Dettach, Track, CheckAvailability | nova or neutron |
| provider cache | `cache/cache.go` | map of providers under one mutex | GetProvider | server provisioning |
| provider networks | `provision/network.go`, `keystone.go` | none | CreateProviderNetwork (called by nobody), ValidateAssetProvider | neutron, keystone |
| storm agents | `stormstack/stormstack.go` | none; tracker and domain keep the agents | register and deregister an agent, join and leave a domain | storm tracker and storm light over HTTP |
| status handlers | `controllers/controller.go` | none | resourceStatus, provider calls | collection, provisioner |
| configuration | `conf/*.go` | sections of options | add, remove, read, write, look up | files |
| authenticating client | `goose/client/client.go`, `goose/sync/timeout.go` | token, tenant and service URLs under a mutex | Authenticate, SetRequiredServiceTypes, MakeServiceURL, sendAuthRequest | identity service, HTTP client |
| HTTP client | `goose/http/client.go` | none | requests, retries after a rate limit, errors by status | any service |
| nova client | `goose/nova/nova.go` | none | one method per request of the compute API | authenticating client, HTTP client |
| error causes | `goose/errors/errors.go` | an error and its cause | New..., Is..., Cause | everyone |
| service doubles | `goose/testservices/**` | servers, groups, rules, addresses, hooks | one handler per kind of resource | the clients under test |

### What is hard about it

* **Snapshots.**  Every goroutine works on its own copy of a record and writes
  the whole copy back.  A deletion, a worker and the rescheduler may hold the
  same asset at the same time; the last write wins, and an upsert revives a
  record that was removed.
* **Partial failure.**  Provisioning is a sequence of remote calls.  A failure
  after the server exists must delete the server; the cleanup is itself a call
  that can fail, one error code is missing from the switch that decides on the
  cleanup, and several errors are dropped.
* **Unreliable answers.**  A call can take effect and still report an error:
  RunServer, DeleteServer, the notifications, the database writes.
* **Restart.**  Channel and goroutines die with the process; only two statuses
  are picked up again.
* **Liveness.**  Bounded channel, rate-limited consumer, one rescheduler
  goroutine which both blocks on the channel and is never restarted.

### What makes each component correct

* *asset requests, provisioner, persistence:* no goroutine acts on another
  asset's server; no server runs that nothing refers to; a record that says
  SERVER_CREATED describes a running, announced server; a request never gets
  stuck in NEW or BUILD; a deleted record stays deleted; a server in service is
  only deleted by a deletion; deletions, retries and refused requests finish.
* *floating IPs:* an address is attached to at most one server, an address
  allocated for a failed attempt is not lost, an address that was there before
  is not released.
* *server provisioning, storm agents:* what ProvisionInstance does call by call is what the
  engine takes it to do; the agent of an asset in service is registered for its server, that
  of a deleted asset is gone.
* *provider cache:* a provider is used for the tenant and region it was made for; nobody
  waits for ever on the lock.
* *configuration:* what is written is read back; the lookups agree with each other.
* *authenticating client:* a token comes with the URLs of its catalogue; nobody
  is left holding the mutex; a timed-out attempt does no harm later.
* *nova client, HTTP client, error causes:* a request is carried out at most once, and its
  error tells whether it was.
* *service doubles:* the maps of the compute double agree with each other, and nothing of a
  deleted server passes to a new one.

`PROJECT.json` lists the hazards, each at its line, with the properties aimed at
it.

## Modules

| module | contents |
|---|---|
| `Scheduler` | the provisioning engine: handlers, channel, workers, deactivation, rescheduler, over the collection, OpenStack and the caller |
| `SchedulerProperties` | what it promises: invariants, action properties, liveness |
| `SchedulerInvariant` | the inductive invariant behind those promises |
| `AssetContract` | the engine as the owner of an asset sees it, as an abstract specification: one server of its own, handed over once, kept until the asset is deleted, gone with it |
| `SchedulerContract` | how far an asset is by the engine's state, and with it that `Scheduler` implements `AssetContract` |
| `SchedulerProofs` | types and ownership; what each step does to record, cloud and caller; the parts of the invariant about single records and single servers, proved for every value of the constants |
| `SchedulerSafetyProofs` | the parts about single assets, the safety properties, and the refinement of `AssetContract`, proved |
| `MCScheduler` | fault sets and symmetry for TLC |
| `Provisioning` | ProvisionInstance call by call with Neutron and the storm agents, a refinement of `Scheduler`, with its properties |
| `ProvisioningInvariant` | how the agent of an asset goes along with it: the inductive invariant behind the agents' properties |
| `ProvisioningProofs` | its refinement of `Scheduler`, what the detailed module thereby inherits from the engine, and the agents' properties, proved |
| `MCProvisioning` | fault sets and symmetry for TLC |
| `NovaFloatingIP` | how several workers get, keep and give back floating IPs on one account of a cloud without Neutron, with its properties |
| `NovaFloatingIPProofs` | types, who may lose an address to whom and why Attach fails, proved for any number of workers |
| `MCNovaFloatingIP` | symmetry for TLC |
| `AuthClient` | goose's authenticating client shared by several goroutines: token, mutex, logins that outlive their timeout, the retry after a 401 or 403 |
| `AuthClientProperties` | what it promises the callers that share it |
| `AuthClientProofs` | exclusive logins, tokens with URLs, explained failures, proved for any number of callers |
| `MCAuthClient` | fault sets and symmetry for TLC |
| `ServiceURLs` | which service URLs a login chooses, when it fails, which regions it suggests, with its properties |
| `ServiceURLsProofs` | the same properties for every catalogue |
| `MCServiceURLs` | the regions of the instance |
| `NovaService` | the compute double: its maps, one relation per handler between state, request, hook and answer |
| `NovaClient` | callers of the nova client: one request per method, attempts, statuses and chains of errors, against `NovaService`, with the properties of both |
| `NovaClientProofs` | what callers may conclude, and how the double's maps stay together, proved |
| `MCNovaClient` | the requests and the constraint of the instance |
| `ConfFile` | configurations in memory and as files, with its properties |
| `ConfFileProofs` | what survives a file, and how the lookups agree, proved for every set of names, values and files |
| `MCConfFile` | the values and files of the instance |

The modules meet at outcomes: `Scheduler` takes ProvisionInstance by its results and
`NovaFloatingIP` opens up the part of it that deals with addresses; `AuthClient` takes
createServiceURLs by its results (URLs, none, an error) and `ServiceURLs` computes them.
`Provisioning` extends `Scheduler`: it shares its variables and actions, opens up the steps
`Configure`, `ConfigureFails` and `DetailFails`, and puts the goroutines of the agents beside
them.  `NovaClient` extends `NovaService`: the client's requests are handled by the double.

### Scheduler: state and actions

| variable | code |
|---|---|
| `db` | the Mongo collection Assets, reduced to the fields the engine changes (status, serverId, ipAddress) |
| `task` | the request objects in memory, each with the program counter of the goroutine that holds it: a handler, a worker, a deactivation, or an element of the rescheduler's list |
| `cReq` | `prov.CRequest` |
| `resched` | whether the goroutine of RescheduleOldRequests still runs |
| `cloud` | servers existing in OpenStack (external) |
| `vertex` | the instance the caller believes is attached (external) |
| `issued`, `owner`, `scars` | history: ids handed out, the asset a server was made for, the mishaps an asset met |

`DelNotification` is not a variable: its consumer never blocks, it only starts
goroutines, so `DestroyAsset` starts them directly.  Two of its four goroutines
concern storm agents, which `Provisioning` adds.  `notifyDeActivation` and
`notifyDettachAsset` share the request object; they are the two halves of one
task (`pc` and `detach`) and interleave freely.

| action | code |
|---|---|
| `CreateAsset`, `CreateAssetFails` | `createAsset` up to the insert (assets.go); the second is an insert whose reply is lost |
| `SendRequest` | `prov.CRequest <- ar`, by a handler or by the rescheduler |
| `DestroyAsset` | `destroyAsset` and the DelNotification consumer |
| `Dispatch` | the consumer of CRequest |
| `Start`, `StartFails` | the head of `createServer`: provider, status BUILD, first Update |
| `RunServer`, `RunServerFails`, `Configure`, `ConfigureFails`, `DetailFails`, `Cleanup` | one attempt of the loop: `ProvisionInstance` by its outcomes, and the switch over the error codes |
| `Finish` | the final status and Update of `createServer`, and the test of the address |
| `Notify`, `Record` | `updateAndNotify` |
| `LookUp`, `ListFails`, `LookUpFails`, `Kill`, `KillFails` | `terminateInstance` |
| `Remove` | the rest of `notifyDeActivation` |
| `Detach` | `notifyDettachAsset` |
| `Scan`, `Take`, `RescheduleDies` | `RescheduleOldRequests` |
| `Crash` | the end of the process and its restart |

An action is one atomic step of a goroutine: it contains at most one remote call
or one database operation, and the local assignments around it.  Anything may
happen between two of them.

**Faults.**  The constant `Faults` selects what the environment may do: no
provider (`provider`), a refused or unanswered RunServer (`run`, `reply`), no
address or agent (`associate`), no details of the server (`detail`), a failing
DeleteServer (`delete`) or ListServers (`list`), a lost notification (`notify`), a
caller that answers 404 (`gone`), a lost write (`write`), no database for the
rescheduler (`dbdown`), and a crash.  Each mishap that can do damage is recorded
in `scars`.  The properties name the scars that excuse them, and only those: a
property thereby also says that no *other* fault and no interleaving breaks it.
Every excuse was tried: with the excuse removed TLC finds a counterexample, with
the exception of `overlap` in `RetryIsClean`, which needs more tasks than the
instances have.

**Abstractions.**  Time is left out: a timer may fire at any moment.  The
throttle only delays.  An address is named after its server; how it is found,
allocated and released belongs to `NovaFloatingIP` and `Provisioning`.  The
payload of a request, its validation and the credentials are not modelled; an
invalid or refused request is rejected before it changes anything.  Three fields that
createAsset would take over from the request's JSON are assumed absent from new requests:
`remediation`, an address and a `serverId` (assets.go:47 does not clear it).

### Provisioning: state and actions

| variable | code |
|---|---|
| `work` | the next call of the ProvisionInstance a worker is in |
| `tracked` | the assets whose request names a storm tracker; the others skip the agent |
| `tracker`, `domain` | the server each agent is registered for; the agents in the default domain (external) |
| `calls` | the goroutines of the agent services that have not ended: `leave` and `deregister` of a deletion, `late` of a failed DomainAddAgent |
| `mishap` | history: what befell an asset's agent |

| action | code |
|---|---|
| `CreateInstance` | RunServer |
| `Started` | the end of the poll of `waitServerToStart`, which swallows every error; it may never come |
| `Attached`, `NotAllocated`, `AttachFails` | `Attach` of either floating-IP service, its two rounds |
| `Shown`, `ShowFails` | GetServer for the details |
| `Register`, `RegisterFails`, `Join`, `JoinFails` | `RegisterStormAgent` with its call of `DomainAddAgent` |
| `Deregister`, `DeregisterFails`, `Leave`, `LeaveFails` | `DeRegisterStormAgent` and `DomainDeleteAgent`, each in a goroutine of its own |
| `Delete`, `Unrecord`, `Restart` | `DestroyAsset`, `Remove` and `Crash` of the engine, with what they mean for agents |
| `Elsewhere` | the other actions of the engine, as they are |

A call of a peer in `PeerFaults` may fail; one that changes something may have taken effect
all the same.  Asset and agent are the same identifier: createAsset takes only requests that
name their agent, and a retry names the same one.  The two floating-IP services differ in what
they call and not in what the attempt sees: an address on the server, a second round, or
ErrorAssociateIP.  Who loses an address to whom on Nova is the subject of `NovaFloatingIP`.
Neutron's CheckAvailability returns 0 always (serverprovision.go:434-436), so createAsset
refuses every new request on such a cloud; only requests that the rescheduler takes up again
get as far as `Attach` there.

*Refinement.*  `RefinesEngine` is `Engine!Spec`, where `Engine` is `Scheduler` with the same
variables and the faults `associate` and `detail` added: a refused address or agent is the
engine's ConfigureFails, an unreadable server its DetailFails, the last successful call its
Configure, and every other call a step that changes nothing the engine knows.

### NovaFloatingIP: state and actions

| variable | code |
|---|---|
| `addr`, `on` | nova's floating IPs of the account: `FloatingIP.IP` and `FloatingIP.InstanceId` per identifier (external) |
| `tracked` | `RemediationList.remediationList`, shared by all workers of a provider |
| `old` | `ar.IpAddress` of the requests that have `Remediation` set; the others never read it |
| `worker` | every goroutine's place in ProvisionInstance, Attach, Retain or DeprovisionInstance, with the loop counter, what is left of a list, the floating IP in hand and the address to be returned |
| `met` | history: what stood in the way of a worker's Attach |

| action | code |
|---|---|
| `Built` | ProvisionInstance up to the branch on `asset.Remediation` |
| `Allocate`, `ListFree`, `Find`, `Release`, `Add`, `Undo` | `Attach`: one action per call of nova, and one for each address looked up in the list of remediation |
| `Look`, `ReAdd`, `Forget` | `Retain` up to its call of Attach |
| `Provisioned`, `NotProvisioned` | the rest of ProvisionInstance |
| `Deprovision` | `terminateInstance`, which calls DeprovisionInstance up to three times |
| `Dettach`, `Drop`, `Track`, `DeleteServer` | `DeprovisionInstance`, with `Dettach` (its list and its deletion are two calls) and `Track` |

`Remediation` comes with the request's JSON; nothing else in the repository sets it.
SetIPV4Address is left out: its error is dropped and no property is about the access
address.  nova's side is modelled by what stormio relies on: a quota, addresses that are
unique while they are allocated, AddServerFloatingIP that goes by the address and moves it,
DeleteFloatingIP and DeleteServer that detach it.  With `Faults` every call may fail without
effect, and an allocation may take effect while its reply is lost.  A lookup in the list of
remediation is one step (the map is read without its lock; what a torn read would do is the
end of the process, not a wrong answer).

### AuthClient: state and actions

| variable | code |
|---|---|
| `required` | whether `c.requiredServiceTypes` names any service type; fixed before the first request |
| `token`, `urls`, `expires` | `c.tokenId`; whether `c.serviceURLs` is filled; `c.expires` seen from now |
| `mu` | the login goroutine that holds `c.mu` during its call; critical sections without a call are one step that needs `mu` free |
| `caller` | the goroutines in SendRequest: place, try, token sent, outcome |
| `login` | the goroutines started by RunWithTimeout, and whether anybody still waits for each |
| `valid`, `issued` | tokens the services accept, tokens ever handed out (external) |
| `trouble` | history: what happened to a caller during its try |

| action | code |
|---|---|
| `Begin`, `Check`, `MakeURL`, `ReadToken`, `Send`, `Clear` | `SendRequest` and `sendAuthRequest`: each look at the shared client is a step of its own, as each takes the mutex anew.  `Send` is answered 401 for a token that is no longer valid, and may be answered 403 for one that is: handleError makes Unauthorised of both (http/client.go:327), and `Clear` follows |
| `LoginReturns`, `LoginTimesOut` | the two arms of the select in `RunWithTimeout` |
| `Lock`, `LoggedIn`, `LoginFails` | `doAuthenticate`, before and after the call of the identity service |
| `Revoke`, `Lapse` | a token is revoked, time passes (external) |

`c.expires` is read without the mutex: a reader may see an old value, which the model allows
at any time.

### ServiceURLs: state and actions

`catalogue` is the map region -> services of a login's answer, `region` the user's region,
`required`, `urls` the client's fields, `defaults` the package variable shared by all clients,
`outcome` and `suggested` the result of the last `createServiceURLs`.  The actions are
`NewClient`, `SetRequiredServiceTypes` and `createServiceURLs`.  The last is a loop over a map, which
Go walks in any order: `Begin` sets out, `Walk` is one round of the loop, for any region not
yet visited (`ahead`), `Conclude` the verdict over what was collected (`merged`).  Where two
matching regions offer a service, the later URL wins.  A region name is a sequence of labels, so
that "ends with" is a test of suffixes; what matters of a URL is the region it stems from.
`possibleRegions` and its helpers are operators with the names they have in the code.

### NovaService and NovaClient: state and actions

The variables of `NovaService` are the maps of the double (`servers`, `groups`, `rules`,
`serverGroups`, `floatingIPs`, `serverIPs`) and its four counters (`next`).  A server is its
id, a group its name and its copies of rules, a rule its parent group and what it matches, an
address the server it points at.  Each handler is a relation with the answer as a parameter,
and returns early where the code does: a failed lookup, a duplicate, a hook.  A hook
(`Fault`) makes one method of the double fail while a request is handled, as the tests make
them fail through RegisterControlPoint; ServeHTTP turns its error into an answer (`ErrAnswer`).  Handlers change
what they change even when they fail afterwards: counters that have moved stay, a server
whose groups cannot be added stays, a group or rule whose final lookup fails stays.

`call` is what each caller of the client is doing: the request it sent, how often, how often
it changed the double, and the chain of errors it ended with.

| action | code |
|---|---|
| `Begin` | a method of the nova client builds its request, JsonRequest sends it |
| `Serve` | the request arrives and is answered: `sendRateLimitedRequest` retries on a 413 with Retry-After, `sendRequest` compares the status, `handleError` and the method make an error of it |
| `LoseRequest`, `LoseAnswer` | the connection fails before or after the request is handled (external) |
| `Return` | the caller is given its result |

Every attempt is given the same reader (client.go:259): `BodyRead` says that a request with a
body has none when it is sent again, and the double refuses it (`HandleEmpty`).
`GetServerSecurityGroups` asks for the server when its groups are not found (`Fallback`), and
`SecurityGroupByName` looks into the list it is given (`Accepted`).  An error is the sequence
of the codes along its chain; `Code` and `CausedBy` look through it as the errors package
does.  The authenticating client between the two is left out: a 401 or 403 and its retry belong to
`AuthClient`.  Flavors are fixed and only read; filters of the lists only select what is shown.

### ConfFile: state and actions

`data` is `ConfigFile.data`, section to option to value, `origin` whether it was built by
calls or is as it was read.  `Change` is AddSection, RemoveSection, AddOption or RemoveOption;
`Reload` writes the configuration in one of the orders Go's maps may give and reads the file
back.  A line is what `Read` makes of it (blank, comment, section, option, continuation), a
value the sequence of the lines it spans; the pieces of text that matter are those that, as a
line, look like something else (`Empty`, `Remark`, `Assign`, `Bracket`) and those whose comment
is stripped, which leaves plain text (`Trailed`) or a `Bracket` (`Masked`, as in `[x] ;foo`).  A
line "option=value" looks like a section if it starts with "[" and ends with "]" (`Open`,
`Closed`).  `Read` takes (`Take`) the lines one by one; `Line` says what it can take a line for:
no option that starts with "rem", no text that looks like something else.

## Runs

| run | instance | asks | states |
|---|---|---|---|
| `sched_faults` | 1 asset, 2 servers, 2 tasks, 2 attempts, every fault, two kinds of mishap per asset | does the bookkeeping follow the cloud, the database and the caller through failures and restarts? | 1.7 M |
| `sched_two` | 2 assets, 2 servers, 3 tasks, 1 attempt | do requests of different assets stay apart, and what can worker, deletion and rescheduler do to each other on one, and is each that met no mishap served and removed as `AssetContract` says? | 1.5 M |
| `sched_live` | 1 asset, 2 servers, 2 tasks, fair | does every request, deletion and retry end? | 0.1 M |
| `fip_faults` | 2 workers, one remediating; 2 addresses, quota 2, 4 identifiers; calls fail | who takes whose address, why does an Attach fail, which addresses are released? | 1.9 M |
| `auth_safety` | 2 callers, 2 logins, 3 tokens, all faults, services required or not | what can callers do to each other's token and requests? | 0.8 M |
| `auth_region` | the same | is an unknown region reported, as a test says? (no) | - |
| `auth_live` | 2 callers, 2 logins, 2 tokens, fair | does every request, login and wait end? | 0.1 M |
| `surl_regions` | 3 nested regions, 3 service types, every catalogue and every list of required services | are the URLs and the suggestions right, in whatever order the catalogue is walked? | 0.3 M |
| `nova_api` | 2 callers, 2 servers, 1 group besides the default, 1 rule, 1 address, 3 attempts | what may a caller conclude from an answer, and do the double's maps stay together? | 0.2 M |
| `nova_retry` | 1 caller, 1 server, 1 address, a rate limit on AddServerFloatingIP | does a request that met a rate limit succeed when it is sent again, as a comment says? (no) | - |
| `conf_files` | 3 sections, 4 option names, every file of up to 4 lines | what survives being written and read back, do the lookups agree? | 31 k |
| `provision` | 1 asset, 2 servers, 2 tasks, 1 attempt, all peers fail, crashes | does ProvisionInstance implement the engine's steps, does the agent follow the asset? | 0.9 M |

The two runs marked "no" are expected to find a violation, see the findings below; all
properties of the other runs hold.

*Bounds of the engine.*  `Task` bounds the request objects in memory at a time: two of one
asset already give every pairwise race (worker against deletion, worker against
rescheduler, deletion against rescheduler), three add the second round of the
rescheduler over a record that still waits in the channel; `sched_two` lets all three be of one asset or
spread over two.  `sched_faults` stops following a behaviour once an asset has met three
different kinds of mishap besides being held twice (`FewMishaps`): a property excuses each
kind on its own, so what breaks it shows with the others absent, and pairs are there to see
that they do not reach a state neither reaches alone.  `Server` bounds the
servers ever created; the last one being used up is a refused RunServer, which
every attempt must survive anyway.  Two attempts distinguish "another one
follows" from "that was the last"; the same goes for two tries of a termination.
`MaxBuffer = 1` makes the channel full as soon as one request waits, the
only case in which a sender blocks.  `CHECK_DEADLOCK FALSE`: with all tasks
finished and all ids used the system is idle, which is no error.

*Bounds of the other runs.*  A quota of two lets one worker use up what the other needs, and
makes both branches of Dettach's test on the length of the list reachable; four identifiers
are enough for two live floating IPs and two dead ones that somebody still remembers.  One
worker with and one without remediation give the races the properties are about: two workers
without it differ from these only in never tracking an address.  Two callers race for one
token; two logins are one that outlived its timeout and its successor; three tokens let a
request be refused, log in, and be robbed of the new token, while `auth_live` needs two to
tell the refused one from its successor.  Three nested regions contain a chain in which a
region matches the next and the one after it.

`provision` has one attempt and one try of a termination, which `sched_faults` has two of:
what is new in it are the calls between RunServer and the end of the attempt and the
goroutines beside; a retry comes from the rescheduler.  Its engine is faultless but for
crashes and a caller that has gone; the others are in `sched_faults`.

`nova_api` keeps to behaviours with one server and groups, or with two servers and addresses
(`Apart`): no handler touches both kinds of maps but those of servers, which do not look at
the other.  One caller is awake at a time while the other sleeps between attempts, the only
time a request is half done.  The hooks are one that fails before the effect, one between
effect and answer for a request that creates, and one on the addresses.  A hook on the lookup
of a group is not among them: removeSecurityGroupRule ignores that error and leaves the
group's copy (service.go:503), so `RulesAgree` fails with it.  One rule is enough for a copy to be left
behind, two servers for an address to be taken by one from the other.

`conf_files` has the two sections with a meaning of their own and one without, an option in
two spellings, one that starts with "rem" and one that starts with "["; two options at a time are enough for any
confusion of neighbours, and values grow by being read back up to `MaxPieces`.

`sched_faults` and `provision` also check the inductive invariants of the proofs, `IInv` and
`AgentsInv`: TLC found most of what was missing from them before a proof was tried.

*Symmetry* permutes assets, servers and tasks in the runs of safety properties;
the liveness run uses none.

*Fairness* (`FairSpec`).  Weak fairness of a goroutine's steps: the Go scheduler
runs what can run, and every remote call returns, with a result or an error.  The second half
is an assumption about the peers: goose's HTTP client, which carries the calls to OpenStack, to
the agents' services and to the callers, is a copy of Go's default client and sets no timeout
(goose/http/client.go:65-68), so a connection that is kept open without an answer holds its
goroutine for ever.  Nothing is assumed of a worker in the poll of `waitServerToStart`
(pc `configure`), which has no bound while the server is neither ACTIVE nor in ERROR
(serverprovision.go:548-567): `DeletionEnds` and `LeftoversMove` hold with workers stuck there,
and `RequestServed` has it as its premise, `Settling`, that servers do not stay between these
states for ever.  Strong fairness of `SendRequest`:
blocked senders of a Go channel are served in order, so a sender gets the room
that keeps coming back.  Strong fairness of `Scan`: the round is repeated every
five minutes for as long as the process runs; the bound on tasks may disable it
in between, which the code does not.  Nothing is assumed of callers, faults and
crashes.  The rescheduler dying (`dbdown`) and crashes are outside this run:
after them RETRY records wait for the next start of the process.

The client's `FairSpec` gives strong fairness to a caller's steps, since Go's mutex serves
waiting goroutines in turn and a call to a service is assumed to return with a result or an error,
and weak fairness to the timer.  That the identity service answers is not assumed but a premise
(`Answering`) of the properties that need it; `AuthenticateReturns` does without.  It
starts with `required` set (`LiveSpec`): nothing depends on it while catalogues are complete.
A 403 is left out of `auth_live`: it takes a caller where a 401 takes it.

*Mutants.*  Each property has a mutant in `PROJECT.json`: a plausible bug in a
mapped definition under which TLC finds the property violated.

## What the checks show

* A worker that is already past its last attempt writes its record back after a
  concurrent deletion removed it; the record is then revived with a server id
  that no longer exists.  `StaysDeleted` states that this is the only way: two
  goroutines must have held the asset.
* A failed attempt leaks its server exactly if the details of the server could
  not be read, the cleanup's DeleteServer failed, or RunServer's reply was lost.
  `terminateInstance` loses a server if three DeleteServer calls fail or
  if ListServers fails, since it then reports success.  `NoOrphan` names these
  and no others.
* Only a crash, a missing provider or a lost write strands a request in NEW or
  BUILD (`NothingStranded`).
* The rescheduler may queue a RETRY record twice, since the record stays RETRY
  until a worker starts; two workers then build it, but neither ever deletes a
  server the caller has in service (`KillsOnlyUnserved`).

* A server with a floating IP loses it only for the reasons listed in `Robs`: a worker that
  listed the address as free before it was attached releases it; the worker that
  allocated it attaches it, or gives it back after a failure; or a remediation names the address, since Retain never asks whether
  another server has it.  With any of them struck out TLC finds a counterexample.
* Attach fails only if a call failed, another worker took or released an address, or there
  was none to release (`FailsForReason`); what Retain does with that failure is to hide it.
* A request fails only after trouble in its last try (`FailsForReason`): among it a 403, which
  is taken for a refused token.  A caller that was forbidden something throws away a token that
  is good for everybody (`WipesOnlyRefused` names this and no other case).  The costliest trouble is
  `wiped`: setToken("") throws away whatever token there is, so a caller refused with an old
  token can fail another's request; `NoBareSend` and `WipesOnlyRefused` bound what it can do.
* ProvisionInstance implements the engine's steps whichever of its calls fail, with a server
  deleted between any two of them.
* The agent of an asset in service may be missing for two reasons only: a deregistration that
  came late, from an earlier attempt whose DomainAddAgent failed (stormstack.go:130), or a
  deletion that met the worker (`AgentInService`).  An asset leaves its agent behind if a call
  failed, a crash took the goroutine, or the rescheduler finished the deletion, which never
  makes the calls (`NoStrayAgent`).
* A request of the nova client changes the double at most once, since a second attempt has no
  body; for the same reason it fails (finding `nova_retry`).  An error with a code means that
  nothing was changed; one without may have left what it created, and nothing else unless its
  answer was lost (`EffectTold`, of which `FailureUndone` is the last part).
* An address that points at a server is in that server's list (`PointsBack`).  The converse
  fails, as `AddServerFloatingIP` shows: the first server keeps an address another has taken.
  A deleted server's groups and addresses stay, and only the counter keeps them from a new one
  (`FreshServer`).
* A configuration that keeps clear of what its format cannot hold survives in any order
  (`RoundTrip`).  What the format cannot hold: an option whose name starts with "rem", a section
  "" (the file is refused), a value with a line that looks like something else.  What was read
  from a file keeps clear of all this but one: a comment is stripped after the line was
  taken for text, so the continuation line `[x] ;foo` is kept as `[x]`, and `[a=b] ;c` as the
  option `[a` with the value `b]`; written, both read as sections (read.go:95-98, 113-121).
  `GetRawString` does not look into the default
  section, although `HasOption` does (`LookupsAgree`).
* A login takes all services of the user's region, from matching regions only, in whatever
  order it comes to them; each suggestion gives access to a missing service, and whenever some
  region has all that is missing, one that does is suggested (`SuggestsWhatServes`).

* An asset that met no mishap, two tasks at a time included among the mishaps, is served and
  removed as its owner was promised, beside others that met some (`KeepsContract`).  In
  particular a caller is told of a server when it is the only one that runs for the asset.

### Findings

* `auth_region`: `NewClient` replaces the default list of required service types if the list
  given *is* nil (the test at client.go:93 is inverted), so a client made with nil requires
  nothing, and an unknown region passes the login without any URL; local_test.go:98-100
  expects an error.
* `nova_retry`: the comment on TestRateLimitRetry (local_test.go:131-132 of the nova client)
  says that the retry occurs and the request succeeds; every attempt is given the reader the
  first one has emptied (client.go:259), so a request with a body is sent without it and
  refused.  The test uses a DELETE, which has none.

Met while modelling, and not the subject of a run:

* The comment on `possibleRegions` (client.go:243) says that any region returned gives access
  to the required service types; the code compares missing types only, pair by pair.
* The comment in DeprovisionInstance (serverprovision.go:306-308) says that the address of a
  remediation is not released to the pool; it is the only kind of request whose address is.
  Dettach then finds it only in a list of more than one (line 329).
* The comment on `allServerSecurityGroups` says all groups of the server; one that was deleted
  makes the list nil (service.go:579).
* Neutron's CheckAvailability returns 0 (serverprovision.go:434-436) and createAsset refuses
  when it does (assets.go:65-68): no new request is ever accepted for a provider with Neutron.
* Neutron's Attach releases unused addresses by DeleteFloatingIP, to which it gives the address
  where the id belongs (serverprovision.go:491), so none is ever released.
* Ids of groups count up from 1, and the default group has id 999: the 999th collides with it.
* The substitution of %(name)s, announced in conf/get.go:99-102, is not implemented, and
  GetOptions lists an option of the default section twice when asked for that section.

## Proofs

`SchedulerProofs` is checked by tlapm for every value of the constants that
satisfies the assumptions of `Scheduler`.

* `TypeCorrect`: `Spec => []TypeOK`.  `TypeOK` is not inductive: `Dispatch` reads
  `task[Head(cReq)]`, and writes a worker into that slot, which is only well
  typed if the slot is in use.  The invariant `Typed` adds that the tasks in
  the channel are in use (`ChannelOK`).  To add an element by `SendRequest` that
  is in use is immediate from its guard; that none is freed while it waits needs
  that every task in the channel stands at `queued` and no other step touches
  it.  The proof treats one family of steps at a time (a goroutine's step that
  replaces one task, Dispatch, Scan) through lemmas on what each does to the
  variables.
* `ServersStayWithTheirAsset`: `Spec => []OwnServer`.  Inductive relative to
  `Typed`: a step either copies server fields within one asset (record to
  snapshot, snapshot to record, entity to server) or takes a fresh server and
  makes the asset its owner; an owner, once set, is never changed.

`SchedulerProofs` and `SchedulerSafetyProofs` prove the other safety properties of the
engine, for any number of assets, servers and tasks, any bounds and any set of faults.  None
is inductive: `NoOrphan` says nothing of the server of an attempt under way, `ReadyIsReal`
nothing of an asset a task holds, and so on.  `SchedulerInvariant` says what is missing, in
three layers; `EngineStaysInOrder` is `Spec => []IInv`.

* *Single records* (`Shaped`): where a goroutine stands tells which statuses its record may
  have; one that is not built has no address, one in service has its server's.  It holds
  however many tasks share an asset.
* *Single servers*: a server is told of to a caller once, by one task (`Promised`), and the server
  of a record that is not to be served, or no more, is in no caller's hands and in no task that
  may tell of it (`Condemned`).  These hold whatever overlaps, too; with them `OnlyDeletionsKillServed`
  (`KillsOnlyUnserved`) says of *every* behaviour, those with a request queued twice included,
  that none but a deletion deletes a server the caller has.
* *Single assets*, as long as no two tasks held one together: there is then one task or none
  (`Exclusive`), and record, caller, live servers, mishaps and that task fit together (`Kept`):
  `Fits` while it is held, `Rest` when it is not, `Consistent` always; `Unborn` says that
  nothing exists of an asset before its request.

The first part of the proof states what each action does to the five things an asset consists
of (lemmas `...Effect`).  The second is about plain values and knows no state: from `Fits` before
a step follows `Fits` or `Rest` after it (lemmas `...Stands`, one per kind of step).  The third
brings them together: a step of the task that holds an asset is `AtHome`, changing the affairs
of that asset only, and is `Away` from all others, which therefore stay as they are.  Of the
promises, `NothingLeaks` (`NoOrphan`), `RetriesStartClean` (`RetryIsClean`), `ReadyServersServe`
(`ReadyIsReal`) and `CallersAreToldTheTruth` (`CallerNotMisled`) are read off `Kept`;
`DeletedStaysDeleted` (`StaysDeleted`) needs that a task other than a deletion's last call finds
its record in the collection; `RequestsAreTended` (`NothingStranded`) has an invariant of its
own, `Tended`, which needs no asset to be alone: a worker leaves NEW and BUILD before it ends.

`EngineKeepsContract` is `Spec => KeepsContract`, the refinement of `AssetContract`.

* *The contract.*  An asset goes from `unknown` over `pending` to `served`, `ending` and
  `gone`; servers are built for it while it is pending, one is handed over when no
  other of its servers runs, and none runs when its record goes.  `Suffer`
  is what may happen to assets something went wrong with: nothing is promised to these any more
  but that no server comes back or changes hands, and that nobody is given another's; to the
  rest nothing happens by it.  When it may strike is for the mapping to say.
* *The mapping.*  `PhaseOf` reads the phase off the record, the caller and the deletions under
  way; an asset with a mishap in `scars` is `troubled`, and so is one that two tasks have held together
  (`overlap`).  Failed attempts that are cleaned up, refused requests for servers, a caller that
  refuses the server or cannot be told of it are no mishaps: the contract holds through them.
  The variables `attached`, `running` and `made` are `vertex`, `cloud` and `owner`.
* *The proof* goes by the actions of the engine.  One lemma for each action of the
  contract says when a step is that one (`Accepts`, `Builds`, ..., `Suffers`).  A step of a task
  with an asset that met a mishap is `Suffer`, by `OwnServer` and by what `AtHome` leaves alone.
  In any other step the task holds its asset alone (`HomeIsSmooth`), and `Fits`, without
  mishaps, tells what it has in hand (`PendingFacts`, `BuiltFacts`, `EndingFacts`,
  `RemovedFacts`): that the server it hands over is the only one, that one it deletes is
  the asset's own, that none is left at the end.  A round of the rescheduler and a crash are `Suffer`
  for the assets that are busy.

`ProvisioningProofs` (assumptions of `Scheduler` and of `Provisioning`):

* `ProvisioningRefinesEngine`, `ProvisioningSpec => Engine!Spec`, one lemma per family of steps,
  needs no invariant.  What is proved of the engine is proved for every set of faults, so it
  holds of `Engine` as well (`Proved`, the proofs instantiated with its faults), and what is
  said there means the same here (`SameWords`): `ProvisionedServersStay`,
  `ProvisioningKeepsPromises`, `ProvisioningHarmsNone` and `ProvisioningKeepsContract` carry all
  safety properties of the engine over to the detailed module.
* `AgentsServe` (`AgentInService`) and `AgentsLeave` (`NoStrayAgent`) from `AgentsInv`
  (`AgentsStayInOrder`): the agent follows the attempt (`Following`), then the record
  (`InStepAt`), and what a deletion has not taken out a goroutine is about to (`TakenOutAt`).  It is inductive
  relative to the engine's invariant: that nobody registers the agent of an asset while it is
  deleted, or of another attempt, follows from there being one task (`SoleHolder`) whose record
  is as `FitsRecord` says.  `Moves` says what a step may do to task and record, `Accompanies`
  what to the agent.

`AuthClientProofs` (assumptions: Null is nobody, `Faults` are known):

* `TypeCorrect`, and `LoginsAreExclusive` from `Locked`: the goroutine in the call of the identity
  service is the holder of the mutex, and then there is no token.
* `TokensComeWithURLs`: `TokenHasURLs` is inductive, because the token is set last.
* `FailuresAreExplained`: the invariant `Explained` adds to the property that a login goroutine
  belongs to the one caller that waits for it (`Linked`), that a caller about to wipe was
  refused with a token no longer valid or was forbidden its request (`Refused`), and that a caller nothing has happened
  to still has the token it found, valid in its second try (`Sound`).
* `BareSendsWereWiped` and `OnlyRefusedCallersWipe` from an invariant of the same kind, `Held`.

`ServiceURLsProofs` (assumptions: regions are sequences of labels, the service types are
finitely many, and so are the regions): `URLsAreOfRegion` as an invariant, from what the walk
has collected so far (`Collected`: all services of the matching regions behind it, and no
other); `SuggestionsAlwaysHelp` and `SuitableRegionsAreSuggested` as action properties.  The former rests
on `CommonRegion`: a region returned for a pair of types is offered one and reaches the
other by a suffix; the latter on `MostSpecific`: of the regions that offer something missing, the most
specific ones that end with what the region with everything ends with pass both tests (`Suitable`).

`NovaFloatingIPProofs` (assumptions: the quota is at most the pool; the constants differ):

* `TypeCorrect`, `TrackedAreSpared` and `AddressesAreTakenForReason` from one invariant, `IInv`.
  None of the three properties is inductive: what a worker does to an address depends on what
  it read several calls earlier.  `IInv` says what that is still worth: a floating IP on a
  worker's list is on a server, or under remediation, only if the worker is `late`, that is, it
  was attached or tracked since (`Looked`, `Noted`); a worker's phase says what it holds
  (`Orderly`); and what is gone is on no server (`GoneIsOff`).
* `AttachFailsForReason` (`FailsForReason` of Attach) from `Attempts`, on top of `IInv`: as long
  as nothing stood in its way, a worker that has released an address finds room within the quota
  until it has used it, because whoever takes the room meanwhile gets in the way of all that
  are trying; so it does not come to the end of the second round (`Tried`).  The account itself
  keeps to its quota (`Quota`).
* A step is treated in two halves: what it does to the worker that takes it (`Sound`, one
  lemma per action), and what it leaves to all others (`Respects`, by families of actions), from
  which `OthersStaySound` follows once for all.

`NovaClientProofs` (assumption: that of `NovaService`), for any callers, requests, hooks and
number of attempts:

* `Book` is what the double's maps are at any time, handler by handler: their types, and that
  nothing is filed under an id that was not given out yet.  `NewServersStartFresh`
  (`FreshServer`) follows from it.
* `RequestsActOnce`, `FailuresAreUndone` and `ResultsTellEffects` (`EffectTold`) from
  `AllAccounted`: a request that was carried out is sent again only if it creates something, and
  then without its body, so that it is refused without effect; one that failed after it was
  carried out is of that kind too, unless its answer was lost.  `HandlersAnswer` says once what
  each handler may answer with and without effect, `AnswersTell` what an answer means to
  the method that reads it; the lemmas after them follow an answer through `React`, `Refused` and
  `Retry` to the chain of errors the caller gets.
* `AddressesPointBack`: `PointsBack` is inductive with the types of the two maps
  (`Addresses`), handler by handler.
* `RulesStayInTwoPlaces` (`RulesAgree`) from `RulesFiled`: a rule and its copy have the same
  group, and ids of rules and groups are used once.  Its two hypotheses are real conditions of
  the code, not conveniences of the proof: without `NoLookUpHook`, removeSecurityGroupRule drops
  the error of a failed lookup and leaves the group's copy (service.go:503); without
  `DefaultIdUnused`, the 999th group replaces the default one, and its rules stay behind.

`ConfFileProofs` (assumptions of `ConfFile`: names are finitely many, putting a name in lower
case twice is putting it once and keeps a leading "rem"; the pieces of text are different
from each other; Null is no name and no value), for files of any length and values of any
number of lines:

* `LookupsAlwaysAgree` (`LookupsAgree`) and `RoundTrips` (`RoundTrip`) from `IInv`: options are
  kept under their lower case, the default section is always there, and a configuration that was
  read from a file is `Tame`: `Take` strips comments, refuses options under "", and never sees a
  comment as an option, so no reader ends with one (`Readers`, `ReadKeeps`).  What is left to
  demand of it is that none of its lines looks like a section (`Unbracketed`).
* For the round trip, `Leads(f, r, r2)` says that `Take` leads from r to r2 over the lines of f,
  and that two files one behind the other lead where one after the other does.  A value survives its lines
  (`OptionLinesLead`), a section its options in any order (`SectionLinesLead`), a file its sections in
  any order (`TameReadsBack`).
* These are inductions over the lines of a value, the options of a section and the sections of
  a file.  The library's induction theorems take an operator and cannot be used; `Climb` replaces
  them by a statement about sets of naturals: the set of the lengths for which the claim holds
  is all of Nat, because its complement would have a least element (`WFMin`).

All safety properties of the runs, invariants and action properties, are proved.  What stays with TLC is
liveness (`sched_live`, `auth_live`): tlapm does not reason about ENABLED and fairness here.

## Not modelled

* `retrieveAsset`, `getAssetProvider`, `getAssetModel`, `UploadImage`, `ValidateAssetProvider`,
  `resourceStatus` and the other handlers of `controllers/controller.go`: reads, or one call
  passed through; none keeps state.
* The remediation worker and `notifyActivation`, whose channels have no sender in the
  repository, and with them Dettach and Retain on Neutron (serverprovision.go:424-432 and
  499-533), which are called for requests of remediation only.
* The provider cache: one function, under one lock from its first line to its last.  Its key
  leaves out tenant and region, and its lock is held while the cloud is asked; no promise of
  the code is about either.
* CreateProviderNetwork, which nobody calls; `mysqlaccess.go` (unused).
* The glance, swift and identity clients and their doubles: one request per method, and
  doubles that only serve tests of goose that stormio does not use.  BinaryRequest and
  PlainRequest of the HTTP client.
* Conversions of configuration values; logging, flag parsing, JSON formats; `tools/` and
  `setup.sh`.

## Plan

Done: the engine, what it promises as `AssetContract`, and its refinement by ProvisionInstance
and the agents; floating IPs on Nova, and on Neutron as far as ProvisionInstance uses them; the
authenticating client and its service URLs; the nova client against the compute double;
configuration files.

Worth doing next: the Swift double with the identity doubles, for whoever uses goose beyond stormio.
