# A verification project for logos-plugin-qt

TLA+ models of the host runtime (`cpp/`), of the code the generator emits and
of the generator's own command line (`qt-host-generator/`), and of the decisions
of the build functions (`lib/`), model-checked with TLC, and theorems about them checked
with TLAPS. All paths below are relative to the repository.

## 1. Inventory

| Component | Code | State it keeps | Operations | What is hard |
|---|---|---|---|---|
| Consumer admission | `cpp/logos_consumer.*`, `LogosAPI::forIdentity` | the token store of every isolated name, the ambient ring, names vended on it, the store each LogosAPI is bound to; capability_module's record of credentials | admitConsumer, reissueConsumerCredential, adoptConsumerCredential, forIdentity, the constructors, clients' token requests | a blocking push that times out and is served late; a retry with a new credential; two stores per name; token requests in flight over a rotation; a co-process started between rotations |
| Client cache | `cpp/logos_api.*` | clients by (target, mode, transport), the capability transport | getClient, setCapabilityModuleTransport | threads marshalled to one owner, settings that change meanwhile |
| Provider registration | `cpp/logos_api_provider.*` | transports, module proxy, pending validator, two published names | registerObject, setTokenValidator, saveToken, destructor | a circular wait between a synchronous initializer and capability_module; partial failure of transports; re-entrant registration |
| Unload hook | `cpp/logos_plugin_unload.*`, emitted `aboutToUnload` | a nested loop, a deadline, one connection | runPluginAboutToUnload, the completion trampoline | completion at any time, from any thread, against a deadline |
| Generated dispatch, multi | `lidl_gen_cdylib_glue.cpp` | a counter and a prefix, a bounded pool, the listener | callMethod, the worker, setEventListener | callers per thread, completions that overtake sentinels, reload, pool exhausted by nested calls |
| Generated dispatch, single | same | none of its own: the host's CallerScope and the module's caller store, per thread | callMethod | dispatches nested in event loops |
| Pool warm-up and module load | same | three semaphores on the stack; what the image was given so far | the provider's constructor, init and onInit, setEventListener, emitTrampoline | a rendezvous that may never take place; module code that starts before it has all it needs |
| Token doors | same, `cpp/logos_provider_object.cpp` | host store and module image store, inbound and outbound | init, onInit, informModuleToken | two images, two directions, partial failure |
| Legacy adapter and argument codecs | `cpp/qt_provider_object.cpp`, `cpp/logos_qt_arg_decode.*` | the wrapped object | callMethod and the rest of the provider interface | one call resolved twice |
| Generator command line | `qt-host-generator/main.cpp` | two files | one invocation | a pair of outputs of which one is written; what an earlier invocation left |
| Build functions, header script | `lib/buildPlugin.nix`, `lib/buildHeaders.nix`, `lib/generate-module-headers.sh` | generated files | a plugin's sources, a module's headers | generators that exit 0 and wrote less than they should; combinations of settings that build and cannot work |
| Flake, derivations, CMake | `nix/`, `flake.nix`, `CMakeLists.txt` | none | build | nothing at run time |

How they interact: a host constructs a `LogosAPI` per module; its provider
publishes the module, and a generated or legacy provider object serves the
calls. Clients of a `LogosAPI` ask *capability_module* for a token per target;
capability_module mints it, pushes it to the target (`informModuleToken`) and
returns it. Consumers that are not modules get their identity by admission.
capability_module, `ModuleProxy`, `TokenManager`, the transports and the
clients' wire protocol belong to logos-protocol: they are modelled from how this
repository uses them and marked external in the map.

PROJECT.json lists every hazard with its line and the properties that watch it.

## 2. Plan

Done, in this order: Admission and its proofs; Provider; Unload; CallLedger and
Dispatch; Replies and SingleDispatch; TokenDoors; LegacyCall; PoolWarmup;
ClientCache; then Credentials and the proof that Admission implements it;
ModuleLoad over PoolWarmup; the legacy adapter's initialization in Provider; the
numeric rules in LegacyCall; GeneratorMain, Build and their proofs; the proofs
about Unload, PoolWarmup and ModuleLoad, Provider, TokenDoors, SingleDispatch and
Dispatch, with the proof that Dispatch implements CallLedger; the proofs about
ClientCache and LegacyCall; the proofs that nothing gets lost or stands still,
which the liveness properties rest on.

Left, in order of worth: the forwarding of events to the legacy adapter's
listener; `getMethods`.

## 3. Modules and how they correspond to the code

**Admission** — one identity's host call is a small program: `Mint`, then
`RegisterAtCapability` (the push is on the `wire`), then `Registered` or
`NotRegistered` (the answer, or a timeout *whatever became of the request*), and
`AdoptCredentialFor`, with `ResetIdentity` before it in a rotation. The steps are
separate because other threads and processes run between them; isolation and
minting, at the start of a call, are one step. Credentials are UUIDs in the code
and numbers here. `store[i]["private"]` is the isolated store,
`store[i]["process"]` the ring of the identity's co-process.

`bound` is the LogosAPIs constructed in the host's image, each with its name and
the store it presents tokens from. `ConstructApi` takes the store of the name, and
records the name as vended when that is the ambient ring; `ConstructWithStore` is
the constructor with an explicit store, which wins, whosever it is, and records
nothing (`Chosen` says which stores callers pass); `Isolate` refuses a vended
name. What was bound stays in `bound`: a deleted LogosAPI presents nothing, so
keeping it asks more of the code, not less.

A client whose store has no token of a target asks capability_module for one:
`RequestModule`, `Grant` and `SaveToken` are separate steps, as the flow waits up
to 20 seconds between them and a rotation may begin or end meanwhile; `AskFails`
is a refusal, a lost answer or a timeout. The client saves what comes, whatever
the store has been reset to. `rotated` and `awaited` are history: the credential
of the last reset, and the targets whose answers were then under way.
`OnlyAwaitedOutlivesRotation` is what holds in spite of the late answers: since
the new credential is registered before the store is reset, no request under an old
one is granted afterwards.

Three things are assumed of the surroundings. capability_module serves one
identity's registrations oldest first (one connection), so a timed-out
registration is served before the retry's and never after it; without that a
success could be undone later. One host call per identity runs at a time (the
calls block their thread); calls for different identities interleave freely. And
the target tokens a co-process obtains for itself are not modelled: no call of
this repository resets them.

**Credentials** — what admission promises of accepted, recorded, returned and
presented credentials, in four actions. `Admission` implements it: `store` and
the co-process's ring are what is presented, `recorded` and `accepted`
capability_module's record, `returned` what the caller was given.

**ClientCache** — `GetClient` posts, `Serve` is the lambda run on the owner's
thread, in one step since that thread does nothing in between: two lookups that
both miss cannot overlap for that reason, and the model takes it from
`runOnOwnerThread`. What `OneClientPerKey` shows is that changing settings do not
file two clients under one key, or one under two.

**Provider** — `registerObject` is the sequence `RegisterObject`,
`PublishHandshake`, the initializer (`InitCallsOut`, `InitAnswered`,
`InitReturns`), `PublishProvider`; while the initializer is blocked its thread
serves pushes (not another caller's registration: `RegisterObject` comes before,
from inside the initializer, or after). Each transport independently takes or declines a surface. The two
entries of the trust anchor are written together and modelled as one; both
overloads of `registerObject` have the same steps. `kind` is the provider object:
a generated one keeps the LogosAPI before anything else (`InitWires` before the
rest of init), a legacy plugin when its `initLogos` likes, and until then the
adapter's informModuleToken refuses every push. `WindowAccepts` and
`RegistrationReturns` except that adapter: a legacy plugin that calls out before it
keeps its LogosAPI does wait for a deadline.

**Unload** — host and module are two processes; the generated trampoline posts an
event, a handwritten plugin emits directly. Time advances in ticks only when the
loop has nothing to deliver.

**Dispatch** — the multi mode, with handlers that call their own module and wait: `CallMethod` runs on the thread of the call up to
the hand-over to the pool, `Start`, `Handle`, `Complete` on a worker. Sentinel
(`ReturnPending`) and completion are independent. `Reload` is a new provider,
whose counter starts again at 0. **CallLedger** is what it promises: each call
performed at most once, as its caller, and answered afterwards, once, with its
own result.

**SingleDispatch** — the single mode: `stack` is the thread's stack of nested
dispatches. **Replies** is the mapping of results to replies.

**PoolWarmup** — the constructor, the tasks and the pool's threads. **ModuleLoad**
extends it: after the constructor the host's thread runs `ProviderInit`,
`SeedAnchor`, `GrantServices`, `ForwardContext` and, before or after them,
`SetEventListener` and `SetEmitCallback`; once the image has both the context and
the trampoline the module's code runs, emits (`Emit`) and loads the pool (`Call`,
`Answer`).

**TokenDoors** — several generated modules, each with the host's store and its
own image's; capability_module grants in both directions at once. Modules
generated against protocol 0.7 have no inbound door of their own and take the
documented fallback.

**LegacyCall** — one call, from the lookup to the reply. Behind the adapter
(`wiring`) is no module, a plugin without a LogosAPI, or one that has it; a call
without a module or without a method name is answered empty (`NoCall`). Types are represented
by the classes the code treats differently. Numbers count halves, so that one
with a fraction can be told from a whole one; the bounds of the integral types are
constants (`IntHalf`, `LongHalf`), and so is the largest number up to which a
double holds every whole one (`DoubleExact`): a larger one is rounded on its way
to a `double` parameter, and the property says so.

**GeneratorMain** — one invocation: the refusals in the code's order, then the two
files, truncated and written in place; any may fail to open, a write may come
short, the process may be killed, and the next invocation finds the result.

**Build** — extends it with the scripts of `buildPlugin.nix` and
`buildHeaders.nix`: who wrote which file, which gate was passed, which check
looked at what. logos-cpp-generator and logos-qt-generator are external and may
fail, or exit 0 with any of their files written, empty or missing. The module
builder's preConfigure hook, external too, runs the host generator for cdylibs.

Modules MC* instantiate these for TLC. Operators commented "Slip" are not part of
any specification: they are faulty variants of the definition that follows them
in the file, kept to show that each property would notice the fault.

## 4. Runs, bounds, what they show

| Run | Shows | Bounds and why they suffice |
|---|---|---|
| admission | the safety properties of admission, that every host call returns, and the refinement of Credentials | two identities (for confusion of one with another), three credentials (an admission, a lost or late answer and a retry of one identity, in any mixture with the other), one target and one token request in flight (the answer that arrives after the reset), one explicit store (a LogosAPI of one name on the ambient ring); the theorems cover any number |
| client_cache | no client of another transport, none built twice | two threads, two transports, three modes; keys of different targets do not interact |
| provider | the safety properties of registration, and that the circle is broken | two transports (one may decline), two names, two validators, a caller besides the initializer, both kinds of provider object |
| unload | report and waiting | a grace period of 12 ticks; every moment of completion, before, at and after it |
| dispatch | callers and answers; refinement of CallLedger; accepted calls are answered | three calls of two callers, two of which may be nested in handlers, exactly as many as the workers; two threads, one reload |
| single_dispatch | nesting | three calls, one caused by another, one of each kind of method |
| token_doors | directions and images | two modules; enough tokens for a grant each way and a regrant |
| legacy_call | lookup and invocation agree, and numbers survive them | all plugins of up to two methods; the limit of 5 arguments is scaled to 1, integers to 2 and 3 bits (the theorems cover any width and limit), requests at and beyond both bounds |
| module_load | the rendezvous, the order of initialization, no thread created late | three workers: one waiting, one over, one queued; as many calls queued as there are workers |
| build | what a build that succeeds has produced; exit status and files of the host generator | two dependencies, so that one wrapper can be missing; two invocations, so that one finds what another left; every combination of settings |
| single_refusal, legacy_coerced | two statements of comments that the code does not keep | as single_dispatch, legacy_call |

The theorems of section 6 cover any size of every one of these instances; the
runs find out cheaply, and keep the liveness properties.

Every property has a mutant in PROJECT.json that breaks it. Deadlock checking is
off where a finite set of calls, or one teardown, comes to an end.

### Findings

*single_refusal*: a refused call of a method that returns a LogosResult reaches
the caller as a failed LogosResult, without the code and message that
`cpp/logos_qt_arg_decode.h` says every rejected call carries. *legacy_coerced*:
the legacy adapter decodes for one overload and Qt then runs another: a decoded
`uint` is wrapped as text.

Observed, not stated as a property because no text of the repository promises
otherwise: a reissue whose answer was lost leaves the consumer with a credential
that is dead; a second admission of a name keeps the per-target tokens of the
first; a registration that no transport accepted can never be repeated on that
provider. A LogosAPI constructed with the ambient ring as its explicit store is not
recorded as vended, so a later isolation of its name succeeds beside it
(`SpeaksAsItself` excepts a store the caller chose). `cpp/logos_consumer.h` says
that a reissue drops the per-target tokens of the previous incarnation: it drops
those in the store at the reset, and an answer under way at that moment is saved
afterwards (`OnlyAwaitedOutlivesRotation` says exactly which). `lib/buildHeaders.nix` says at line 347 that "buildPhase already
guarantees the wrapper pair exists": its cross-compiling path looks for the
header only, and none of the legacy paths for empty files
(`InstalledIsUsable` says exactly what is guaranteed); its lines 27-31 still
describe a `touch .no-api` fallback that is gone. The lp wrappers of a plugin are
not looked at before its compiler is. `main.cpp` does not look at the result of
its write: a full disk leaves a truncated file and status 0
(`ZeroExitIsWholePair` excepts a short write).

## 5. Fairness

* Admission: weak fairness of the host's own steps; the blocking push has a
  timeout, so `NotRegistered` is always enabled. None for capability_module.
* Provider: the registering thread, capability_module's search for a surface and
  the event loop run. Deadlines get none: needing one is the stall under test.
* Unload: the host's thread runs and time passes; the module need never finish.
* Dispatch: threads, workers and consumers run; a handler's client has a
  deadline. Nothing is assumed of the pool's scheduling.
* SingleDispatch: the thread runs; strong fairness of a handler's return, as a
  handler that calls out forever is not the glue's to end.
* PoolWarmup and ModuleLoad: the constructor's thread and each pool thread run;
  nothing is assumed of the module or its callers.
* Build and GeneratorMain: none, their properties are safety properties.

## 6. Proofs

Eight modules hold theorems, for every value of the constants. They assume no
more than what the modules name: the bounds on credentials and tokens are
naturals, the grace period is a positive one, callers are recorded per call, a
pool is finite and has a thread, the widths of integral types are positive, a
method's parameters and a request's arguments have types of the model, the
ambient ring is no identity's store, the explicit stores callers pass are an
identity's or the ambient ring, and the "none" values are not names, validators,
transports or calls.

Hardly a property is inductive alone; each module states an invariant `IInv` as a
conjunction of named parts, shows that `Init` implies it and that each action
keeps it, with a step per action and under it one per part the action can
disturb, and draws the conclusions. What each invariant says, and why it is
needed:

* **ConsumerProofs** — of Admission: where a credential can be: minted for one identity,
  pushed, accepted, returned and held, in that order. `MintedInv`: nothing of an
  identity is newer than its last credential. `OwnInv`: what belongs to two
  identities is disjoint. `ReturnedInv`: what is held was returned, what was
  returned was accepted. `CallInv`: what has become of the call's credential, by
  stage. `NewestInv`: once the newest credential is accepted nothing is left on
  the wire, because an identity's pushes are served oldest first; this carries
  `NoSilentLockout`. `BindInv`: no name is both isolated and vended, and a
  LogosAPI without a chosen store is on the ambient ring under a vended name or on
  its own store under an isolated one; with `HeldWasReturned` that is
  `SpeaksAsItself`. `RotationInv`: the credential of the last reset is not newer
  than the one on record, nor than any on the wire, so a request under an older one
  can no longer be granted, and what was granted before the reset is `awaited`; this
  carries `OnlyAwaitedOutlivesRotation`.
  `AdmissionImplementsCredentials` is the refinement, step by step; `AdoptionSucceeds`
  that adoptCredentialFor never has a reason to refuse. Of ClientCache: a client
  is filed under its own target and, where the mode has transports, its own
  transport, one to a key (`KeyedInv`), and what a thread was handed stays the
  cached one (`HandedOutInv`): so neither a change of mode, of the default or of
  the override between the request and its service mixes clients up.
* **BuildProofs** — what the directory holds, by stage: of one invocation of
  the host generator (`MainInv`), of a plugin's sources (`PluginInv`,
  `WrapperInv`), of a module's headers (`HeadersInv`). `TokensReachTheWrappers`
  needs the whole chain: the gate on the API style admits the wrappers to cdylibs
  only, a cdylib is not built unless the hook ran the host generator to exit status
  0, and that status means both files, one generation.
* **UnloadProofs** — an argument about time. From the moment a generated plugin
  finishes, the host's loop has something to deliver, and the clock stands still as
  long as it has: so the timer cannot become due before the loop is left, and
  whether it is still active is the right thing to ask.
* **LoadProofs** — an argument by counting. Nothing is released before every task
  is submitted, so each submission finds all threads busy and the pool creates one
  more: as many threads as tasks when the constructor goes on (`ThreadInv`,
  `CountInv`), and none expires (`PoolInv`). `LoadInv` is the order of onInit.
* **ProviderProofs** — the proxy exists from the handshake's publication to the
  destructor, with the validator of the moment (`StageInv`, `ValidatorInv`); what
  is published has the registration's one name and is known for withdrawal
  (`PublishedInv`); anchor and LogosAPI are in place by stage (`RingInv`,
  `WiredInv`); delivered pushes are in the store (`PushInv`). Of LegacyCall: the
  method found is one of the plugin's with the name and number of arguments
  asked for (`CalleeInv`), and the types the arguments have at each stage are
  those it declares (`TypesInv`). When Qt resolves the name again, by the wrapped
  types, it can only come to a method of the same parameters; for types without a
  wrapper it can come to another. `CoercionHasOneCause` says so of the run
  `legacy_coerced`: leave out types that have no wrapper or no rule in the codec,
  and what the comment promises holds. `IntegersAreKept` and `SameRemainder` are
  the arithmetic: a number in the range of a type is the only number of that range
  with its remainder, whatever the width.
* **TokenDoorsProofs** — every token in a store was granted to the pair it is
  filed under, in that direction (`HeldInv`, with the exception the fallback for
  protocol 0.7 makes), the token being granted is its pair's newest (`GrantInv`),
  and one its owner presents has arrived (`HandedInv`).
* **SingleProofs** — the host's scopes and the module's callers are the stack of
  dispatches, entry by entry, but for the newest before its push (`ScopesInv`,
  `ToldInv`).
* **DispatchProofs** — a call's caller travels with it (`DeliveringInv`,
  `DocumentInv`, `RunningInv`), and an id, the provider's prefix and a number below
  its counter, is no other call's, also across a reload (`IdInv`), so a consumer
  takes only its own completion (`ConsumerInv`). `DispatchImplementsLedger` is the
  refinement, step by step.

### What the liveness properties rest on

Liveness itself is model-checked. What can go wrong in it is proved for every
value of the constants: that something in progress gets lost, or that everyone
comes to wait for everyone. These theorems say that while something is under way
one of the actions that would bring it on has its guard satisfied (the guards are
written out, as ENABLED is out of the prover's reach); what TLC adds is that
the fairness of section 5 makes such an action happen.

* Dispatch, `AcceptedIsAnswered`: `NoCallIsLost` follows an accepted call from
  queue to worker to completion (`HeldInv`, `SentinelInv`, `ReportedInv`);
  `PoolNeverStandsStill`: even with every worker taken by a handler that waits
  for a nested call, a handler's deadline frees its worker.
* ModuleLoad, `ConstructorReturns`: `MeetingIsCounted` equates the semaphores'
  permits with the tasks that gave or took them; `MeetingNeverStandsStill`; and
  `MeetingIsBounded`, a variant: each step of the constructor or a thread
  strictly increases a number that is at most four times the pool's size plus
  five. Together they bound the rendezvous without any word on scheduling but
  that someone is scheduled.
* Unload, `AlwaysReturns`: `WaitingEnds`: the host never waits with neither a
  delivery, nor time left to pass, nor a timer that is due.
* Provider, `RegistrationReturns`: `CircleIsBroken`: with a handshake surface up
  (`WindowUpInv`) and a module that takes the push, what a blocked initializer
  waits for can proceed. Without either the wait is left to a deadline.
* SingleDispatch, `DeliveredIsAnswered`: `NoDispatchIsLost` and
  `NestingNeverStandsStill`: what is delivered is on the stack until answered, and
  the top of the stack can go on.

Only model-checked: those five and `HostCallReturns` of Admission, since fairness
and ENABLED are out of the prover's reach; and the two statements that runs refute.

## 7. Not modelled

The CMake build, the flake and the derivations; the packaging of the build
functions' outputs and the header script's search for the plugin. The text the
generator emits is built by string functions: what is modelled is the code they
emit. `getMethods` is a pure function over a listing. `onEventResponse` and the
legacy adapter's forwarding of events keep no state (the generated trampoline's
emission is `Emit` of ModuleLoad). The codec's JSON parsing belongs to
logos-protocol. The contents of replies are abstracted to kinds; a `float`
parameter, whose rounding is the codec's, is not among the types, and the runs
(not the theorems) scale the widths of numbers down. Data races on plain members
(`m_capabilityModuleTransport`, the event listener) are outside: the models make
those accesses atomic.
