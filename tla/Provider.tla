------------------------------ MODULE Provider ------------------------------
(***************************************************************************)
(* Registering a module with its LogosAPIProvider                          *)
(* (cpp/logos_api_provider.cpp).                                           *)
(*                                                                         *)
(* registerObject publishes a token-only handshake surface, runs the       *)
(* module's synchronous initializer and publishes the business object last *)
(* of all.  The initializer calls out to capability_module, and            *)
(* capability_module answers only after it has pushed a token back to this *)
(* very module: the handshake surface is what breaks the circle.           *)
(*                                                                         *)
(* The module's event-loop thread runs registerObject; while a call out of *)
(* the initializer blocks, the same thread serves what arrives.            *)
(* capability_module, the transports and the callers are external.         *)
(***************************************************************************)
EXTENDS FiniteSets

CONSTANTS
  Transports,  \* the configured transports
  Names,       \* names registerObject is called with
  Callers,     \* modules that ask capability_module for a token of this one
  Validators   \* token authorizers the daemon may install

NoName      == "no name"
NoValidator == "no validator"

ASSUME NoNameAssumption == NoName \notin Names
ASSUME NoValidatorAssumption == NoValidator \notin Validators

Surfaces == {"handshake", "business"}
Objects  == [surface : Surfaces, name : Names]

\* A token pushed to the module names its caller; the one the initializer's own
\* request causes is "self".
Self     == "self"
Subjects == Callers \cup {Self}

\* A QObject's own provider object, or one handed over; or the adapter around a
\* QObject that is no LogosProviderPlugin or whose createProviderObject failed.
Kinds == {"provider", "adapter"}

VARIABLES
  hosts,               \* m_transports: the hosts the constructor retained
  authToken,           \* the host set the authToken property
  ring,                \* TokenManager::instance(): "core" / "capability_module"
  pc,                  \* where registerObject is
  name,                \* its argument
  kind,                \* the provider object it registers
  wired,               \* that object, or its plugin, keeps the LogosAPI
  proxy,               \* m_moduleProxy exists
  tokens,              \* the callers the proxy has a token of
  pendingValidator,    \* m_pendingValidator
  proxyValidator,      \* the validator the proxy consults
  published,           \* published[t]: the objects transport t serves
  handshakeName,       \* m_registeredHandshakeName
  objectName,          \* m_registeredObjectName
  push                 \* push[s]: capability_module's delivery of s's token

hostVars  == <<hosts, authToken>>
proxyVars == <<proxy, tokens, pendingValidator, proxyValidator>>
pubVars   == <<published, handshakeName, objectName>>
objVars   == <<name, kind, wired>>
vars == <<hostVars, ring, pc, objVars, proxyVars, pubVars, push>>

\* The constructor: a configured transport whose host cannot be made is
\* dropped.
Init ==
  /\ hosts \in SUBSET Transports
  /\ authToken \in BOOLEAN
  /\ ring \in {"empty", "host", "foreign"}
  /\ pc = "idle"
  /\ name = NoName
  /\ kind = "none"
  /\ wired = FALSE
  /\ proxy = FALSE
  /\ tokens = {}
  /\ pendingValidator = NoValidator
  /\ proxyValidator = NoValidator
  /\ published = [t \in Transports |-> {}]
  /\ handshakeName = NoName
  /\ objectName = NoName
  /\ push = [s \in Subjects |-> "none"]
-----------------------------------------------------------------------------
\* Publish an object on every host; each accepts or declines.
Publish(surface, accepting) ==
  published' = [t \in Transports |->
                  IF t \in accepting
                  THEN published[t] \cup {[surface |-> surface, name |-> name]}
                  ELSE published[t]]

\* The installed validator, unless there is none to apply.
ApplyPending ==
  proxyValidator' = IF pendingValidator = NoValidator THEN proxyValidator
                                                      ELSE pendingValidator

\* Slip: the guard of a second registration is missing.
RegisterObjectAgain(n) ==
  /\ pc \in {"idle", "init", "done"}
  /\ name' = n
  /\ kind' \in Kinds
  /\ pc' = "handshake"
  /\ UNCHANGED <<hostVars, ring, wired, proxyVars, pubVars, push>>

\* registerObject, all overloads.  A second registration is refused, also one
\* made from inside the initializer.  A registration refused for a null object
\* or an empty name changes nothing either.
RegisterObject(n) ==
  /\ pc \in {"idle", "init", "done"}
  /\ ~proxy
  /\ name' = n
  /\ kind' \in Kinds
  /\ pc' = "handshake"
  /\ UNCHANGED <<hostVars, ring, wired, proxyVars, pubVars, push>>

\* Slip: the trust anchor is left to the initializer.
SeedNothing == UNCHANGED ring

\* seedHandshakeTrustAnchor: never over an entry that is there.
SeedHandshakeTrustAnchor ==
  ring' = IF authToken /\ ring = "empty" THEN "host" ELSE ring

\* Slip: the name is recorded although no transport took the surface.
PublishHandshakeUnchecked ==
  /\ pc = "handshake"
  /\ proxy' = TRUE
  /\ ApplyPending
  /\ SeedHandshakeTrustAnchor
  /\ \E accepting \in SUBSET hosts : Publish("handshake", accepting)
  /\ handshakeName' = name
  /\ pc' = "init"
  /\ UNCHANGED <<hostVars, objVars, tokens, pendingValidator, objectName, push>>

PublishHandshake ==
  /\ pc = "handshake"
  /\ proxy' = TRUE
  /\ IF proxy THEN UNCHANGED proxyValidator ELSE ApplyPending
  /\ SeedHandshakeTrustAnchor
  /\ \E accepting \in SUBSET hosts :
       /\ Publish("handshake", accepting)
       /\ handshakeName' = IF accepting # {} THEN name ELSE handshakeName
  /\ pc' = "init"
  /\ UNCHANGED <<hostVars, objVars, tokens, pendingValidator, objectName, push>>

\* LogosProviderBase::init keeps the LogosAPI first of all.  The adapter's calls
\* the plugin's initLogos, if it has one, which keeps it when it likes, or not.
InitWires ==
  /\ pc = "init"
  /\ ~wired
  /\ wired' = TRUE
  /\ UNCHANGED <<hostVars, ring, pc, name, kind, proxyVars, pubVars, push>>

\* LogosProviderBase::init is past its first statement.
InitUnderWay == pc = "init" /\ (kind = "provider" => wired)

\* The initializer asks capability_module for something and blocks.
InitCallsOut ==
  /\ InitUnderWay
  /\ push[Self] = "none"
  /\ push' = [push EXCEPT ![Self] = "seek"]
  /\ pc' = "blocked"
  /\ UNCHANGED <<hostVars, ring, objVars, proxyVars, pubVars>>

\* capability_module answers when its push is over, one way or the other.
InitAnswered ==
  /\ pc = "blocked"
  /\ push[Self] \in {"delivered", "failed"}
  /\ pc' = "init"
  /\ UNCHANGED <<hostVars, ring, objVars, proxyVars, pubVars, push>>

\* The initializer returns; it, or the loader under it, may have put the host's
\* token in the ring.
InitReturns ==
  /\ InitUnderWay
  /\ ring' \in {ring, "host"}
  /\ pc' = "publish"
  /\ UNCHANGED <<hostVars, objVars, proxyVars, pubVars, push>>

\* Slip: the business object gets a proxy of its own.
PublishNewProxy ==
  /\ pc = "publish"
  /\ proxy' = TRUE
  /\ tokens' = {}
  /\ ApplyPending
  /\ \E accepting \in SUBSET hosts :
       /\ Publish("business", accepting)
       /\ objectName' = IF accepting # {} THEN name ELSE objectName
  /\ pc' = "done"
  /\ UNCHANGED <<hostVars, ring, objVars, pendingValidator, handshakeName, push>>

PublishProvider ==
  /\ pc = "publish"
  /\ proxy' = TRUE
  /\ ApplyPending
  /\ \E accepting \in SUBSET hosts :
       /\ Publish("business", accepting)
       /\ objectName' = IF accepting # {} THEN name ELSE objectName
  /\ pc' = "done"
  /\ UNCHANGED <<hostVars, ring, objVars, tokens, pendingValidator, handshakeName,
                 push>>

\* Slip: a validator installed later is not forwarded.
SetPendingValidator(v) ==
  /\ pc # "gone"
  /\ pendingValidator' = v
  /\ UNCHANGED <<hostVars, ring, pc, objVars, proxy, tokens, proxyValidator,
                 pubVars, push>>

\* The constructor's owner installs an authorizer, before, during or after.
SetTokenValidator(v) ==
  /\ pc # "gone"
  /\ pendingValidator' = v
  /\ proxyValidator' = IF proxy THEN v ELSE proxyValidator
  /\ UNCHANGED <<hostVars, ring, pc, objVars, proxy, tokens, pubVars, push>>

\* LogosAPIProvider::saveToken; false, and nothing done, without a proxy.
SaveToken(c) ==
  /\ pc # "gone"
  /\ proxy
  /\ tokens' = tokens \cup {c}
  /\ UNCHANGED <<hostVars, ring, pc, objVars, proxy, pendingValidator,
                 proxyValidator, pubVars, push>>

\* Slip: only the business object is taken back.
WithdrawnBusiness ==
  {o \in Objects : o.surface = "business" /\ o.name = objectName}

\* The destructor takes back the names it recorded, on every host.
Withdrawn ==
  {o \in Objects : \/ o.surface = "business" /\ o.name = objectName
                   \/ o.surface = "handshake" /\ o.name = handshakeName}

Destroy ==
  /\ pc \in {"idle", "done"}
  /\ published' = [t \in Transports |->
                     IF t \in hosts THEN published[t] \ Withdrawn
                                    ELSE published[t]]
  /\ proxy' = FALSE
  /\ tokens' = {}
  /\ pc' = "gone"
  /\ UNCHANGED <<hostVars, ring, objVars, pendingValidator, proxyValidator,
                 handshakeName, objectName, push>>
-----------------------------------------------------------------------------
Up(surface) == \E t \in Transports, n \in Names :
                 [surface |-> surface, name |-> n] \in published[t]

\* The thread serves in its event loop and while the initializer is blocked.
Serving == pc \in {"blocked", "done"}

\* A caller asks capability_module for a token of this module.
RequestModule(c) ==
  /\ push[c] = "none"
  /\ push' = [push EXCEPT ![c] = "seek"]
  /\ UNCHANGED <<hostVars, ring, pc, objVars, proxyVars, pubVars>>

\* capability_module finds a surface to deliver to: the handshake one if it is
\* there and has not turned the push down, else the business object.
FindSurface(s) ==
  /\ \/ /\ push[s] = "seek"
        /\ Up("handshake")
        /\ push' = [push EXCEPT ![s] = "handshake"]
     \/ /\ push[s] = "refused" \/ (push[s] = "seek" /\ ~Up("handshake"))
        /\ Up("business")
        /\ push' = [push EXCEPT ![s] = "business"]
  /\ UNCHANGED <<hostVars, ring, pc, objVars, proxyVars, pubVars>>

\* ModuleProxy::informModuleToken accepts the push from the holder of the
\* host's token, and asks the provider object, which refuses what it has no
\* LogosAPI to keep in.
Trusted == ring = "host" /\ wired

ServePush(s) ==
  /\ Serving
  /\ push[s] \in Surfaces
  /\ \/ /\ Trusted
        /\ push' = [push EXCEPT ![s] = "delivered"]
        /\ tokens' = tokens \cup {s}
     \/ /\ ~Trusted
        /\ push' = [push EXCEPT ![s] = IF @ = "handshake" THEN "refused"
                                                          ELSE "failed"]
        /\ UNCHANGED tokens
  /\ UNCHANGED <<hostVars, ring, pc, objVars, proxy, pendingValidator,
                 proxyValidator, pubVars>>

\* capability_module's deadline.
GiveUp(s) ==
  /\ push[s] \in {"seek", "refused", "handshake", "business"}
  /\ push' = [push EXCEPT ![s] = "failed"]
  /\ UNCHANGED <<hostVars, ring, pc, objVars, proxyVars, pubVars>>
-----------------------------------------------------------------------------
Registration ==
  \/ PublishHandshake
  \/ InitAnswered
  \/ InitReturns
  \/ PublishProvider

Next ==
  \/ \E n \in Names : RegisterObject(n)
  \/ Registration
  \/ InitWires
  \/ InitCallsOut
  \/ \E v \in Validators : SetTokenValidator(v)
  \/ \E c \in Callers : SaveToken(c) \/ RequestModule(c)
  \/ \E s \in Subjects : FindSurface(s) \/ ServePush(s) \/ GiveUp(s)
  \/ Destroy

Spec == Init /\ [][Next]_vars

\* registerObject is straight-line code, capability_module goes on looking for
\* a surface and the event loop serves what has arrived.  Nothing is assumed of
\* the deadline: a registration that needs it to end is the stall the handshake
\* surface is there to prevent.
FairSpec ==
  /\ Spec
  /\ WF_vars(Registration)
  /\ \A s \in Subjects : WF_vars(FindSurface(s)) /\ WF_vars(ServePush(s))
-----------------------------------------------------------------------------
Served == UNION {published[t] : t \in Transports}

\* "Only one registration per provider is allowed": whatever is called again,
\* and from wherever, all transports serve surfaces of one name.
OneRegistration == \A o, p \in Served : o.name = p.name

\* "so no call can slip in unvalidated": what any transport serves consults the
\* last validator installed, whenever it was installed.
NeverUnvalidated == Served # {} => proxyValidator = pendingValidator

\* "so the token a peer delivered early is the one the business object
\* consults": a delivery capability_module was told had succeeded is in the
\* store of the proxy that answers the call.
DeliveredIsKept ==
  pc # "gone" => \A s \in Subjects : push[s] = "delivered" => s \in tokens

\* After the provider is destroyed no transport serves an object of it, however
\* many of its transports had accepted either surface.
NothingLeftBehind == pc = "gone" => Served = {}

\* A push that reaches the handshake surface of a module whose host published
\* its token is turned down only if the ring already held another token, or by
\* a legacy plugin that has not kept its LogosAPI.
WindowAccepts ==
  [][\A s \in Subjects :
       push[s] = "handshake" /\ push'[s] = "refused"
         => ~authToken \/ ring = "foreign" \/ (kind = "adapter" /\ ~wired)]_vars

\* The circle is broken: a registration whose handshake surface is up, whose
\* trust anchor is in place and whose object keeps the LogosAPI before it calls
\* out returns without anyone's deadline expiring.
RegistrationReturns ==
  (pc = "init" /\ wired /\ handshakeName # NoName /\ ring = "host")
    ~> (pc = "done")
=============================================================================
