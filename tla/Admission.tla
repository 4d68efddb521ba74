------------------------------ MODULE Admission ------------------------------
(***************************************************************************)
(* Admitting a non-module consumer (cpp/logos_consumer.cpp).               *)
(*                                                                         *)
(* A host gives a name a token store of its own, mints a credential for    *)
(* it, REGISTERS the credential at capability_module over the host's       *)
(* trusted channel and only then ADOPTS it into the store.  A reload       *)
(* rotates the credential: register, reset the store, adopt.  A            *)
(* co-process of the consumer is handed the credential and adopts it into  *)
(* the ring of its own process.                                            *)
(*                                                                         *)
(* A LogosAPI presents tokens from the store it was bound to when it was   *)
(* constructed: the one of its name, or one its caller chose.  Its clients *)
(* ask capability_module for a token per target whenever the store has     *)
(* none; the answer may arrive after the store was reset.                  *)
(*                                                                         *)
(* Credentials are minted UUIDs.  They are numbered here in the order in   *)
(* which they are minted; only "fresh" and "pushed earlier" use the order. *)
(***************************************************************************)
EXTENDS Integers, FiniteSets

CONSTANTS
  Identities,   \* names a host may admit
  Targets,      \* modules a consumer asks capability_module a token for
  Ambient,      \* TokenManager::instance(), the ring of the host's process
  MaxMinted,    \* bound on the credentials minted
  MaxAsks,      \* bound on the requests for target tokens in flight
  Chosen        \* the explicit stores callers pass: <<name, store>>

ASSUME MaxMintedAssumption == MaxMinted \in Nat
ASSUME AmbientAssumption == Ambient \notin Identities
ASSUME ChosenAssumption == Chosen \subseteq Identities \X (Identities \cup {Ambient})

None       == 0      \* the empty QString
HostAnchor == -1     \* the host's own capability_module token

\* The stores a credential of an identity can be in: the isolated store in the
\* host's image, and the process ring of the identity's co-process.
Stores == {"private", "process"}

Minted == 1..MaxMinted
Value  == Minted \cup {None, HostAnchor}

\* A LogosAPI: its name, the store it was bound to (an identity's, or the
\* ambient ring), and whether its caller gave it that store.
Apis == [name : Identities, store : Identities \cup {Ambient}, given : BOOLEAN]

\* A client's request to capability_module for a token of a target: sent under
\* a credential, then granted, with the answer under way.
Asks == [of : Identities, target : Targets, credential : Minted,
         step : {"sent", "granted"}]

VARIABLES
  minted,      \* credentials minted so far
  hostToken,   \* what the host's ring holds under "capability_module"
  vended,      \* names the ambient ring was handed out under
  isolated,    \* names with a store of their own
  bound,       \* the LogosAPIs constructed in the host's image
  store,       \* store[i][s]: the token under the bootstrap keys
  targetToken, \* targetToken[i][t]: the credential t's token was granted to
  asks,        \* requests for target tokens in flight
  rotated,     \* the credential the store was last reset for
  awaited,     \* the targets whose answers were under way at that reset
  op,          \* the host call in progress for an identity
  pc,          \* how far it has come
  fresh,       \* the credential it minted
  returned,    \* credentials returned to the callers, the live one last
  failed,      \* the last host call for the identity returned a failure
  stdin,       \* credential written to the co-process, not yet adopted
  wire,        \* registrations sent to capability_module, not yet served
  registered,  \* capability_module: m_tokens[identity]
  accepted     \* capability_module: every credential it ever recorded

nameVars  == <<vended, isolated, bound>>
tokenVars == <<targetToken, asks, rotated, awaited>>
storeVars == <<nameVars, store, tokenVars>>
callVars  == <<op, pc, fresh, returned, failed>>
capVars   == <<wire, registered, accepted>>
vars == <<minted, hostToken, storeVars, callVars, stdin, capVars>>

Init ==
  /\ minted = 0
  /\ hostToken \in {None, HostAnchor}
  /\ vended = {}
  /\ isolated = {}
  /\ bound = {}
  /\ store = [i \in Identities |-> [s \in Stores |-> None]]
  /\ targetToken = [i \in Identities |-> [t \in Targets |-> None]]
  /\ asks = {}
  /\ rotated = [i \in Identities |-> None]
  /\ awaited = [i \in Identities |-> {}]
  /\ op = [i \in Identities |-> "none"]
  /\ pc = [i \in Identities |-> "idle"]
  /\ fresh = [i \in Identities |-> None]
  /\ returned = [i \in Identities |-> {}]
  /\ failed = [i \in Identities |-> FALSE]
  /\ stdin = [i \in Identities |-> None]
  /\ wire = [i \in Identities |-> {}]
  /\ registered = [i \in Identities |-> None]
  /\ accepted = [i \in Identities |-> {}]

Oldest(S) == {c \in S : \A d \in S : c <= d}
Newest(S) == {c \in S : \A d \in S : d <= c}
-----------------------------------------------------------------------------
Api(i, s, chosen) == [name |-> i, store |-> s, given |-> chosen]

\* Slip: no store means the ambient ring, as it did before there were others.
ConstructOnAmbientRing(i) ==
  /\ bound' = bound \cup {Api(i, Ambient, FALSE)}
  /\ vended' = IF i \in isolated THEN vended ELSE vended \cup {i}
  /\ UNCHANGED <<minted, hostToken, isolated, store, tokenVars, callVars,
                 stdin, capVars>>

\* A LogosAPI(i) without a store takes the one of its name: the private one, or
\* the ambient ring, which is then handed out under that name.
ConstructApi(i) ==
  /\ IF i \in isolated
     THEN bound' = bound \cup {Api(i, i, FALSE)} /\ vended' = vended
     ELSE bound' = bound \cup {Api(i, Ambient, FALSE)} /\ vended' = vended \cup {i}
  /\ UNCHANGED <<minted, hostToken, isolated, store, tokenVars, callVars,
                 stdin, capVars>>

\* An explicit store wins, whosever it is; nothing is recorded under the name.
ConstructWithStore(i, s) ==
  /\ s \in isolated \cup {Ambient}
  /\ bound' = bound \cup {Api(i, s, TRUE)}
  /\ UNCHANGED <<minted, hostToken, vended, isolated, store, tokenVars, callVars,
                 stdin, capVars>>

\* LogosAPI::forIdentity isolates the name and binds a LogosAPI to its store, or
\* refuses (nullptr, nothing changed) when the ambient ring was handed out under
\* the name.
CanIsolate(i) == i \notin vended

Isolate(i) ==
  /\ CanIsolate(i)
  /\ isolated' = isolated \cup {i}
  /\ bound' = bound \cup {Api(i, i, FALSE)}

\* forIdentity on its own: half an identity, a store and no credential.
ForIdentity(i) ==
  /\ Isolate(i)
  /\ UNCHANGED <<minted, hostToken, vended, store, tokenVars, callVars, stdin,
                 capVars>>

\* Slip: one credential per process instead of one per call.
MintOnce(i, call) ==
  /\ pc[i] = "idle"
  /\ minted < MaxMinted
  /\ minted' = minted + 1
  /\ fresh' = [fresh EXCEPT ![i] = 1]
  /\ op' = [op EXCEPT ![i] = call]
  /\ pc' = [pc EXCEPT ![i] = "register"]

\* mintCredential and the start of a host call that will register it.
Mint(i, call) ==
  /\ pc[i] = "idle"
  /\ minted < MaxMinted
  /\ minted' = minted + 1
  /\ fresh' = [fresh EXCEPT ![i] = minted + 1]
  /\ op' = [op EXCEPT ![i] = call]
  /\ pc' = [pc EXCEPT ![i] = "register"]

AdmitConsumer(i) ==
  /\ Isolate(i)
  /\ Mint(i, "admit")
  /\ UNCHANGED <<hostToken, vended, store, tokenVars, returned, failed, stdin,
                 capVars>>

\* Refused for a name that was never admitted.
ReissueConsumerCredential(i) ==
  /\ i \in isolated
  /\ Mint(i, "reissue")
  /\ UNCHANGED <<hostToken, storeVars, returned, failed, stdin, capVars>>

\* The call returns without a credential; an admission also deletes the
\* LogosAPI it built.  What the store held stays.
Fail(i) ==
  /\ pc' = [pc EXCEPT ![i] = "idle"]
  /\ op' = [op EXCEPT ![i] = "none"]
  /\ failed' = [failed EXCEPT ![i] = TRUE]
  /\ UNCHANGED <<minted, hostToken, storeVars, fresh, returned, stdin, capVars>>

\* registerAtCapability: the host that holds no capability_module token is not
\* the trusted channel and sends nothing.
HostNotTrusted(i) ==
  /\ pc[i] = "register"
  /\ hostToken = None
  /\ Fail(i)

\* Slip: the credential is adopted before it is registered.
AdoptBeforeRegister(i) ==
  /\ pc[i] = "register"
  /\ hostToken # None
  /\ store' = [store EXCEPT ![i]["private"] = fresh[i]]
  /\ wire' = [wire EXCEPT ![i] = @ \cup {fresh[i]}]
  /\ pc' = [pc EXCEPT ![i] = "wait"]
  /\ UNCHANGED <<minted, hostToken, nameVars, tokenVars, op, fresh,
                 returned, failed, stdin, registered, accepted>>

\* Slip: the arguments of informModuleToken are swapped.
RegisterHostToken(i) ==
  /\ pc[i] = "register"
  /\ hostToken # None
  /\ wire' = [wire EXCEPT ![i] = @ \cup {hostToken}]
  /\ pc' = [pc EXCEPT ![i] = "wait"]
  /\ UNCHANGED <<minted, hostToken, storeVars, op, fresh, returned, failed,
                 stdin, registered, accepted>>

RegisterAtCapability(i) ==
  /\ pc[i] = "register"
  /\ hostToken # None
  /\ wire' = [wire EXCEPT ![i] = @ \cup {fresh[i]}]
  /\ pc' = [pc EXCEPT ![i] = "wait"]
  /\ UNCHANGED <<minted, hostToken, storeVars, op, fresh, returned, failed,
                 stdin, registered, accepted>>

\* informModuleToken returned true.
Registered(i) ==
  /\ pc[i] = "wait"
  /\ fresh[i] \in accepted[i]
  /\ pc' = [pc EXCEPT ![i] = IF op[i] = "admit" THEN "adopt" ELSE "reset"]
  /\ UNCHANGED <<minted, hostToken, storeVars, op, fresh, returned, failed,
                 stdin, capVars>>

\* Slip: the result of informModuleToken is ignored.
NotRegisteredIgnored(i) ==
  /\ pc[i] = "wait"
  /\ pc' = [pc EXCEPT ![i] = "adopt"]
  /\ UNCHANGED <<minted, hostToken, storeVars, op, fresh, returned, failed,
                 stdin, capVars>>

\* Slip: the push has no deadline; only an answer ends it.
NotRegisteredNoDeadline(i) ==
  /\ pc[i] = "wait"
  /\ fresh[i] \notin accepted[i] \cup wire[i]
  /\ Fail(i)

\* informModuleToken returned false: it was refused, or the answer did not come
\* in time, whatever became or will become of the request.
NotRegistered(i) == pc[i] = "wait" /\ Fail(i)

\* TokenManager::adoptCredentialFor refuses a name that is not isolated and the
\* host's anchor.
Adoptable(i, c) == i \in isolated /\ c # HostAnchor

AdoptCredentialFor(i) ==
  /\ pc[i] = "adopt"
  /\ Adoptable(i, fresh[i])
  /\ store' = [store EXCEPT ![i]["private"] = fresh[i]]
  /\ returned' = [returned EXCEPT ![i] = @ \cup {fresh[i]}]
  /\ failed' = [failed EXCEPT ![i] = FALSE]
  /\ pc' = [pc EXCEPT ![i] = "idle"]
  /\ op' = [op EXCEPT ![i] = "none"]
  /\ UNCHANGED <<minted, hostToken, nameVars, tokenVars, fresh,
                 stdin, capVars>>

\* The history of a reset: what it was for, and which answers had left
\* capability_module and not arrived.
NoteReset(i) ==
  /\ rotated' = [rotated EXCEPT ![i] = fresh[i]]
  /\ awaited' = [awaited EXCEPT ![i] =
                   {q.target : q \in {r \in asks : r.of = i /\ r.step = "granted"}}]

\* Slip: the rotation resets the credential only.
ResetCredentialOnly(i) ==
  /\ pc[i] = "reset"
  /\ store' = [store EXCEPT ![i]["private"] = None]
  /\ NoteReset(i)
  /\ pc' = [pc EXCEPT ![i] = "adopt"]
  /\ UNCHANGED <<minted, hostToken, nameVars, targetToken, asks, op, fresh,
                 returned, failed, stdin, capVars>>

ResetIdentity(i) ==
  /\ pc[i] = "reset"
  /\ store' = [store EXCEPT ![i]["private"] = None]
  /\ targetToken' = [targetToken EXCEPT ![i] = [t \in Targets |-> None]]
  /\ NoteReset(i)
  /\ pc' = [pc EXCEPT ![i] = "adopt"]
  /\ UNCHANGED <<minted, hostToken, nameVars, asks, op, fresh, returned, failed,
                 stdin, capVars>>
-----------------------------------------------------------------------------
\* The parent spawns a co-process and writes the last credential it was given
\* to its stdin; a new process starts with an empty ring.
SpawnCoProcess(i) ==
  /\ \E c \in Newest(returned[i]) : stdin' = [stdin EXCEPT ![i] = c]
  /\ store' = [store EXCEPT ![i]["process"] = None]
  /\ UNCHANGED <<minted, hostToken, nameVars, tokenVars, callVars,
                 capVars>>

\* What adoptConsumerCredential may be handed: the co-process reads stdin; a
\* caller in the host's image has the host's anchor at hand too.
Offered(i, s) == ({stdin[i]} \cup (IF s = "private" THEN {HostAnchor} ELSE {})) \ {None}

\* Slip: the verb accepts an isolated store.
AdoptIntoAnyStore(i, s) ==
  /\ \E c \in Offered(i, s) : store' = [store EXCEPT ![i][s] = c]
  /\ stdin' = [stdin EXCEPT ![i] = None]
  /\ UNCHANGED <<minted, hostToken, nameVars, tokenVars, callVars,
                 capVars>>

\* adoptConsumerCredential refuses every store but the process ring.
AdoptConsumerCredential(i, s) ==
  /\ s = "process"
  /\ \E c \in Offered(i, s) : store' = [store EXCEPT ![i][s] = c]
  /\ stdin' = [stdin EXCEPT ![i] = None]
  /\ UNCHANGED <<minted, hostToken, nameVars, tokenVars, callVars,
                 capVars>>

\* A call of a consumer's client finds no token of t in the store and asks
\* capability_module for one, presenting the credential in the store.
RequestModule(i, t) ==
  /\ store[i]["private"] # None
  /\ targetToken[i][t] = None
  /\ Cardinality(asks) < MaxAsks
  /\ asks' = asks \cup {[of |-> i, target |-> t,
                         credential |-> store[i]["private"], step |-> "sent"]}
  /\ UNCHANGED <<minted, hostToken, nameVars, store, targetToken, rotated,
                 awaited, callVars, stdin, capVars>>

\* capability_module grants what is asked with the credential on record.
Grant(q) ==
  /\ q.step = "sent"
  /\ q.credential = registered[q.of]
  /\ asks' = (asks \ {q}) \cup {[q EXCEPT !.step = "granted"]}
  /\ UNCHANGED <<minted, hostToken, nameVars, store, targetToken, rotated,
                 awaited, callVars, stdin, capVars>>

\* The answer arrives, and the client saves the token in the store it captured,
\* whatever has become of the credential it asked with.
SaveToken(q) ==
  /\ q.step = "granted"
  /\ targetToken' = [targetToken EXCEPT ![q.of][q.target] = q.credential]
  /\ asks' = asks \ {q}
  /\ UNCHANGED <<minted, hostToken, nameVars, store, rotated, awaited, callVars,
                 stdin, capVars>>

\* The request is refused, its answer lost, or it waits no longer.
AskFails(q) ==
  /\ asks' = asks \ {q}
  /\ UNCHANGED <<minted, hostToken, nameVars, store, targetToken, rotated,
                 awaited, callVars, stdin, capVars>>

\* The host's own token appears or is removed.
HostTokenChanges ==
  /\ hostToken' \in {None, HostAnchor} \ {hostToken}
  /\ UNCHANGED <<minted, storeVars, callVars, stdin, capVars>>

\* capability_module serves one identity's registrations in the order sent
\* (one connection) and overwrites m_tokens[identity], or turns them down.
Accept(i) ==
  \E c \in Oldest(wire[i]) :
    /\ wire' = [wire EXCEPT ![i] = @ \ {c}]
    /\ registered' = [registered EXCEPT ![i] = c]
    /\ accepted' = [accepted EXCEPT ![i] = @ \cup {c}]
    /\ UNCHANGED <<minted, hostToken, storeVars, callVars, stdin>>

Refuse(i) ==
  \E c \in Oldest(wire[i]) :
    /\ wire' = [wire EXCEPT ![i] = @ \ {c}]
    /\ UNCHANGED <<minted, hostToken, storeVars, callVars, stdin, registered,
                   accepted>>
-----------------------------------------------------------------------------
HostStep(i) ==
  \/ HostNotTrusted(i)
  \/ RegisterAtCapability(i)
  \/ Registered(i)
  \/ NotRegistered(i)
  \/ AdoptCredentialFor(i)
  \/ ResetIdentity(i)

Next ==
  \/ HostTokenChanges
  \/ \E chosen \in Chosen : ConstructWithStore(chosen[1], chosen[2])
  \/ \E q \in asks : Grant(q)
  \/ \E q \in asks : SaveToken(q)
  \/ \E q \in asks : AskFails(q)
  \/ \E i \in Identities :
       \/ ConstructApi(i)
       \/ ForIdentity(i)
       \/ AdmitConsumer(i)
       \/ ReissueConsumerCredential(i)
       \/ HostStep(i)
       \/ SpawnCoProcess(i)
       \/ \E s \in Stores : AdoptConsumerCredential(i, s)
       \/ \E t \in Targets : RequestModule(i, t)
       \/ Accept(i)
       \/ Refuse(i)

Spec == Init /\ [][Next]_vars

\* The host call runs on: it is straight-line code, and the blocking
\* informModuleToken returns false at its deadline at the latest.
FairSpec == Spec /\ \A i \in Identities : WF_vars(HostStep(i))
-----------------------------------------------------------------------------
\* Every variable has its type.
TypeOK ==
  /\ minted \in 0..MaxMinted
  /\ hostToken \in {None, HostAnchor}
  /\ vended \in SUBSET Identities
  /\ isolated \in SUBSET Identities
  /\ bound \in SUBSET Apis
  /\ store \in [Identities -> [Stores -> Value]]
  /\ targetToken \in [Identities -> [Targets -> Minted \cup {None}]]
  /\ asks \in SUBSET Asks
  /\ rotated \in [Identities -> Minted \cup {None}]
  /\ awaited \in [Identities -> SUBSET Targets]
  /\ op \in [Identities -> {"none", "admit", "reissue"}]
  /\ pc \in [Identities -> {"idle", "register", "wait", "reset", "adopt"}]
  /\ fresh \in [Identities -> Minted \cup {None}]
  /\ returned \in [Identities -> SUBSET Minted]
  /\ failed \in [Identities -> BOOLEAN]
  /\ stdin \in [Identities -> Minted \cup {None}]
  /\ wire \in [Identities -> SUBSET Minted]
  /\ registered \in [Identities -> Minted \cup {None}]
  /\ accepted \in [Identities -> SUBSET Minted]

Held(i) == {store[i][s] : s \in Stores} \ {None}

\* logos_consumer.h: "at no instant does the consumer hold a credential
\* capability_module has not already accepted", in either of its processes.
\* In particular the host's own token is never in a consumer's store.
HeldWasAccepted == \A i \in Identities : Held(i) \subseteq accepted[i]

\* A failed admission leaves no credential behind, and a rotation that failed
\* installs none: whatever is held was returned to the caller as a success,
\* also when capability_module accepted a registration whose answer was lost.
HeldWasReturned == \A i \in Identities : Held(i) \subseteq returned[i]

\* No two consumers ever hold the same credential, so a credential names one
\* of them.
CredentialsNameOneConsumer ==
  \A i, j \in Identities : i # j => Held(i) \cap Held(j) = {}

\* After a call that succeeded the consumer presents the credential that is on
\* record, even if earlier calls for it timed out and were served late: a
\* locked-out consumer is one whose last call reported a failure.
NoSilentLockout ==
  \A i \in Identities :
    pc[i] = "idle" /\ ~failed[i] /\ store[i]["private"] # None
      => store[i]["private"] = registered[i]

\* What a LogosAPI has to present at capability_module at this moment.
Presented(a) == IF a.store = Ambient THEN hostToken ELSE store[a.store]["private"]

\* logos_api.h: "an isolated identity is honoured even when the caller passes
\* nothing", and half an identity is worse than none.  Unless its caller chose
\* the store, a LogosAPI with the name of an isolated identity, constructed
\* before or after the isolation, presents nothing but what was handed out for
\* that name: never the host's token, never another consumer's credential.
SpeaksAsItself ==
  \A a \in bound :
    a.name \in isolated /\ ~a.given => Presented(a) \in returned[a.name] \cup {None}

\* The two reasons adoptCredentialFor has to refuse never arise in
\* admitConsumer and reissueConsumerCredential, so no identity is locked out
\* between the reset and the adoption.
AdoptionNeverRefused ==
  \A i \in Identities : pc[i] = "adopt" => Adoptable(i, fresh[i])

\* A rotation drops the per-target tokens of the incarnations before it, and of
\* the requests they still had in flight only those can bring one back that
\* capability_module had answered before the reset: as the registration comes
\* first, none is granted to an old credential once the store is empty.
OnlyAwaitedOutlivesRotation ==
  \A i \in Identities, t \in Targets :
    targetToken[i][t] # None /\ targetToken[i][t] < rotated[i] => t \in awaited[i]

\* A host call for an identity returns, whatever capability_module does.
HostCallReturns ==
  \A i \in Identities : (pc[i] # "idle") ~> (pc[i] = "idle")

Promised == INSTANCE Credentials
              WITH Consumers  <- Identities,
                   Credential <- Minted,
                   Nothing    <- None,
                   onRecord   <- registered,
                   handed     <- returned,
                   held       <- [i \in Identities |-> store[i]["private"]],
                   carried    <- [i \in Identities |-> store[i]["process"]]

\* The calls, their lost and late answers and the co-processes amount to what
\* Credentials promises of each consumer.
ImplementsCredentials == Promised!Spec
=============================================================================
