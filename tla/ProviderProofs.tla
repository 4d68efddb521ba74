--------------------------- MODULE ProviderProofs ---------------------------
(***************************************************************************)
(* What the host serves under a module's name: its registration            *)
(* (Provider), for any transports, names, callers and validators, and the  *)
(* calls that reach a legacy plugin through the adapter (LegacyCall), for  *)
(* any plugin, any calls and integral types of any width.                  *)
(*                                                                         *)
(* The properties of Provider rest on one fact: the proxy exists from the  *)
(* handshake publication to the destructor, so a registration begins only  *)
(* when nothing has been published, and all that is published bears its    *)
(* name.  Those of LegacyCall rest on what a type means before and after   *)
(* an argument is decoded and wrapped: one that is not rejected keeps its  *)
(* value, and the type its method declares if that has a wrapper.          *)
(***************************************************************************)
EXTENDS Provider, LegacyCall, FiniteSetTheorems, SequenceTheorems,
        WellFoundedInduction, TLAPS

\* From the handshake publication to the destructor.
Registered == {"init", "blocked", "publish", "done"}

StageInv ==
  /\ pc \in Registered \cup {"idle", "handshake", "gone"}
  /\ proxy \in BOOLEAN
  /\ proxy = TRUE <=> pc \in Registered
  /\ pc \in Registered \cup {"handshake"} => name \in Names

\* A provider object keeps its LogosAPI before it calls out or returns.
WiredInv ==
  /\ pc \in Registered \cup {"handshake"} => kind \in Kinds
  /\ kind = "provider" /\ pc \in {"blocked", "publish", "done"} => wired = TRUE

\* The trust anchor is in place when the handshake surface is.
RingInv ==
  /\ ring \in {"empty", "host", "foreign"}
  /\ authToken = TRUE /\ pc \in Registered => ring # "empty"

\* What is published is this registration's, and the provider knows it.
PublishedInv ==
  /\ hosts \subseteq Transports
  /\ published \in [Transports -> SUBSET Objects]
  /\ \A t \in Transports : published[t] # {} => t \in hosts /\ pc \in Registered
  /\ \A t \in Transports : \A o \in published[t] :
       /\ o.name = name
       /\ o.surface = "handshake" => handshakeName = name
       /\ o.surface = "business" => objectName = name

ValidatorInv ==
  /\ pc \in Registered => proxyValidator = pendingValidator
  /\ pc \in {"idle", "handshake"} => proxyValidator = NoValidator

PushInv ==
  /\ push \in [Subjects -> {"none", "seek", "handshake", "business", "refused",
                            "delivered", "failed"}]
  /\ pc # "gone" => \A s \in Subjects : push[s] = "delivered" => s \in tokens

IInv ==
  /\ StageInv
  /\ WiredInv
  /\ RingInv
  /\ PublishedInv
  /\ ValidatorInv
  /\ PushInv
-----------------------------------------------------------------------------
LEMMA InitIInv == Init => IInv
  <1> SUFFICES ASSUME Init
               PROVE  IInv
    OBVIOUS
  <1> USE DEF Init, Registered
  <1>1. StageInv
    BY Zenon DEF StageInv
  <1>2. WiredInv /\ RingInv /\ ValidatorInv
    BY Zenon DEF WiredInv, RingInv, ValidatorInv
  <1>3. PublishedInv
    BY DEF PublishedInv
  <1>4. PushInv
    BY DEF PushInv
  <1> QED
    BY <1>1, <1>2, <1>3, <1>4 DEF IInv

\* The steps that leave registerObject, the destructor and its objects alone.
Elsewhere ==
  \/ \E v \in Validators : SetTokenValidator(v)
  \/ \E c \in Callers : SaveToken(c) \/ RequestModule(c)
  \/ \E s \in Subjects : FindSurface(s) \/ ServePush(s) \/ GiveUp(s)

LEMMA ElsewhereStays ==
  ASSUME Elsewhere
  PROVE  UNCHANGED <<hostVars, ring, pc, objVars, proxy, pubVars>>
  BY DEF Elsewhere, SetTokenValidator, SaveToken, RequestModule, FindSurface,
         ServePush, GiveUp, proxyVars, hostVars, objVars, pubVars

LEMMA ElsewhereKeeps ==
  ASSUME StageInv, WiredInv, RingInv, PublishedInv,
         UNCHANGED <<hostVars, ring, pc, objVars, proxy, pubVars>>
  PROVE  StageInv' /\ WiredInv' /\ RingInv' /\ PublishedInv'
  <1> USE ElsewhereStays DEF hostVars, objVars, pubVars
  <1>1. StageInv'
    BY Zenon DEF StageInv
  <1>2. WiredInv'
    BY Zenon DEF WiredInv
  <1>3. RingInv'
    BY Zenon DEF RingInv
  <1>4. PublishedInv'
    BY DEF PublishedInv
  <1> QED
    BY <1>1, <1>2, <1>3, <1>4

\* registerObject goes on, and its object is initialized.
LEMMA KeepsStageInv ==
  ASSUME StageInv, [Next]_vars
  PROVE  StageInv'
  <1> USE DEF StageInv, Registered
  <1>1. ASSUME NEW n \in Names, RegisterObject(n)
        PROVE  StageInv'
    <2>1. proxy = FALSE /\ pc' = "handshake" /\ name' = n /\ UNCHANGED proxy
      BY <1>1, Zenon DEF RegisterObject, proxyVars
    <2> QED
      BY <2>1, Zenon
  <1>2. CASE PublishHandshake \/ PublishProvider
    <2>1. /\ proxy' = TRUE
          /\ pc \in {"handshake", "publish"}
          /\ pc' \in {"init", "done"}
          /\ UNCHANGED name
      BY <1>2, Zenon DEF PublishHandshake, PublishProvider, objVars
    <2> QED
      BY <2>1, Zenon
  <1>3. CASE InitAnswered \/ InitReturns \/ InitWires \/ InitCallsOut
    <2>1. /\ pc \in {"init", "blocked"}
          /\ pc' \in {"init", "blocked", "publish"}
          /\ UNCHANGED <<name, proxy>>
      BY <1>3, Zenon DEF InitAnswered, InitReturns, InitWires, InitCallsOut,
                         InitUnderWay, objVars, proxyVars
    <2> QED
      BY <2>1, Zenon
  <1>4. CASE Elsewhere \/ UNCHANGED vars
    <2>1. UNCHANGED <<pc, name, proxy>>
      BY <1>4, ElsewhereStays DEF vars, objVars, proxyVars
    <2> QED
      BY <2>1, Zenon
  <1>5. CASE Destroy
    BY <1>5, Zenon DEF Destroy
  <1> QED
    BY <1>1, <1>2, <1>3, <1>4, <1>5 DEF Next, Registration, Elsewhere

LEMMA KeepsWiredInv ==
  ASSUME StageInv, WiredInv, [Next]_vars
  PROVE  WiredInv'
  <1> USE DEF WiredInv, Registered
  <1>1. ASSUME NEW n \in Names, RegisterObject(n)
        PROVE  WiredInv'
    BY <1>1, Zenon DEF RegisterObject
  <1>2. CASE PublishHandshake
    BY <1>2, Zenon DEF PublishHandshake, objVars
  <1>3. CASE PublishProvider
    BY <1>3, Zenon DEF PublishProvider, objVars
  <1>4. CASE InitAnswered
    BY <1>4, Zenon DEF InitAnswered, objVars
  <1>5. CASE InitReturns
    BY <1>5, Zenon DEF InitReturns, InitUnderWay, objVars
  <1>6. CASE InitWires
    BY <1>6, Zenon DEF InitWires
  <1>7. CASE InitCallsOut
    BY <1>7, Zenon DEF InitCallsOut, InitUnderWay, objVars
  <1>8. CASE Elsewhere \/ UNCHANGED vars
    <2>1. UNCHANGED <<pc, kind, wired>>
      BY <1>8, ElsewhereStays DEF vars, objVars
    <2> QED
      BY <2>1, Zenon
  <1>9. CASE Destroy
    BY <1>9, Zenon DEF Destroy
  <1> QED
    BY <1>1, <1>2, <1>3, <1>4, <1>5, <1>6, <1>7, <1>8, <1>9
       DEF Next, Registration, Elsewhere
-----------------------------------------------------------------------------
LEMMA KeepsRingInv ==
  ASSUME StageInv, RingInv, [Next]_vars
  PROVE  RingInv'
  <1> USE DEF RingInv, Registered
  <1>1. ASSUME NEW n \in Names, RegisterObject(n)
        PROVE  RingInv'
    BY <1>1, Zenon DEF RegisterObject, hostVars
  <1>2. CASE PublishHandshake
    <2>1. /\ ring' = IF authToken /\ ring = "empty" THEN "host" ELSE ring
          /\ UNCHANGED authToken
      BY <1>2, Zenon DEF PublishHandshake, SeedHandshakeTrustAnchor, hostVars
    <2>2. authToken' = TRUE => ring' # "empty"
      BY <2>1, Zenon
    <2>3. ring' \in {"empty", "host", "foreign"}
      BY <2>1, Zenon
    <2> QED
      BY <2>2, <2>3, Zenon
  <1>3. CASE PublishProvider \/ InitAnswered \/ InitWires \/ InitCallsOut \/ InitReturns
    <2>1. pc \in Registered /\ ring' \in {ring, "host"} /\ UNCHANGED authToken
      BY <1>3, Zenon DEF PublishProvider, InitAnswered, InitWires, InitCallsOut,
                         InitReturns, InitUnderWay, hostVars
    <2> QED
      BY <2>1, Zenon
  <1>4. CASE Elsewhere \/ UNCHANGED vars
    <2>1. UNCHANGED <<authToken, pc, ring>>
      BY <1>4, ElsewhereStays DEF vars, hostVars
    <2> QED
      BY <2>1, Zenon
  <1>5. CASE Destroy
    BY <1>5, Zenon DEF Destroy, hostVars
  <1> QED
    BY <1>1, <1>2, <1>3, <1>4, <1>5 DEF Next, Registration, Elsewhere

LEMMA KeepsPublishedInv ==
  ASSUME StageInv, PublishedInv, [Next]_vars
  PROVE  PublishedInv'
  <1> USE DEF PublishedInv, Registered
  <1>1. ASSUME NEW n \in Names, RegisterObject(n)
        PROVE  PublishedInv'
    <2>1. pc \notin Registered /\ UNCHANGED <<hosts, published>>
      BY <1>1, Zenon DEF RegisterObject, StageInv, hostVars, pubVars
    <2>2. \A t \in Transports : published'[t] = {}
      BY <2>1
    <2> QED
      BY <2>1, <2>2
  <1>2. CASE PublishHandshake
    <2> PICK accepting \in SUBSET hosts :
            /\ Publish("handshake", accepting)
            /\ handshakeName' = IF accepting # {} THEN name ELSE handshakeName
      BY <1>2 DEF PublishHandshake
    <2>1. /\ name \in Names /\ pc' = "init"
          /\ UNCHANGED <<hosts, name, objectName>>
          /\ \A t \in Transports : published[t] = {}
      BY <1>2 DEF PublishHandshake, StageInv, hostVars, objVars
    <2>2. published' = [t \in Transports |->
                         IF t \in accepting
                         THEN {[surface |-> "handshake", name |-> name]} ELSE {}]
      BY <2>1 DEF Publish
    <2>3. [surface |-> "handshake", name |-> name] \in Objects
      BY <2>1 DEF Objects, Surfaces
    <2>4. published' \in [Transports -> SUBSET Objects]
      BY <2>2, <2>3
    <2>5. ASSUME NEW t \in Transports, NEW o \in published'[t]
          PROVE  o.name = name /\ o.surface = "handshake" /\ handshakeName' = name
      BY <2>2
    <2>6. \A t \in Transports : published'[t] # {} => t \in hosts
      BY <2>2
    <2> QED
      BY <2>1, <2>4, <2>5, <2>6
  <1>3. CASE PublishProvider
    <2> PICK accepting \in SUBSET hosts :
            /\ Publish("business", accepting)
            /\ objectName' = IF accepting # {} THEN name ELSE objectName
      BY <1>3 DEF PublishProvider
    <2>1. /\ name \in Names /\ pc = "publish" /\ pc' = "done"
          /\ UNCHANGED <<hosts, name, handshakeName>>
      BY <1>3 DEF PublishProvider, StageInv, hostVars, objVars
    <2> DEFINE object == [surface |-> "business", name |-> name]
    <2>2. published' = [t \in Transports |-> IF t \in accepting
                                             THEN published[t] \cup {object}
                                             ELSE published[t]]
      BY DEF Publish
    <2>3. object \in Objects /\ object.name = name /\ object.surface = "business"
      BY <2>1 DEF Objects, Surfaces
    <2> HIDE DEF object
    <2>4. published' \in [Transports -> SUBSET Objects]
      BY <2>2, <2>3
    <2>5. \A t \in Transports : published'[t] # {} => t \in hosts
      BY <2>2
    <2>6. objectName' = name \/ (accepting = {} /\ objectName' = objectName)
      OBVIOUS
    <2>7. ASSUME NEW t \in Transports, NEW o \in published'[t]
          PROVE  /\ o.name = name
                 /\ o.surface = "handshake" => handshakeName = name
                 /\ o.surface = "business" => objectName' = name
      <3>1. CASE o \in published[t]
        BY <2>6, <3>1
      <3>2. CASE o = object /\ accepting # {}
        BY <2>3, <2>6, <3>2
      <3> QED
        BY <2>2, <3>1, <3>2
    <2> QED
      BY <2>1, <2>4, <2>5, <2>7
  <1>4. CASE InitAnswered \/ InitReturns \/ InitWires \/ InitCallsOut
    <2>1. pc \in Registered /\ pc' \in Registered /\ UNCHANGED <<hosts, name, pubVars>>
      BY <1>4 DEF InitAnswered, InitReturns, InitWires, InitCallsOut, InitUnderWay,
                  objVars, hostVars
    <2> QED
      BY <2>1 DEF pubVars
  <1>5. CASE Elsewhere \/ UNCHANGED vars
    <2>1. UNCHANGED <<hosts, pc, name, pubVars>>
      BY <1>5, ElsewhereStays DEF vars, hostVars, objVars
    <2> QED
      BY <2>1 DEF pubVars
  <1>6. CASE Destroy
    <2>1. ASSUME NEW t \in Transports, t \in hosts, NEW o \in published[t]
          PROVE  o \in Withdrawn
      BY <2>1 DEF Withdrawn, Objects, Surfaces
    <2>2. \A t \in Transports : published'[t] = {}
      BY <1>6, <2>1 DEF Destroy
    <2>3. published' = [t \in Transports |-> {}] /\ UNCHANGED hosts
      BY <1>6, <2>2 DEF Destroy, hostVars
    <2> QED
      BY <2>3
  <1> QED
    BY <1>1, <1>2, <1>3, <1>4, <1>5, <1>6 DEF Next, Registration, Elsewhere
-----------------------------------------------------------------------------
LEMMA KeepsValidatorInv ==
  ASSUME StageInv, ValidatorInv, [Next]_vars
  PROVE  ValidatorInv'
  <1> USE DEF ValidatorInv, Registered
  <1>1. ASSUME NEW n \in Names, RegisterObject(n)
        PROVE  ValidatorInv'
    <2>1. pc = "idle"
      BY <1>1, Zenon DEF RegisterObject, StageInv
    <2> QED
      BY <1>1, <2>1, Zenon DEF RegisterObject, proxyVars
  <1>2. CASE PublishHandshake
    <2>1. proxy = FALSE /\ pc = "handshake"
      BY <1>2, Zenon DEF PublishHandshake, StageInv
    <2> QED
      BY <1>2, <2>1, Zenon DEF PublishHandshake, ApplyPending
  <1>3. CASE PublishProvider
    BY <1>3, Zenon DEF PublishProvider, ApplyPending
  <1>4. CASE InitAnswered \/ InitReturns \/ InitWires \/ InitCallsOut
    <2>1. /\ pc \in Registered /\ pc' \in Registered
          /\ UNCHANGED <<proxyValidator, pendingValidator>>
      BY <1>4, Zenon DEF InitAnswered, InitReturns, InitWires, InitCallsOut,
                         InitUnderWay, proxyVars
    <2> QED
      BY <2>1, Zenon
  <1>5. ASSUME NEW v \in Validators, SetTokenValidator(v)
        PROVE  ValidatorInv'
    <2>1. UNCHANGED pc
      BY <1>5 DEF SetTokenValidator
    <2>2. CASE proxy = TRUE
      BY <1>5, <2>1, <2>2, Zenon DEF SetTokenValidator, StageInv
    <2>3. CASE proxy = FALSE
      BY <1>5, <2>1, <2>3, Zenon DEF SetTokenValidator, StageInv
    <2> QED
      BY <2>2, <2>3, Zenon DEF StageInv
  <1>6. ASSUME \/ \E c \in Callers : SaveToken(c) \/ RequestModule(c)
               \/ \E s \in Subjects : FindSurface(s) \/ ServePush(s) \/ GiveUp(s)
               \/ UNCHANGED vars
        PROVE  ValidatorInv'
    <2>1. UNCHANGED <<pc, proxyValidator, pendingValidator>>
      BY <1>6 DEF SaveToken, RequestModule, FindSurface, ServePush, GiveUp, proxyVars,
                  vars
    <2> QED
      BY <2>1, Zenon
  <1>7. CASE Destroy
    BY <1>7, Zenon DEF Destroy
  <1> QED
    BY <1>1, <1>2, <1>3, <1>4, <1>5, <1>6, <1>7 DEF Next, Registration

LEMMA KeepsPushInv ==
  ASSUME StageInv, PushInv, [Next]_vars
  PROVE  PushInv'
  <1> USE DEF PushInv
  <1>1. ASSUME NEW n \in Names, RegisterObject(n)
        PROVE  PushInv'
    BY <1>1 DEF RegisterObject, proxyVars
  <1>2. CASE PublishHandshake \/ PublishProvider
    BY <1>2 DEF PublishHandshake, PublishProvider
  <1>3. CASE InitAnswered \/ InitReturns \/ InitWires
    BY <1>3 DEF InitAnswered, InitReturns, InitWires, InitUnderWay, proxyVars
  <1>4. CASE InitCallsOut
    BY <1>4 DEF InitCallsOut, InitUnderWay, proxyVars, Subjects
  <1>5. ASSUME NEW v \in Validators, SetTokenValidator(v)
        PROVE  PushInv'
    BY <1>5 DEF SetTokenValidator
  <1>6. ASSUME NEW c \in Callers, SaveToken(c) \/ RequestModule(c)
        PROVE  PushInv'
    BY <1>6 DEF SaveToken, RequestModule, proxyVars, Subjects
  <1>7. ASSUME NEW s \in Subjects, FindSurface(s) \/ GiveUp(s)
        PROVE  PushInv'
    BY <1>7 DEF FindSurface, GiveUp, proxyVars
  <1>8. ASSUME NEW s \in Subjects, ServePush(s)
        PROVE  PushInv'
    BY <1>8 DEF ServePush, Surfaces
  <1>9. CASE Destroy
    BY <1>9 DEF Destroy
  <1>10. CASE UNCHANGED vars
    BY <1>10 DEF vars, proxyVars
  <1> QED
    BY <1>1, <1>2, <1>3, <1>4, <1>5, <1>6, <1>7, <1>8, <1>9, <1>10
       DEF Next, Registration

LEMMA NextIInv == IInv /\ [Next]_vars => IInv'
  BY KeepsStageInv, KeepsWiredInv, KeepsRingInv, KeepsPublishedInv,
     KeepsValidatorInv, KeepsPushInv DEF IInv

THEOREM InvariantHolds == Spec => []IInv
  BY InitIInv, NextIInv, PTL DEF Spec
-----------------------------------------------------------------------------
\* Whatever registerObject is called with, from wherever and how often, the
\* transports serve surfaces of one name.
THEOREM OneNameIsServed == Spec => []OneRegistration
  <1>1. IInv => OneRegistration
    BY DEF IInv, PublishedInv, OneRegistration, Served
  <1> QED
    BY <1>1, InvariantHolds, PTL

\* A validator may be installed and replaced at any time: no surface that is up
\* consults an earlier one, or none.
THEOREM ServedIsValidated == Spec => []NeverUnvalidated
  <1>1. IInv => NeverUnvalidated
    BY DEF IInv, PublishedInv, ValidatorInv, NeverUnvalidated, Served
  <1> QED
    BY <1>1, InvariantHolds, PTL

\* The proxy that took an early delivery is the one that answers the calls.
THEOREM EarlyTokensAreKept == Spec => []DeliveredIsKept
  <1>1. IInv => DeliveredIsKept
    BY DEF IInv, PushInv, DeliveredIsKept
  <1> QED
    BY <1>1, InvariantHolds, PTL

\* The destructor takes back all there is, on any number of transports.
THEOREM AllIsWithdrawn == Spec => []NothingLeftBehind
  <1>1. IInv => NothingLeftBehind
    BY DEF IInv, PublishedInv, NothingLeftBehind, Served, Registered
  <1> QED
    BY <1>1, InvariantHolds, PTL

\* The handshake surface turns a push down for one of two reasons only.
THEOREM WindowIsOpen == Spec => WindowAccepts
  <1>1. IInv /\ [Next]_vars =>
          [\A s \in Subjects :
             push[s] = "handshake" /\ push'[s] = "refused"
               => ~authToken \/ ring = "foreign" \/ (kind = "adapter" /\ ~wired)]_vars
    <2> SUFFICES ASSUME IInv, Next, NEW s \in Subjects,
                        push[s] = "handshake", push'[s] = "refused",
                        authToken = TRUE, ring # "foreign"
                 PROVE  kind = "adapter" /\ wired # TRUE
      BY Zenon
    <2>1. Serving /\ ~Trusted
      BY DEF Next, Registration, RegisterObject, PublishHandshake, InitAnswered,
             InitReturns, PublishProvider, InitWires, InitCallsOut, SetTokenValidator,
             SaveToken, RequestModule, FindSurface, ServePush, GiveUp, Destroy, IInv,
             PushInv
    <2>2. pc \in {"blocked", "done"}
      BY <2>1 DEF Serving
    <2>3. ring = "host"
      BY <2>2 DEF IInv, RingInv, Registered
    <2>4. wired # TRUE
      BY <2>1, <2>3, Zenon DEF Trusted
    <2>5. kind \in Kinds /\ kind # "provider"
      BY <2>2, <2>4, Zenon DEF IInv, WiredInv, Registered
    <2> QED
      BY <2>4, <2>5 DEF Kinds
  <1> QED
    BY <1>1, InvariantHolds, PTL DEF Spec, WindowAccepts
-----------------------------------------------------------------------------
(***************************************************************************)
(* The circle of a registration whose initializer waits for                *)
(* capability_module, which waits for a surface of this module, is broken. *)
(* RegistrationReturns is a liveness property and stays with TLC; what it  *)
(* rests on is that at every moment one of the two can go on without       *)
(* anyone's deadline.                                                      *)
(***************************************************************************)

\* Once the handshake's name is recorded a transport serves the surface, until
\* the destructor.
WindowUpInv ==
  /\ pc \in {"idle", "handshake"} => handshakeName = NoName
  /\ pc \in Registered /\ handshakeName # NoName => Up("handshake")

\* What an initializer waits for is not turned down by its own module.
RequestInv ==
  pc = "blocked" => /\ push[Self] # "none"
                    /\ Trusted => push[Self] # "refused"

LEMMA KeepsWindowUpInv ==
  ASSUME StageInv, PublishedInv, WindowUpInv, [Next]_vars
  PROVE  WindowUpInv'
  <1>1. ASSUME NEW n \in Names, RegisterObject(n)
        PROVE  WindowUpInv'
    <2>1. pc = "idle"
      BY <1>1, Zenon DEF RegisterObject, StageInv, Registered
    <2> QED
      BY <1>1, <2>1 DEF RegisterObject, WindowUpInv, Registered, pubVars
  <1>2. CASE PublishHandshake
    <2>1. PICK accepting \in SUBSET hosts :
            /\ Publish("handshake", accepting)
            /\ handshakeName' = IF accepting # {} THEN name ELSE handshakeName
      BY <1>2 DEF PublishHandshake
    <2>2. pc = "handshake" /\ pc' = "init" /\ handshakeName = NoName /\ name \in Names
      BY <1>2 DEF PublishHandshake, WindowUpInv, StageInv
    <2>3. CASE accepting = {}
      BY <2>1, <2>2, <2>3 DEF WindowUpInv
    <2>4. CASE accepting # {}
      <3>1. PICK t \in accepting : TRUE
        BY <2>4
      <3>2. t \in Transports
        BY <3>1 DEF PublishedInv
      <3>3. [surface |-> "handshake", name |-> name] \in published'[t]
        BY <2>1, <3>1, <3>2 DEF Publish
      <3>4. Up("handshake")'
        BY <2>2, <3>2, <3>3 DEF Up
      <3> QED
        BY <2>2, <3>4 DEF WindowUpInv
    <2> QED
      BY <2>3, <2>4
  <1>3. CASE PublishProvider
    <2>1. PICK accepting \in SUBSET hosts : Publish("business", accepting)
      BY <1>3 DEF PublishProvider
    <2>2. \A t \in Transports : published[t] \subseteq published'[t]
      BY <2>1 DEF Publish
    <2>3. Up("handshake") => Up("handshake")'
      BY <2>2 DEF Up
    <2>4. pc = "publish" /\ pc' = "done" /\ UNCHANGED handshakeName
      BY <1>3 DEF PublishProvider
    <2> QED
      BY <2>3, <2>4 DEF WindowUpInv, Registered
  <1>4. CASE InitAnswered \/ InitReturns \/ InitWires \/ InitCallsOut
    <2>1. /\ pc \in Registered /\ pc' \in Registered /\ pc' \notin {"idle", "handshake"}
          /\ UNCHANGED <<published, handshakeName>>
      BY <1>4 DEF InitAnswered, InitReturns, InitWires, InitCallsOut, InitUnderWay,
                  Registered, pubVars
    <2> QED
      BY <2>1 DEF WindowUpInv, Up
  <1>5. CASE Destroy
    BY <1>5 DEF Destroy, WindowUpInv, Registered
  <1>6. CASE Elsewhere \/ UNCHANGED vars
    <2>1. UNCHANGED <<pc, published, handshakeName>>
      BY <1>6, ElsewhereStays DEF vars, pubVars
    <2> QED
      BY <2>1 DEF WindowUpInv, Up
  <1> QED
    BY <1>1, <1>2, <1>3, <1>4, <1>5, <1>6 DEF Next, Registration, Elsewhere

LEMMA KeepsRequestInv ==
  ASSUME PushInv, RequestInv, [Next]_vars
  PROVE  RequestInv'
  <1> SUFFICES ASSUME pc' = "blocked"
               PROVE  /\ push'[Self] # "none"
                      /\ Trusted' => push'[Self] # "refused"
    BY DEF RequestInv
  <1>0. Self \in Subjects /\ push \in [Subjects -> {"none", "seek", "handshake", "business",
                                                   "refused", "delivered", "failed"}]
    BY DEF PushInv, Subjects
  <1>1. CASE InitCallsOut
    BY <1>0, <1>1 DEF InitCallsOut
  <1>2. CASE pc = "blocked"
    <2>1. push[Self] # "none" /\ (Trusted => push[Self] # "refused")
      BY <1>2 DEF RequestInv
    <2>2. CASE Elsewhere
      <3>1. Trusted' <=> Trusted
        BY <2>2, ElsewhereStays DEF Trusted, objVars
      <3>2. ASSUME NEW s \in Subjects, ServePush(s)
            PROVE  push'[Self] # "none" /\ (Trusted => push'[Self] # "refused")
        BY <1>0, <2>1, <3>2 DEF ServePush, Surfaces
      <3>3. ASSUME NEW s \in Subjects, FindSurface(s) \/ GiveUp(s)
            PROVE  push'[Self] # "none" /\ (Trusted => push'[Self] # "refused")
        BY <1>0, <2>1, <3>3 DEF FindSurface, GiveUp
      <3>4. ASSUME NEW c \in Callers, SaveToken(c) \/ RequestModule(c)
            PROVE  push'[Self] # "none" /\ (Trusted => push'[Self] # "refused")
        BY <1>0, <2>1, <3>4 DEF SaveToken, RequestModule, Subjects
      <3>5. ASSUME NEW v \in Validators, SetTokenValidator(v)
            PROVE  push'[Self] # "none" /\ (Trusted => push'[Self] # "refused")
        BY <2>1, <3>5 DEF SetTokenValidator
      <3> QED
        BY <2>2, <3>1, <3>2, <3>3, <3>4, <3>5 DEF Elsewhere
    <2>3. CASE UNCHANGED vars
      BY <2>1, <2>3 DEF vars, Trusted, objVars
    <2> QED
      BY <1>2, <2>2, <2>3 DEF Next, Registration, Elsewhere, RegisterObject,
         PublishHandshake, InitAnswered, InitReturns, PublishProvider, InitWires,
         InitCallsOut, InitUnderWay, Destroy
  <1>3. CASE pc # "blocked" /\ ~InitCallsOut
    <2>1. ~Elsewhere /\ ~UNCHANGED vars
      BY <1>3, ElsewhereStays DEF vars
    <2> QED
      BY <1>3, <2>1 DEF Next, Registration, Elsewhere, RegisterObject, PublishHandshake,
         InitAnswered, InitReturns, PublishProvider, InitWires, Destroy
  <1> QED
    BY <1>1, <1>2, <1>3

\* The registering thread, or capability_module's push of the token it waits
\* for, can take a step other than to give up.
SomeoneCanGoOn ==
  \/ InitUnderWay
  \/ pc = "publish"
  \/ pc = "blocked" /\ \/ push[Self] \in {"delivered", "failed"}
                       \/ push[Self] \in Surfaces /\ Serving
                       \/ push[Self] = "seek" /\ Up("handshake")

NoStandstill ==
  pc \in {"init", "blocked", "publish"} /\ handshakeName # NoName /\ Trusted
    => SomeoneCanGoOn

\* A registration whose handshake surface is up and whose module takes the push
\* never waits in a circle, for any transports, names and callers.
THEOREM CircleIsBroken == Spec => []NoStandstill
  <1>1. Init => WindowUpInv /\ RequestInv
    BY DEF Init, WindowUpInv, RequestInv, Registered
  <1>2. IInv => StageInv /\ PublishedInv /\ PushInv
    BY DEF IInv
  <1>3. PushInv /\ WindowUpInv /\ RequestInv => NoStandstill
    <2> SUFFICES ASSUME PushInv, WindowUpInv, RequestInv, Trusted,
                        pc \in {"init", "blocked", "publish"}, handshakeName # NoName
                 PROVE  SomeoneCanGoOn
      BY DEF NoStandstill
    <2>1. CASE pc = "init"
      BY <2>1 DEF SomeoneCanGoOn, InitUnderWay, Trusted
    <2>2. CASE pc = "blocked"
      <3>1. push[Self] \in {"seek", "handshake", "business", "delivered", "failed"}
        BY <2>2 DEF PushInv, RequestInv, Subjects
      <3>2. Up("handshake") /\ Serving
        BY <2>2 DEF WindowUpInv, Registered, Serving
      <3> QED
        BY <2>2, <3>1, <3>2 DEF SomeoneCanGoOn, Surfaces
    <2> QED
      BY <2>1, <2>2 DEF SomeoneCanGoOn
  <1> QED
    BY <1>1, <1>2, <1>3, KeepsWindowUpInv, KeepsRequestInv, InvariantHolds, PTL DEF Spec
-----------------------------------------------------------------------------
\* Where callMethod can be.
Stages == {"look up", "decode", "invoke", "done"}

\* The lookup has found a method of the plugin.
CalleeInv ==
  /\ plugin \in BoundedSeq(Methods, MaxMethods)
  /\ request \in Requests
  /\ stage \in Stages
  /\ stage = "look up" => callee = NoBody
  /\ callee # NoBody => callee \in Found
  /\ stage \in {"decode", "invoke"} => callee # NoBody

\* What has become of the arguments' types.
TypesInv ==
  /\ stage \in {"look up", "decode"} =>
       types = [n \in DOMAIN request.args |-> TypeOf(request.args[n])]
  /\ stage = "invoke" =>
       /\ ~Rejected
       /\ types = [n \in DOMAIN request.args |->
                     Decoded(request.args[n], plugin[callee].params[n])]

\* The inductive invariant: a body has run only if the method found is invocable.
AdapterInv ==
  /\ CalleeInv
  /\ TypesInv
  /\ stage # "done" => ran = NoBody
  /\ ran # NoBody => callee # NoBody /\ Invocable
  /\ DecodedIsRun
  /\ BodySeesWhatWasSent
-----------------------------------------------------------------------------
\* The order of the natural numbers, as a relation.
Less == {p \in Nat \X Nat : p[1] < p[2]}

\* They have no infinite descent.
LEMMA LessIsWellFounded == IsWellFoundedOn(Less, Nat)
  <1>1. Less = OpToRel(<, Nat)
    BY Zenon DEF OpToRel, Less
  <1> QED
    BY <1>1, NatLessThanWellFounded, Zenon

\* The smallest of some natural numbers is one of them.
LEMMA FirstIsOne ==
  ASSUME NEW S \in SUBSET Nat, S # {}
  PROVE  First(S) \in S
  <1>1. \E m \in S : \A k \in S : ~ (<<k, m>> \in Less)
    BY LessIsWellFounded, WFMin
  <1>2. PICK m \in S : \A k \in S : ~ (<<k, m>> \in Less)
    BY <1>1
  <1>3. ASSUME NEW k \in S
        PROVE  m <= k
    <2>1. k \in Nat /\ m \in Nat
      OBVIOUS
    <2>2. k < m => <<k, m>> \in Less
      BY <2>1 DEF Less
    <2> QED
      BY <1>2, <2>1, <2>2
  <1> QED
    BY <1>3 DEF First

\* Numbers that are closer than w and leave the same remainder by w are equal.
LEMMA SameRemainder ==
  ASSUME NEW w \in Nat \ {0}, NEW v \in Int, NEW n \in Int,
         v - n < w, n - v < w, (v - n) % w = 0
  PROVE  v = n
  <1> DEFINE d == v - n
             q == d \div w
  <1>1. d \in Int /\ d < w /\ -w < d /\ d % w = 0
    OBVIOUS
  <1>2. q \in Int /\ d = w * q + (d % w)
    BY <1>1
  <1>3. d = w * q
    BY <1>1, <1>2
  <1>4. ~(q >= 1)
    <2> SUFFICES ASSUME q >= 1
                 PROVE  FALSE
      OBVIOUS
    <2>1. w * q >= w
      BY <1>2
    <2> QED
      BY <1>1, <1>3, <2>1
  <1>5. ~(q <= -1)
    <2> SUFFICES ASSUME q <= -1
                 PROVE  FALSE
      OBVIOUS
    <2>1. w * q <= -w
      BY <1>2
    <2> QED
      BY <1>1, <1>3, <2>1
  <1>6. q = 0
    BY <1>2, <1>4, <1>5
  <1>7. d = 0
    BY <1>3, <1>6
  <1> QED
    BY <1>7

\* A cast between the types of a method that takes its caller's number returns
\* that number: nothing overflows.
LEMMA IntegersAreKept ==
  ASSUME NEW a \in Arguments, NEW type \in DOMAIN IntRange, InRange(a, type)
  PROVE  Cast(a, type) = a
  <1> DEFINE n == a.half \div 2
             R == IntRange[type]
             w == Cardinality(R)
             v == CHOOSE u \in R : (u - n) % w = 0
  <1>1. PICK lo \in Int, hi \in Int : R = lo..hi /\ lo <= hi
    <2>1. type \in {"int", "uint", "qlonglong", "qulonglong"}
      BY DEF IntRange
    <2>2. /\ IntRange["int"] = (-IntHalf)..(IntHalf - 1)
          /\ IntRange["uint"] = 0..(2 * IntHalf - 1)
          /\ IntRange["qlonglong"] = (-LongHalf)..(LongHalf - 1)
          /\ IntRange["qulonglong"] = 0..(2 * LongHalf - 1)
      BY DEF IntRange
    <2>3. IntHalf \in Nat \ {0} /\ LongHalf \in Nat \ {0}
      BY WidthsAssumption
    <2> QED
      BY <2>1, <2>2, <2>3
  <1>2. w = hi - lo + 1 /\ w \in Nat \ {0}
    BY <1>1, FS_Interval
  <1>3. a.half \in Int /\ a.half % 2 = 0 /\ a.kind = "number" /\ n \in R /\ n \in Int
    BY <1>1 DEF InRange, Arguments
  <1> HIDE DEF n, w
  <1>4. (n - n) % w = 0
    BY <1>2, <1>3
  <1>5. v \in R /\ (v - n) % w = 0
    BY <1>3, <1>4
  <1> HIDE DEF v
  <1>6. v = n
    <2>1. v \in Int /\ v - n < w /\ n - v < w
      BY <1>1, <1>2, <1>3, <1>5
    <2> QED
      BY <1>2, <1>3, <1>5, <2>1, SameRemainder
  <1>7. 2 * n = a.half
    BY <1>3 DEF n
  <1>8. Cast(a, type) = Number(2 * v)
    <2>1. type # "QString" /\ type # "double"
      BY DEF IntRange
    <2> QED
      BY <2>1 DEF Cast, v, n, w
  <1>9. a = [kind |-> a.kind, half |-> a.half]
    BY DEF Arguments
  <1> QED
    BY <1>3, <1>6, <1>7, <1>8, <1>9 DEF Number

\* The type of an argument: an integral one only if it holds the number.
LEMMA ArrivingTypes ==
  ASSUME NEW a
  PROVE  /\ TypeOf(a) \in {"qlonglong", "qulonglong", "double", "QString", "bool",
                           "QVariantList"}
         /\ TypeOf(a) = "qlonglong" => InRange(a, "qlonglong")
         /\ TypeOf(a) = "qulonglong" => InRange(a, "qulonglong")
  <1>1. CASE InRange(a, "qlonglong")
    BY <1>1 DEF TypeOf, InRange
  <1>2. CASE ~InRange(a, "qlonglong") /\ InRange(a, "qulonglong")
    BY <1>2 DEF TypeOf, InRange
  <1>3. CASE ~InRange(a, "qlonglong") /\ ~InRange(a, "qulonglong")
    BY <1>3 DEF TypeOf
  <1> QED
    BY <1>1, <1>2, <1>3

\* Decoding and wrapping lose nothing of an argument that was not rejected, but
\* for the two exceptions BodySeesWhatWasSent names.
LEMMA ArgumentsAreKept ==
  ASSUME NEW a \in Arguments, NEW declared \in Types,
         Verdict(a, declared) # "Rejected",
         NEW type, type = Wrapped(Decoded(a, declared)),
         type # "QString", ~(type = "double" /\ Rounds(a))
  PROVE  Cast(a, type) = a
  <1>1. CASE type \in DOMAIN IntRange
    <2>1. InRange(a, type)
      <3>1. type = Decoded(a, declared)
        BY DEF Wrapped
      <3>2. CASE declared \in Unchecked
        <4>1. type = Converted(a, declared) /\ declared = "QUrl"
          BY <3>1, <3>2 DEF Decoded, Verdict, Unchecked
        <4>2. type = TypeOf(a) /\ type \in {"qlonglong", "qulonglong"}
          BY <4>1, <1>1, ArrivingTypes DEF Converted, IntRange
        <4> QED
          BY <4>2, ArrivingTypes
      <3>3. CASE declared \notin Unchecked
        <4>1. Accepts(a, declared)
          BY <3>3 DEF Verdict
        <4>2. type = declared
          BY <3>1, <3>3, <4>1 DEF Decoded, Verdict
        <4> QED
          BY <1>1, <4>1, <4>2 DEF Accepts
      <3> QED
        BY <3>2, <3>3
    <2> QED
      BY <1>1, <2>1, IntegersAreKept
  <1>2. CASE type \notin DOMAIN IntRange
    BY <1>2 DEF Cast
  <1> QED
    BY <1>1, <1>2
-----------------------------------------------------------------------------
\* What the lookups of a call find in the plugin.
LEMMA FoundAreMethods ==
  ASSUME plugin \in BoundedSeq(Methods, MaxMethods), request \in Requests
  PROVE  /\ Found \in SUBSET Nat /\ Found \subseteq Named /\ Named \in SUBSET (Nat \ {0})
         /\ Named \subseteq DOMAIN plugin
         /\ request.args \in Seq(Arguments)
         /\ \A m \in Named : plugin[m] \in Methods /\ plugin[m].params \in Seq(Types)
         /\ \A m \in Found : DOMAIN plugin[m].params = DOMAIN request.args
  <1>1. PICK k \in 0..MaxMethods : plugin \in [1..k -> Methods]
    BY DEF BoundedSeq, SeqOf
  <1>2. request.args \in Seq(Arguments)
    BY RequestsAssumption
  <1>3. Named \subseteq 1..k /\ \A m \in Named : plugin[m] \in Methods
    BY <1>1 DEF Named
  <1>4. \A m \in Named : plugin[m].params \in Seq(Types)
    BY <1>3, MethodsAssumption
  <1>5. Found \subseteq Named /\ \A m \in Found : Len(plugin[m].params) = Len(request.args)
    BY DEF Found, Arity
  <1>6. \A m \in Found : DOMAIN plugin[m].params = DOMAIN request.args
    <2> SUFFICES ASSUME NEW m \in Found
                 PROVE  DOMAIN plugin[m].params = DOMAIN request.args
      OBVIOUS
    <2>1. /\ plugin[m].params \in Seq(Types)
          /\ Len(plugin[m].params) = Len(request.args)
      BY <1>4, <1>5
    <2> QED
      BY <1>2, <2>1, LenProperties
  <1>7. MaxMethods \in Nat
    BY WidthsAssumption
  <1>8. Named \in SUBSET (Nat \ {0})
    BY <1>1, <1>3, <1>7
  <1>9. Named \subseteq DOMAIN plugin
    BY DEF Named
  <1> QED
    BY <1>2, <1>3, <1>4, <1>5, <1>6, <1>8, <1>9

\* A call has found and run nothing yet.
LEMMA InitAdapterInv == AdapterInit => AdapterInv
  BY DEF AdapterInit, AdapterInv, CalleeInv, TypesInv, Stages, DecodedIsRun,
         BodySeesWhatWasSent, NoBody

\* The method found takes the arguments without one of the exceptions of
\* DecodedIsRun.
Plain == \A n \in DOMAIN plugin[callee].params :
           LET type == plugin[callee].params[n] IN
           /\ type \notin {"uint", "QJsonArray"}
           /\ type \in Unchecked => request.args[n].kind = "text"

\* An argument is decoded and wrapped as what the method found declares.
LEMMA PlainTypes ==
  ASSUME NEW a \in Arguments, NEW declared \in Types,
         Verdict(a, declared) # "Rejected",
         declared \notin {"uint", "QJsonArray"},
         declared \in Unchecked => a.kind = "text"
  PROVE  Wrapped(Decoded(a, declared)) = declared
  <1>1. Decoded(a, declared) = declared
    BY DEF Decoded, Verdict, Converted
  <1> QED
    BY <1>1 DEF Wrapped

\* What an invocation starts from.
LEMMA Invocation ==
  ASSUME AdapterInv, stage = "invoke"
  PROVE  /\ callee \in Found
         /\ DOMAIN types = DOMAIN request.args
         /\ \A n \in DOMAIN types :
              /\ request.args[n] \in Arguments
              /\ plugin[callee].params[n] \in Types
              /\ Verdict(request.args[n], plugin[callee].params[n]) # "Rejected"
              /\ types[n] = Decoded(request.args[n], plugin[callee].params[n])
         /\ Plain => plugin[callee].params = [n \in DOMAIN types |-> Wrapped(types[n])]
  <1>1. callee \in Found /\ ~Rejected
    BY DEF AdapterInv, CalleeInv, TypesInv
  <1>2. types = [n \in DOMAIN request.args |->
                   Decoded(request.args[n], plugin[callee].params[n])]
    BY DEF AdapterInv, TypesInv
  <1>3. /\ request.args \in Seq(Arguments)
        /\ plugin[callee].params \in Seq(Types)
        /\ DOMAIN plugin[callee].params = DOMAIN request.args
    BY <1>1, FoundAreMethods DEF AdapterInv, CalleeInv
  <1>4. /\ request.args \in [DOMAIN request.args -> Arguments]
        /\ plugin[callee].params \in [DOMAIN request.args -> Types]
    BY <1>3, LenProperties
  <1>5. \A n \in DOMAIN types :
          /\ request.args[n] \in Arguments
          /\ plugin[callee].params[n] \in Types
          /\ Verdict(request.args[n], plugin[callee].params[n]) # "Rejected"
          /\ types[n] = Decoded(request.args[n], plugin[callee].params[n])
    BY <1>1, <1>2, <1>4 DEF Rejected
  <1>6. ASSUME Plain
        PROVE  plugin[callee].params = [n \in DOMAIN types |-> Wrapped(types[n])]
    <2>1. \A n \in DOMAIN types : Wrapped(types[n]) = plugin[callee].params[n]
      BY <1>2, <1>3, <1>5, <1>6, PlainTypes DEF Plain
    <2> QED
      BY <1>2, <1>4, <2>1
  <1> QED
    BY <1>1, <1>2, <1>5, <1>6

\* The method Qt resolves takes the types the one found declares, if those are
\* plain, and the values its caller sent.
LEMMA InvokeKeeps ==
  ASSUME AdapterInv, Invoke
  PROVE  AdapterInv'
  <1>1. /\ stage = "invoke" /\ stage' = "done" /\ ran' = First(Resolved)
        /\ seen' = [n \in DOMAIN types |-> Cast(request.args[n], Wrapped(types[n]))]
        /\ UNCHANGED <<plugin, request, wiring, callee, types>>
        /\ Resolved # {}
    BY DEF Invoke
  <1>2. Resolved \in SUBSET Nat /\ Resolved \subseteq Named /\ 0 \notin Resolved
    BY FoundAreMethods DEF Resolved, AdapterInv, CalleeInv
  <1>3. ran' \in Resolved /\ ran' # NoBody
    BY <1>1, <1>2, FirstIsOne DEF NoBody
  <1>4. plugin[ran'].params = [n \in DOMAIN types |-> Wrapped(types[n])]
    BY <1>3 DEF Resolved
  <1>5. CalleeInv' /\ TypesInv' /\ callee' # NoBody /\ Invocable'
    BY <1>1 DEF AdapterInv, CalleeInv, TypesInv, Stages, Found, Named, Arity, Invoke,
                Invocable
  <1>6. DecodedIsRun'
    <2>1. Plain' => Plain
      BY <1>1 DEF Plain
    <2>2. Plain => plugin'[ran'].params = plugin'[callee'].params
      BY <1>1, <1>4, Invocation
    <2>3. ~Rejected'
      BY <1>1 DEF Rejected, AdapterInv, TypesInv
    <2> QED
      BY <1>3, <2>1, <2>2, <2>3 DEF DecodedIsRun, Plain
  <1>7. BodySeesWhatWasSent'
    <2> SUFFICES ASSUME NEW n \in DOMAIN types,
                        plugin[ran'].params[n] # "QString",
                        ~(plugin[ran'].params[n] = "double" /\ Rounds(request.args[n]))
                 PROVE  seen'[n] = request.args[n]
      BY <1>1 DEF BodySeesWhatWasSent, Rounds, TypeOf, InRange
    <2>1. plugin[ran'].params[n] = Wrapped(types[n])
      BY <1>4
    <2> QED
      BY <1>1, <2>1, Invocation, ArgumentsAreKept
  <1> QED
    BY <1>1, <1>5, <1>6, <1>7 DEF AdapterInv

\* A plain call of a method the adapter supports resolves at least to itself.
LEMMA NotInvokedKeeps ==
  ASSUME AdapterInv, NotInvoked
  PROVE  AdapterInv'
  <1>1. /\ stage = "invoke" /\ stage' = "done" /\ ran = NoBody
        /\ UNCHANGED <<plugin, request, wiring, callee, types, ran, seen>>
    BY DEF NotInvoked, Finish, AdapterInv
  <1>2. CalleeInv' /\ TypesInv'
    BY <1>1 DEF AdapterInv, CalleeInv, TypesInv, Stages, Found, Named, Arity
  <1>3. ~(Plain /\ Invocable)
    <2> SUFFICES ASSUME Plain, Invocable, Resolved = {}
                 PROVE  FALSE
      BY DEF NotInvoked
    <2>1. callee \in Named
      BY <1>1, Invocation DEF Found
    <2>2. callee \in Resolved
      BY <1>1, <2>1, Invocation DEF Resolved
    <2> QED
      BY <2>2
  <1>4. DecodedIsRun'
    <2>1. ~(Plain' /\ plugin'[callee'].ret \in Returns /\ Arity' <= MaxArgs)
      BY <1>1, <1>3 DEF Plain, Invocable, Arity
    <2> QED
      BY <2>1 DEF DecodedIsRun, Plain
  <1>5. BodySeesWhatWasSent'
    BY <1>1 DEF BodySeesWhatWasSent
  <1> QED
    BY <1>1, <1>2, <1>4, <1>5 DEF AdapterInv

\* Every step of a call keeps the invariant.
LEMMA NextAdapterInv ==
  ASSUME AdapterInv, [AdapterNext]_adapterVars
  PROVE  AdapterInv'
  <1>1. CASE NoCall \/ FrameworkCall \/ NotWired \/ NotFound
    <2>1. /\ stage = "look up" /\ stage' = "done" /\ callee = NoBody /\ ran = NoBody
          /\ UNCHANGED <<plugin, request, wiring, callee, types, ran, seen>>
      BY <1>1 DEF NoCall, FrameworkCall, NotWired, NotFound, Finish, AdapterInv,
                  CalleeInv
    <2> QED
      BY <2>1 DEF AdapterInv, CalleeInv, TypesInv, Stages, DecodedIsRun,
                  BodySeesWhatWasSent
  <1>2. CASE LookUp
    <2>1. /\ stage = "look up" /\ stage' = "decode" /\ callee' = First(Found)
          /\ UNCHANGED <<plugin, request, wiring, types, ran, seen>>
          /\ Found # {}
      BY <1>2 DEF LookUp
    <2>2. Found \in SUBSET Nat /\ 0 \notin Found
      BY FoundAreMethods DEF AdapterInv, CalleeInv
    <2>3. callee' \in Found /\ callee' # NoBody
      BY <2>1, <2>2, FirstIsOne DEF NoBody
    <2>4. Found' = Found
      BY <2>1 DEF Found, Named, Arity
    <2>5. CalleeInv'
      BY <2>1, <2>3, <2>4 DEF AdapterInv, CalleeInv, Stages
    <2> QED
      BY <2>1, <2>5 DEF AdapterInv, TypesInv, DecodedIsRun, BodySeesWhatWasSent
  <1>3. CASE Decode
    <2>1. /\ stage = "decode" /\ stage' = "invoke" /\ ~Rejected
          /\ UNCHANGED <<plugin, request, wiring, callee, ran, seen>>
          /\ types' = [n \in DOMAIN types |->
                         Decoded(request.args[n], plugin[callee].params[n])]
      BY <1>3 DEF Decode
    <2>2. types = [n \in DOMAIN request.args |-> TypeOf(request.args[n])]
      BY <2>1 DEF AdapterInv, TypesInv
    <2>3. DOMAIN types = DOMAIN request.args
      BY <2>2
    <2>4. TypesInv'
      BY <2>1, <2>3 DEF TypesInv, Rejected
    <2>5. CalleeInv'
      BY <2>1 DEF AdapterInv, CalleeInv, Stages, Found, Named, Arity
    <2> QED
      BY <2>1, <2>4, <2>5 DEF AdapterInv, DecodedIsRun, BodySeesWhatWasSent
  <1>4. CASE DispatchFailed
    <2>1. /\ stage = "decode" /\ stage' = "done" /\ ran = NoBody /\ Rejected
          /\ UNCHANGED <<plugin, request, wiring, callee, types, ran, seen>>
      BY <1>4 DEF DispatchFailed, Finish, AdapterInv
    <2>2. Rejected'
      BY <2>1 DEF Rejected
    <2>3. CalleeInv'
      BY <2>1 DEF AdapterInv, CalleeInv, Stages, Found, Named, Arity
    <2> QED
      BY <2>1, <2>2, <2>3 DEF AdapterInv, TypesInv, DecodedIsRun, BodySeesWhatWasSent
  <1>5. CASE Invoke
    BY <1>5, InvokeKeeps
  <1>6. CASE NotInvoked
    BY <1>6, NotInvokedKeeps
  <1>7. CASE UNCHANGED adapterVars
    BY <1>7 DEF adapterVars, AdapterInv, CalleeInv, TypesInv, Found, Named, Arity,
                Rejected, Invocable, DecodedIsRun, BodySeesWhatWasSent
  <1> QED
    BY <1>1, <1>2, <1>3, <1>4, <1>5, <1>6, <1>7 DEF AdapterNext
-----------------------------------------------------------------------------
\* The inductive invariant of LegacyCall.
THEOREM AdapterInvariantHolds == AdapterSpec => []AdapterInv
  <1> QED
    BY InitAdapterInv, NextAdapterInv, PTL DEF AdapterSpec

\* The second resolution, by name and types, finds what the first one found.
THEOREM FoundIsRun == AdapterSpec => []DecodedIsRun
  <1>1. AdapterInv => DecodedIsRun
    BY DEF AdapterInv
  <1> QED
    BY <1>1, AdapterInvariantHolds, PTL

\* For int and qlonglong of any width: no number that is let through overflows.
THEOREM BodiesSeeWhatWasSent == AdapterSpec => []BodySeesWhatWasSent
  <1>1. AdapterInv => BodySeesWhatWasSent
    BY DEF AdapterInv
  <1> QED
    BY <1>1, AdapterInvariantHolds, PTL

\* The disagreement of the two resolutions has one cause: a body that runs with
\* an argument its own types reject was found as a method with a parameter that
\* has no wrapper, or was not convertible.
CoercedOnlyUnwrapped == ran # NoBody /\ Plain => NeverCoerced

\* NeverCoerced, which the code breaks, holds where wrappers are complete.
THEOREM CoercionHasOneCause == AdapterSpec => []CoercedOnlyUnwrapped
  <1>1. AdapterInv => CoercedOnlyUnwrapped
    <2> SUFFICES ASSUME AdapterInv, Plain, ran # NoBody, NEW n \in DOMAIN request.args
                 PROVE  Verdict(request.args[n], plugin[ran].params[n]) # "Rejected"
      BY DEF CoercedOnlyUnwrapped, NeverCoerced
    <2>1. stage = "done" /\ callee # NoBody /\ Invocable
      BY DEF AdapterInv
    <2>2. ~Rejected /\ plugin[ran].params = plugin[callee].params
      BY <2>1 DEF AdapterInv, DecodedIsRun, Plain, Invocable
    <2> QED
      BY <2>2 DEF Rejected
  <1> QED
    BY <1>1, AdapterInvariantHolds, PTL
=============================================================================
