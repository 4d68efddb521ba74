---------------------------- MODULE ConsumerProofs ----------------------------
(***************************************************************************)
(* What a consumer has of a LogosAPI: its identity (Admission) and its     *)
(* clients (ClientCache).  The safety properties of both, for every set of *)
(* identities, modules, threads and transports and every number of         *)
(* credentials.                                                            *)
(*                                                                         *)
(* The invariant that carries Admission says where a credential can be: it *)
(* is minted for one identity, pushed, accepted, returned and held in that *)
(* order, and since pushes of one identity are served oldest first, the    *)
(* acceptance of its newest credential leaves nothing behind on the wire   *)
(* that could supersede it.                                                *)
(*                                                                         *)
(* The one that carries ClientCache says what a client is filed under, and *)
(* that it is still there while a thread that was handed it goes on.       *)
(***************************************************************************)
EXTENDS Admission, ClientCache, SequenceTheorems, TLAPS

\* The credentials that were ever minted for i and can still matter.
Belongs(i) == (accepted[i] \cup wire[i] \cup {fresh[i]}) \ {None}

MintedInv ==
  \A i \in Identities :
    /\ \A c \in Belongs(i) : c <= minted
    /\ \A c \in wire[i] : c <= fresh[i]

OwnInv == \A i, j \in Identities : i # j => Belongs(i) \cap Belongs(j) = {}

ReturnedInv ==
  \A i \in Identities :
    /\ returned[i] \subseteq accepted[i]
    /\ stdin[i] = None \/ stdin[i] \in returned[i]
    /\ \A s \in Stores : store[i][s] = None \/ store[i][s] \in returned[i]

\* A credential is accepted before its call goes on, not before it is sent, and
\* not returned before the call ends.
CallInv ==
  \A i \in Identities :
    /\ pc[i] # "idle" => /\ i \in isolated
                         /\ fresh[i] \in Minted
                         /\ fresh[i] \notin returned[i]
    /\ pc[i] = "register" => fresh[i] \notin accepted[i] \cup wire[i]
    /\ pc[i] \in {"reset", "adopt"} => fresh[i] \in accepted[i]

\* The newest credential, once accepted, is on record; nothing is under way.
NewestInv ==
  \A i \in Identities :
    /\ fresh[i] \in accepted[i] => wire[i] = {} /\ registered[i] = fresh[i]
    /\ pc[i] = "idle" /\ ~failed[i] /\ store[i]["private"] # None
         => store[i]["private"] = fresh[i] /\ fresh[i] \in accepted[i]

\* A LogosAPI whose caller chose no store is on the ambient ring under a name
\* that was handed out there, or on the store of its name; no name is both.
BindInv ==
  /\ isolated \cap vended = {}
  /\ \A a \in bound :
       ~a.given => \/ a.store = Ambient /\ a.name \in vended
                   \/ a.store = a.name /\ a.name \in isolated

\* What is on record, on the wire or minted is no older than the last reset: so
\* what is older in the store, or on its way there, was granted before it.
RotationInv ==
  \A i \in Identities :
    /\ rotated[i] <= fresh[i]
    /\ rotated[i] <= registered[i]
    /\ \A c \in wire[i] : rotated[i] <= c
    /\ \A q \in asks : q.of = i /\ q.step = "granted" /\ q.credential < rotated[i]
                        => q.target \in awaited[i]
    /\ \A t \in Targets : targetToken[i][t] # None /\ targetToken[i][t] < rotated[i]
                           => t \in awaited[i]

IInv ==
  /\ TypeOK
  /\ MintedInv
  /\ OwnInv
  /\ ReturnedInv
  /\ CallInv
  /\ NewestInv
  /\ BindInv
  /\ RotationInv
-----------------------------------------------------------------------------
\* What every proof about a state has to see.
USE MaxMintedAssumption DEF None, HostAnchor, Stores, Minted, Value

\* A process that has admitted nobody satisfies the invariant.
LEMMA InitIInv == Init => IInv
  BY DEF Init, IInv, TypeOK, MintedInv, OwnInv, ReturnedInv, CallInv,
         NewestInv, BindInv, RotationInv, Belongs

\* A LogosAPI the host constructs is one.
LEMMA ApiType ==
  ASSUME NEW i \in Identities, NEW s \in Identities \cup {Ambient},
         NEW chosen \in BOOLEAN
  PROVE  Api(i, s, chosen) \in Apis
  BY DEF Api, Apis

\* Every step of the host, the co-process and capability_module preserves the
\* types.
LEMMA NextTypeOK == TypeOK /\ CallInv /\ ReturnedInv /\ [Next]_vars => TypeOK'
  <1> SUFFICES ASSUME TypeOK, CallInv, ReturnedInv, [Next]_vars
               PROVE  TypeOK'
    OBVIOUS
  <1> USE DEF TypeOK, vars, nameVars, tokenVars, storeVars, callVars, capVars
  <1>1. ASSUME NEW i \in Identities, ConstructApi(i)
        PROVE  TypeOK'
    <2>1. Api(i, i, FALSE) \in Apis /\ Api(i, Ambient, FALSE) \in Apis
      BY ApiType
    <2>2. bound' \in SUBSET Apis /\ vended' \in SUBSET Identities
      BY <1>1, <2>1 DEF ConstructApi
    <2> QED
      BY <1>1, <2>2 DEF ConstructApi
  <1>2. ASSUME NEW i \in Identities, ForIdentity(i)
        PROVE  TypeOK'
    BY <1>2, ApiType DEF ForIdentity, Isolate
  <1>3. ASSUME NEW i \in Identities, AdmitConsumer(i)
        PROVE  TypeOK'
    <2>1. Api(i, i, FALSE) \in Apis
      BY ApiType
    <2>2. bound' \in SUBSET Apis /\ isolated' \in SUBSET Identities
      BY <1>3, <2>1 DEF AdmitConsumer, Isolate
    <2>3. /\ minted' \in 0..MaxMinted
          /\ fresh' \in [Identities -> Minted \cup {None}]
          /\ op' \in [Identities -> {"none", "admit", "reissue"}]
          /\ pc' \in [Identities -> {"idle", "register", "wait", "reset", "adopt"}]
      BY <1>3 DEF AdmitConsumer, Mint
    <2> QED
      BY <1>3, <2>2, <2>3 DEF AdmitConsumer
  <1>4. ASSUME NEW i \in Identities, ReissueConsumerCredential(i)
        PROVE  TypeOK'
    BY <1>4 DEF ReissueConsumerCredential, Mint
  <1>5. ASSUME NEW i \in Identities, HostNotTrusted(i)
        PROVE  TypeOK'
    BY <1>5 DEF HostNotTrusted, Fail
  <1>6. ASSUME NEW i \in Identities, RegisterAtCapability(i)
        PROVE  TypeOK'
    BY <1>6 DEF RegisterAtCapability, CallInv
  <1>7. ASSUME NEW i \in Identities, Registered(i)
        PROVE  TypeOK'
    BY <1>7 DEF Registered
  <1>8. ASSUME NEW i \in Identities, NotRegistered(i)
        PROVE  TypeOK'
    BY <1>8 DEF NotRegistered, Fail
  <1>9. ASSUME NEW i \in Identities, AdoptCredentialFor(i)
        PROVE  TypeOK'
    BY <1>9 DEF AdoptCredentialFor, CallInv
  <1>10. ASSUME NEW i \in Identities, ResetIdentity(i)
        PROVE  TypeOK'
    BY <1>10 DEF ResetIdentity, NoteReset, Asks
  <1>11. ASSUME NEW i \in Identities, SpawnCoProcess(i)
        PROVE  TypeOK'
    BY <1>11 DEF SpawnCoProcess, Newest
  <1>12. ASSUME NEW i \in Identities, NEW s \in Stores,
     AdoptConsumerCredential(i, s)
        PROVE  TypeOK'
    BY <1>12 DEF AdoptConsumerCredential, Offered
  <1>13. ASSUME NEW i \in Identities, NEW t \in Targets, RequestModule(i, t)
        PROVE  TypeOK'
    <2>1. store[i]["private"] \in Minted
      BY <1>13 DEF RequestModule, ReturnedInv
    <2>2. asks' \in SUBSET Asks
      BY <1>13, <2>1 DEF RequestModule, Asks
    <2> QED
      BY <1>13, <2>2 DEF RequestModule
  <1>14. ASSUME NEW i \in Identities, Accept(i)
        PROVE  TypeOK'
    BY <1>14 DEF Accept, Oldest
  <1>15. ASSUME NEW i \in Identities, Refuse(i)
        PROVE  TypeOK'
    BY <1>15 DEF Refuse, Oldest
  <1>16. CASE HostTokenChanges
    BY <1>16 DEF HostTokenChanges
  <1>17. ASSUME NEW i \in Identities, NEW s \in Identities \cup {Ambient},
                ConstructWithStore(i, s)
        PROVE  TypeOK'
    BY <1>17, ApiType DEF ConstructWithStore
  <1>18. ASSUME NEW q \in asks, Grant(q)
        PROVE  TypeOK'
    BY <1>18 DEF Grant, Asks
  <1>19. ASSUME NEW q \in asks, SaveToken(q)
        PROVE  TypeOK'
    BY <1>19 DEF SaveToken, Asks
  <1>20. ASSUME NEW q \in asks, AskFails(q)
        PROVE  TypeOK'
    BY <1>20 DEF AskFails
  <1>21. CASE UNCHANGED vars
    BY <1>21
  <1> QED
    BY <1>1, <1>2, <1>3, <1>4, <1>5, <1>6, <1>7, <1>8, <1>9, <1>10, <1>11,
       <1>12, <1>13, <1>14, <1>15, <1>16, <1>17, <1>18, <1>19, <1>20, <1>21,
       ChosenAssumption DEF Next, HostStep

\* A credential minted now is newer than what the store was last reset for.
LEMMA MintedIsNewest ==
  ASSUME TypeOK, MintedInv, RotationInv, NEW i \in Identities
  PROVE  rotated[i] <= minted
  <1>1. rotated[i] \in Int /\ fresh[i] \in Int /\ minted \in Nat
    BY DEF TypeOK
  <1>2. rotated[i] <= fresh[i]
    BY DEF RotationInv
  <1>3. CASE fresh[i] = None
    BY <1>1, <1>2, <1>3
  <1>4. CASE fresh[i] # None
    <2>1. fresh[i] <= minted
      BY <1>4 DEF MintedInv, Belongs
    <2> QED
      BY <1>1, <1>2, <2>1
  <1> QED
    BY <1>3, <1>4

\* Every step preserves the invariant: what was minted for a name stays its own,
\* what is held was accepted and returned, what is on record is the newest.
LEMMA NextIInv == IInv /\ [Next]_vars => IInv'
  <1> SUFFICES ASSUME IInv, [Next]_vars
               PROVE  IInv'
    OBVIOUS
  <1> USE DEF vars, nameVars, tokenVars, storeVars, callVars, capVars
  <1>1. TypeOK'
    BY NextTypeOK DEF IInv
  <1>2. ASSUME UNCHANGED <<minted, hostToken, isolated, store, callVars, stdin,
                          capVars>>
        PROVE  MintedInv' /\ OwnInv' /\ ReturnedInv' /\ CallInv' /\ NewestInv'
    BY <1>2 DEF IInv, MintedInv, OwnInv, ReturnedInv, CallInv, NewestInv, Belongs
  <1>3. ASSUME NEW i \in Identities, ConstructApi(i)
        PROVE  IInv'
    <2>1. BindInv'
      <3>1. CASE i \in isolated
        BY <1>3, <3>1 DEF IInv, BindInv, ConstructApi, Api
      <3>2. CASE i \notin isolated
        BY <1>3, <3>2 DEF IInv, BindInv, ConstructApi, Api
      <3> QED
        BY <3>1, <3>2
    <2>2. RotationInv'
      BY <1>3 DEF IInv, RotationInv, ConstructApi
    <2> QED
      BY <1>1, <1>2, <1>3, <2>1, <2>2 DEF IInv, ConstructApi
  <1>4. ASSUME NEW i \in Identities, NEW s \in Identities \cup {Ambient},
                ConstructWithStore(i, s)
        PROVE  IInv'
    <2>1. BindInv'
      BY <1>4 DEF IInv, BindInv, ConstructWithStore, Api
    <2>2. RotationInv'
      BY <1>4 DEF IInv, RotationInv, ConstructWithStore
    <2> QED
      BY <1>1, <1>2, <1>4, <2>1, <2>2 DEF IInv, ConstructWithStore
  <1>5. ASSUME NEW i \in Identities, ForIdentity(i)
        PROVE  IInv'
    <2>1. MintedInv'
      BY <1>5 DEF IInv, TypeOK, MintedInv, Belongs, ForIdentity, Isolate,
                  CanIsolate
    <2>2. OwnInv'
      BY <1>5 DEF IInv, TypeOK, OwnInv, MintedInv, Belongs, ForIdentity,
                  Isolate, CanIsolate
    <2>3. ReturnedInv'
      BY <1>5 DEF IInv, TypeOK, ReturnedInv, CallInv, ForIdentity, Isolate,
                  CanIsolate
    <2>4. CallInv'
      BY <1>5 DEF IInv, TypeOK, CallInv, MintedInv, Belongs, ForIdentity,
                  Isolate, CanIsolate
    <2>5. NewestInv'
      BY <1>5 DEF IInv, TypeOK, NewestInv, CallInv, MintedInv, Belongs,
                  ForIdentity, Isolate, CanIsolate
    <2>6. BindInv'
      BY <1>5 DEF IInv, BindInv, ForIdentity, Isolate, CanIsolate, Api
    <2>7. RotationInv'
      BY <1>5 DEF IInv, RotationInv, TypeOK, MintedInv, Belongs, ForIdentity,
                  Isolate, CanIsolate
    <2> QED
      BY <1>1, <2>1, <2>2, <2>3, <2>4, <2>5, <2>6, <2>7 DEF IInv
  <1>6. ASSUME NEW i \in Identities, AdmitConsumer(i)
        PROVE  IInv'
    <2>1. MintedInv'
      BY <1>6 DEF IInv, TypeOK, MintedInv, Belongs, AdmitConsumer, Mint,
                  Isolate, CanIsolate
    <2>2. OwnInv'
      BY <1>6 DEF IInv, TypeOK, OwnInv, MintedInv, Belongs, AdmitConsumer,
                  Mint, Isolate, CanIsolate
    <2>3. ReturnedInv'
      BY <1>6 DEF IInv, TypeOK, ReturnedInv, CallInv, AdmitConsumer, Mint,
                  Isolate, CanIsolate
    <2>4. CallInv'
      BY <1>6 DEF IInv, TypeOK, CallInv, ReturnedInv, MintedInv, Belongs,
                  AdmitConsumer, Mint, Isolate, CanIsolate
    <2>5. NewestInv'
      BY <1>6 DEF IInv, TypeOK, NewestInv, CallInv, MintedInv, Belongs,
                  AdmitConsumer, Mint, Isolate, CanIsolate
    <2>6. BindInv'
      BY <1>6 DEF IInv, BindInv, AdmitConsumer, Mint, Isolate,
                  CanIsolate, Api
    <2>7. RotationInv'
      <3>1. rotated[i] <= minted
        BY MintedIsNewest DEF IInv
      <3>2. fresh' = [fresh EXCEPT ![i] = minted + 1]
        BY <1>6 DEF AdmitConsumer, Mint
      <3>3. \A j \in Identities : rotated[j] <= fresh'[j]
        <4>1. rotated[i] \in Int /\ minted \in Nat
          BY DEF IInv, TypeOK
        <4>2. fresh'[i] = minted + 1 /\ \A j \in Identities \ {i} : fresh'[j] = fresh[j]
          BY <3>2 DEF IInv, TypeOK
        <4>3. rotated[i] <= minted + 1
          BY <3>1, <4>1
        <4> QED
          BY <4>2, <4>3 DEF IInv, RotationInv
      <3> QED
        BY <1>6, <3>3 DEF IInv, RotationInv, AdmitConsumer, Mint
    <2> QED
      BY <1>1, <2>1, <2>2, <2>3, <2>4, <2>5, <2>6, <2>7 DEF IInv
  <1>7. ASSUME NEW i \in Identities, ReissueConsumerCredential(i)
        PROVE  IInv'
    <2>1. MintedInv'
      BY <1>7 DEF IInv, TypeOK, MintedInv, Belongs,
                  ReissueConsumerCredential, Mint
    <2>2. OwnInv'
      BY <1>7 DEF IInv, TypeOK, OwnInv, MintedInv, Belongs,
                  ReissueConsumerCredential, Mint
    <2>3. ReturnedInv'
      BY <1>7 DEF IInv, TypeOK, ReturnedInv, CallInv,
                  ReissueConsumerCredential, Mint
    <2>4. CallInv'
      BY <1>7 DEF IInv, TypeOK, CallInv, ReturnedInv, MintedInv, Belongs,
                  ReissueConsumerCredential, Mint
    <2>5. NewestInv'
      BY <1>7 DEF IInv, TypeOK, NewestInv, CallInv, MintedInv, Belongs,
                  ReissueConsumerCredential, Mint
    <2>6. BindInv'
      BY <1>7 DEF IInv, BindInv, ReissueConsumerCredential, Mint
    <2>7. RotationInv'
      <3>1. rotated[i] <= minted
        BY MintedIsNewest DEF IInv
      <3>2. fresh' = [fresh EXCEPT ![i] = minted + 1]
        BY <1>7 DEF ReissueConsumerCredential, Mint
      <3>3. \A j \in Identities : rotated[j] <= fresh'[j]
        <4>1. rotated[i] \in Int /\ minted \in Nat
          BY DEF IInv, TypeOK
        <4>2. fresh'[i] = minted + 1 /\ \A j \in Identities \ {i} : fresh'[j] = fresh[j]
          BY <3>2 DEF IInv, TypeOK
        <4>3. rotated[i] <= minted + 1
          BY <3>1, <4>1
        <4> QED
          BY <4>2, <4>3 DEF IInv, RotationInv
      <3> QED
        BY <1>7, <3>3 DEF IInv, RotationInv, ReissueConsumerCredential, Mint
    <2> QED
      BY <1>1, <2>1, <2>2, <2>3, <2>4, <2>5, <2>6, <2>7 DEF IInv
  <1>8. ASSUME NEW i \in Identities, HostNotTrusted(i)
        PROVE  IInv'
    <2>1. MintedInv'
      BY <1>8 DEF IInv, TypeOK, MintedInv, Belongs, HostNotTrusted, Fail
    <2>2. OwnInv'
      BY <1>8 DEF IInv, TypeOK, OwnInv, MintedInv, Belongs, HostNotTrusted,
                  Fail
    <2>3. ReturnedInv'
      BY <1>8 DEF IInv, TypeOK, ReturnedInv, CallInv, HostNotTrusted, Fail
    <2>4. CallInv'
      BY <1>8 DEF IInv, TypeOK, CallInv, MintedInv, Belongs, HostNotTrusted,
                  Fail
    <2>5. NewestInv'
      BY <1>8 DEF IInv, TypeOK, NewestInv, CallInv, MintedInv, Belongs,
                  HostNotTrusted, Fail
    <2>6. BindInv'
      BY <1>8 DEF IInv, BindInv, HostNotTrusted, Fail
    <2>7. RotationInv'
      BY <1>8 DEF IInv, RotationInv, TypeOK, MintedInv, Belongs, HostNotTrusted,
                  Fail
    <2> QED
      BY <1>1, <2>1, <2>2, <2>3, <2>4, <2>5, <2>6, <2>7 DEF IInv
  <1>9. ASSUME NEW i \in Identities, RegisterAtCapability(i)
        PROVE  IInv'
    <2>1. MintedInv'
      BY <1>9 DEF IInv, TypeOK, MintedInv, Belongs, RegisterAtCapability
    <2>2. OwnInv'
      BY <1>9 DEF IInv, TypeOK, OwnInv, MintedInv, Belongs,
                  RegisterAtCapability
    <2>3. ReturnedInv'
      BY <1>9 DEF IInv, TypeOK, ReturnedInv, CallInv, RegisterAtCapability
    <2>4. CallInv'
      BY <1>9 DEF IInv, TypeOK, CallInv, MintedInv, Belongs,
                  RegisterAtCapability
    <2>5. NewestInv'
      BY <1>9 DEF IInv, TypeOK, NewestInv, CallInv, MintedInv, Belongs,
                  RegisterAtCapability
    <2>6. BindInv'
      BY <1>9 DEF IInv, BindInv, RegisterAtCapability
    <2>7. RotationInv'
      BY <1>9 DEF IInv, RotationInv, TypeOK, MintedInv, Belongs,
                  RegisterAtCapability
    <2> QED
      BY <1>1, <2>1, <2>2, <2>3, <2>4, <2>5, <2>6, <2>7 DEF IInv
  <1>10. ASSUME NEW i \in Identities, Registered(i)
        PROVE  IInv'
    <2>1. MintedInv'
      BY <1>10 DEF IInv, TypeOK, MintedInv, Belongs, Registered
    <2>2. OwnInv'
      BY <1>10 DEF IInv, TypeOK, OwnInv, MintedInv, Belongs, Registered
    <2>3. ReturnedInv'
      BY <1>10 DEF IInv, TypeOK, ReturnedInv, CallInv, Registered
    <2>4. CallInv'
      BY <1>10 DEF IInv, TypeOK, CallInv, MintedInv, Belongs, Registered
    <2>5. NewestInv'
      BY <1>10 DEF IInv, TypeOK, NewestInv, CallInv, MintedInv, Belongs,
                  Registered
    <2>6. BindInv'
      BY <1>10 DEF IInv, BindInv, Registered
    <2>7. RotationInv'
      BY <1>10 DEF IInv, RotationInv, TypeOK, MintedInv, Belongs, Registered
    <2> QED
      BY <1>1, <2>1, <2>2, <2>3, <2>4, <2>5, <2>6, <2>7 DEF IInv
  <1>11. ASSUME NEW i \in Identities, NotRegistered(i)
        PROVE  IInv'
    <2>1. MintedInv'
      BY <1>11 DEF IInv, TypeOK, MintedInv, Belongs, NotRegistered, Fail
    <2>2. OwnInv'
      BY <1>11 DEF IInv, TypeOK, OwnInv, MintedInv, Belongs, NotRegistered,
                  Fail
    <2>3. ReturnedInv'
      BY <1>11 DEF IInv, TypeOK, ReturnedInv, CallInv, NotRegistered, Fail
    <2>4. CallInv'
      BY <1>11 DEF IInv, TypeOK, CallInv, MintedInv, Belongs, NotRegistered,
                  Fail
    <2>5. NewestInv'
      BY <1>11 DEF IInv, TypeOK, NewestInv, CallInv, MintedInv, Belongs,
                  NotRegistered, Fail
    <2>6. BindInv'
      BY <1>11 DEF IInv, BindInv, NotRegistered, Fail
    <2>7. RotationInv'
      BY <1>11 DEF IInv, RotationInv, TypeOK, MintedInv, Belongs, NotRegistered,
                  Fail
    <2> QED
      BY <1>1, <2>1, <2>2, <2>3, <2>4, <2>5, <2>6, <2>7 DEF IInv
  <1>12. ASSUME NEW i \in Identities, AdoptCredentialFor(i)
        PROVE  IInv'
    <2>1. MintedInv'
      BY <1>12 DEF IInv, TypeOK, MintedInv, Belongs, AdoptCredentialFor
    <2>2. OwnInv'
      BY <1>12 DEF IInv, TypeOK, OwnInv, MintedInv, Belongs,
                   AdoptCredentialFor
    <2>3. ReturnedInv'
      BY <1>12 DEF IInv, TypeOK, ReturnedInv, CallInv, AdoptCredentialFor
    <2>4. CallInv'
      BY <1>12 DEF IInv, TypeOK, CallInv, MintedInv, Belongs,
                   AdoptCredentialFor
    <2>5. NewestInv'
      BY <1>12 DEF IInv, TypeOK, NewestInv, CallInv, MintedInv, Belongs,
                   AdoptCredentialFor
    <2>6. BindInv'
      BY <1>12 DEF IInv, BindInv, AdoptCredentialFor
    <2>7. RotationInv'
      BY <1>12 DEF IInv, RotationInv, TypeOK, MintedInv, Belongs,
                   AdoptCredentialFor
    <2> QED
      BY <1>1, <2>1, <2>2, <2>3, <2>4, <2>5, <2>6, <2>7 DEF IInv
  <1>13. ASSUME NEW i \in Identities, ResetIdentity(i)
        PROVE  IInv'
    <2>1. MintedInv'
      BY <1>13 DEF IInv, TypeOK, MintedInv, Belongs, ResetIdentity
    <2>2. OwnInv'
      BY <1>13 DEF IInv, TypeOK, OwnInv, MintedInv, Belongs, ResetIdentity
    <2>3. ReturnedInv'
      BY <1>13 DEF IInv, TypeOK, ReturnedInv, CallInv, ResetIdentity
    <2>4. CallInv'
      BY <1>13 DEF IInv, TypeOK, CallInv, MintedInv, Belongs, ResetIdentity
    <2>5. NewestInv'
      BY <1>13 DEF IInv, TypeOK, NewestInv, CallInv, MintedInv, Belongs,
                   ResetIdentity
    <2>6. BindInv'
      BY <1>13 DEF IInv, BindInv, ResetIdentity
    <2>7. RotationInv'
      <3>1. wire[i] = {} /\ registered[i] = fresh[i] /\ fresh[i] \in Minted
        BY <1>13 DEF ResetIdentity, IInv, CallInv, NewestInv
      <3>2. /\ rotated' = [rotated EXCEPT ![i] = fresh[i]]
            /\ awaited'[i] = {q.target : q \in {r \in asks : r.of = i /\ r.step = "granted"}}
            /\ \A j \in Identities \ {i} : awaited'[j] = awaited[j]
            /\ targetToken' = [targetToken EXCEPT ![i] = [t \in Targets |-> None]]
            /\ UNCHANGED <<asks, fresh, wire, registered>>
        BY <1>13 DEF ResetIdentity, NoteReset, IInv, TypeOK
      <3>3. ASSUME NEW j \in Identities
            PROVE  (/\ rotated[j] <= fresh[j]
                    /\ rotated[j] <= registered[j]
                    /\ \A c \in wire[j] : rotated[j] <= c)'
        BY <3>1, <3>2 DEF IInv, TypeOK, RotationInv
      <3>4. ASSUME NEW j \in Identities, NEW q \in asks, q.of = j, q.step = "granted",
                   q.credential < rotated'[j]
            PROVE  q.target \in awaited'[j]
        BY <3>2, <3>4 DEF IInv, TypeOK, RotationInv
      <3>5. ASSUME NEW j \in Identities, NEW t \in Targets, targetToken'[j][t] # None,
                   targetToken'[j][t] < rotated'[j]
            PROVE  t \in awaited'[j]
        BY <3>2, <3>5 DEF IInv, TypeOK, RotationInv
      <3> QED
        BY <3>2, <3>3, <3>4, <3>5 DEF RotationInv
    <2> QED
      BY <1>1, <2>1, <2>2, <2>3, <2>4, <2>5, <2>6, <2>7 DEF IInv
  <1>14. ASSUME NEW i \in Identities, SpawnCoProcess(i)
        PROVE  IInv'
    <2>1. MintedInv'
      BY <1>14 DEF IInv, TypeOK, MintedInv, Belongs, SpawnCoProcess, Newest
    <2>2. OwnInv'
      BY <1>14 DEF IInv, TypeOK, OwnInv, MintedInv, Belongs, SpawnCoProcess,
                   Newest
    <2>3. ReturnedInv'
      BY <1>14 DEF IInv, TypeOK, ReturnedInv, CallInv, SpawnCoProcess, Newest
    <2>4. CallInv'
      BY <1>14 DEF IInv, TypeOK, CallInv, MintedInv, Belongs,
                   SpawnCoProcess, Newest
    <2>5. NewestInv'
      BY <1>14 DEF IInv, TypeOK, NewestInv, CallInv, MintedInv, Belongs,
                   SpawnCoProcess, Newest
    <2>6. BindInv'
      BY <1>14 DEF IInv, BindInv, SpawnCoProcess, Newest
    <2>7. RotationInv'
      BY <1>14 DEF IInv, RotationInv, TypeOK, MintedInv, Belongs, SpawnCoProcess,
                   Newest
    <2> QED
      BY <1>1, <2>1, <2>2, <2>3, <2>4, <2>5, <2>6, <2>7 DEF IInv
  <1>15. ASSUME NEW i \in Identities, NEW s \in Stores,
     AdoptConsumerCredential(i, s)
        PROVE  IInv'
    <2>1. MintedInv'
      BY <1>15 DEF IInv, TypeOK, MintedInv, Belongs,
                   AdoptConsumerCredential, Offered
    <2>2. OwnInv'
      BY <1>15 DEF IInv, TypeOK, OwnInv, MintedInv, Belongs,
                   AdoptConsumerCredential, Offered
    <2>3. ReturnedInv'
      BY <1>15 DEF IInv, TypeOK, ReturnedInv, CallInv,
                   AdoptConsumerCredential, Offered
    <2>4. CallInv'
      BY <1>15 DEF IInv, TypeOK, CallInv, MintedInv, Belongs,
                   AdoptConsumerCredential, Offered
    <2>5. NewestInv'
      BY <1>15 DEF IInv, TypeOK, NewestInv, CallInv, MintedInv, Belongs,
                   AdoptConsumerCredential, Offered
    <2>6. BindInv'
      BY <1>15 DEF IInv, BindInv, AdoptConsumerCredential, Offered
    <2>7. RotationInv'
      BY <1>15 DEF IInv, RotationInv, TypeOK, MintedInv, Belongs,
                   AdoptConsumerCredential, Offered
    <2> QED
      BY <1>1, <2>1, <2>2, <2>3, <2>4, <2>5, <2>6, <2>7 DEF IInv
  <1>16. ASSUME NEW i \in Identities, NEW t \in Targets, RequestModule(i, t)
        PROVE  IInv'
    <2>1. BindInv'
      BY <1>16 DEF IInv, BindInv, RequestModule
    <2>2. RotationInv'
      BY <1>16 DEF IInv, RotationInv, RequestModule
    <2> QED
      BY <1>1, <1>2, <1>16, <2>1, <2>2 DEF IInv, RequestModule
  <1>17. ASSUME NEW q \in asks, Grant(q)
        PROVE  IInv'
    <2>1. BindInv'
      BY <1>17 DEF IInv, BindInv, Grant
    <2>2. q \in Asks /\ ~(q.credential < rotated[q.of])
      BY <1>17 DEF IInv, TypeOK, RotationInv, Grant, Asks
    <2>3. RotationInv'
      <3>1. [q EXCEPT !.step = "granted"].credential = q.credential
            /\ [q EXCEPT !.step = "granted"].of = q.of
        BY <2>2 DEF Asks
      <3> QED
        BY <1>17, <2>2, <3>1 DEF IInv, RotationInv, Grant
    <2> QED
      BY <1>1, <1>2, <1>17, <2>1, <2>3 DEF IInv, Grant
  <1>18. ASSUME NEW q \in asks, SaveToken(q)
        PROVE  IInv'
    <2>1. BindInv'
      BY <1>18 DEF IInv, BindInv, SaveToken
    <2>2. q \in Asks
      BY DEF IInv, TypeOK
    <2>3. RotationInv'
      <3>1. \A j \in Identities, t \in Targets :
              targetToken'[j][t] = IF j = q.of /\ t = q.target THEN q.credential
                                   ELSE targetToken[j][t]
        BY <1>18, <2>2 DEF IInv, TypeOK, SaveToken, Asks
      <3>2. q.credential < rotated[q.of] => q.target \in awaited[q.of]
        BY <1>18, <2>2 DEF IInv, RotationInv, SaveToken, Asks
      <3> QED
        BY <1>18, <3>1, <3>2 DEF IInv, RotationInv, SaveToken
    <2> QED
      BY <1>1, <1>2, <1>18, <2>1, <2>3 DEF IInv, SaveToken
  <1>19. ASSUME NEW q \in asks, AskFails(q)
        PROVE  IInv'
    <2>1. BindInv'
      BY <1>19 DEF IInv, BindInv, AskFails
    <2>2. RotationInv'
      BY <1>19 DEF IInv, RotationInv, AskFails
    <2> QED
      BY <1>1, <1>2, <1>19, <2>1, <2>2 DEF IInv, AskFails
  <1>20. ASSUME NEW i \in Identities, Accept(i)
        PROVE  IInv'
    <2>1. MintedInv'
      BY <1>20 DEF IInv, TypeOK, MintedInv, Belongs, Accept, Oldest
    <2>2. OwnInv'
      BY <1>20 DEF IInv, TypeOK, OwnInv, MintedInv, Belongs, Accept, Oldest
    <2>3. ReturnedInv'
      BY <1>20 DEF IInv, TypeOK, ReturnedInv, CallInv, Accept, Oldest
    <2>4. CallInv'
      BY <1>20 DEF IInv, TypeOK, CallInv, MintedInv, Belongs, Accept, Oldest
    <2>5. NewestInv'
      <3>1. PICK c \in Oldest(wire[i]) : /\ wire' = [wire EXCEPT ![i] = @ \ {c}]
                                       /\ registered' = [registered EXCEPT ![i] = c]
                                       /\ accepted' = [accepted EXCEPT ![i] = @ \cup {c}]
                                       /\ UNCHANGED <<fresh, pc, failed, store>>
        BY <1>20 DEF Accept
      <3>2. c \in wire[i] /\ c <= fresh[i] /\ \A d \in wire[i] : c <= d
        BY <3>1 DEF Oldest, IInv, MintedInv
      <3>3. fresh[i] \notin accepted[i]
        BY <3>2 DEF IInv, NewestInv
      <3>4. CASE c = fresh[i]
        <4>1. ASSUME NEW d \in wire[i]
              PROVE  d = c
          <5>1. c \in Int /\ d \in Int
            BY <3>2 DEF IInv, TypeOK
          <5> QED
            BY <3>2, <3>4, <5>1 DEF IInv, MintedInv
        <4> QED
          BY <3>1, <3>3, <3>4, <4>1 DEF IInv, TypeOK, NewestInv
      <3>5. CASE c # fresh[i]
        BY <3>1, <3>3, <3>5 DEF IInv, TypeOK, NewestInv
      <3> QED
        BY <3>4, <3>5
    <2>6. BindInv'
      BY <1>20 DEF IInv, BindInv, Accept, Oldest
    <2>7. RotationInv'
      BY <1>20 DEF IInv, RotationInv, TypeOK, MintedInv, Belongs, Accept, Oldest
    <2> QED
      BY <1>1, <2>1, <2>2, <2>3, <2>4, <2>5, <2>6, <2>7 DEF IInv
  <1>21. ASSUME NEW i \in Identities, Refuse(i)
        PROVE  IInv'
    <2>1. MintedInv'
      BY <1>21 DEF IInv, TypeOK, MintedInv, Belongs, Refuse, Oldest
    <2>2. OwnInv'
      <3>1. \A j \in Identities : Belongs(j)' \subseteq Belongs(j)
        BY <1>21 DEF IInv, TypeOK, Belongs, Refuse, Oldest
      <3> QED
        BY <3>1 DEF IInv, OwnInv
    <2>3. ReturnedInv'
      BY <1>21 DEF IInv, TypeOK, ReturnedInv, CallInv, Refuse, Oldest
    <2>4. CallInv'
      BY <1>21 DEF IInv, TypeOK, CallInv, MintedInv, Belongs, Refuse, Oldest
    <2>5. NewestInv'
      BY <1>21 DEF IInv, TypeOK, NewestInv, CallInv, MintedInv, Belongs,
                   Refuse, Oldest
    <2>6. BindInv'
      BY <1>21 DEF IInv, BindInv, Refuse, Oldest
    <2>7. RotationInv'
      BY <1>21 DEF IInv, RotationInv, TypeOK, MintedInv, Belongs, Refuse, Oldest
    <2> QED
      BY <1>1, <2>1, <2>2, <2>3, <2>4, <2>5, <2>6, <2>7 DEF IInv
  <1>22. CASE HostTokenChanges
    BY <1>1, <1>22 DEF HostTokenChanges, IInv, MintedInv, OwnInv,
                       ReturnedInv, CallInv, NewestInv, BindInv, RotationInv,
                       Belongs
  <1>23. CASE UNCHANGED vars
    BY <1>1, <1>23 DEF IInv, MintedInv, OwnInv, ReturnedInv, CallInv,
                       NewestInv, BindInv, RotationInv,
                       Belongs
  <1> QED
    BY <1>3, <1>4, <1>5, <1>6, <1>7, <1>8, <1>9, <1>10, <1>11, <1>12, <1>13,
       <1>14, <1>15, <1>16, <1>17, <1>18, <1>19, <1>20, <1>21, <1>22, <1>23,
       ChosenAssumption
    DEF Next, HostStep

\* What the stores of an identity hold was returned to its caller.
LEMMA HeldInv == ASSUME IInv, NEW i \in Identities
                 PROVE  Held(i) \subseteq returned[i]
  <1> SUFFICES ASSUME NEW s \in Stores, store[i][s] # None
               PROVE  store[i][s] \in returned[i]
    BY DEF Held
  <1> QED
    BY DEF IInv, ReturnedInv

\* The invariant holds in every reachable state: it is what the theorems below
\* about admitConsumer, reissueConsumerCredential and adoptConsumerCredential
\* rest on.
THEOREM InvariantHolds == Spec => []IInv
  BY InitIInv, NextIInv, PTL DEF Spec

\* Admission's variables keep their types.
THEOREM TypeCorrect == Spec => []TypeOK
  <1>1. IInv => TypeOK
    BY DEF IInv
  <1> QED
    BY <1>1, InvariantHolds, PTL

\* At no instant does a consumer, in either of its processes, hold a credential
\* capability_module has not already accepted for it: the order register, then
\* adopt of admitConsumer and reissueConsumerCredential, and the refusal of
\* isolated stores by adoptConsumerCredential.
THEOREM RegisterBeforeAdopt == Spec => []HeldWasAccepted
  <1>1. IInv => HeldWasAccepted
    BY HeldInv DEF IInv, ReturnedInv, HeldWasAccepted
  <1> QED
    BY <1>1, InvariantHolds, PTL

\* What is held was handed to the caller by a call that succeeded: a failed
\* admission or rotation installs nothing, even if its push was accepted.
THEOREM FailureInstallsNothing == Spec => []HeldWasReturned
  <1>1. IInv => HeldWasReturned
    BY HeldInv DEF HeldWasReturned
  <1> QED
    BY <1>1, InvariantHolds, PTL

\* A credential names one consumer: mintCredential is called once per
\* admission and rotation, and nothing moves a credential between stores.
THEOREM OneConsumerPerCredential == Spec => []CredentialsNameOneConsumer
  <1>1. IInv => CredentialsNameOneConsumer
    <2> SUFFICES ASSUME IInv, NEW i \in Identities, NEW j \in Identities,
                        i # j
                 PROVE  Held(i) \cap Held(j) = {}
      BY DEF CredentialsNameOneConsumer
    <2>1. \A k \in Identities : Held(k) \subseteq Belongs(k)
      BY HeldInv DEF IInv, ReturnedInv, Held, Belongs
    <2> QED
      BY <2>1 DEF IInv, OwnInv
  <1> QED
    BY <1>1, InvariantHolds, PTL

\* After a successful call the store presents the credential on record, however
\* many earlier pushes for the identity timed out and were served late.
THEOREM SuccessIsNotLockedOut == Spec => []NoSilentLockout
  <1>1. IInv => NoSilentLockout
    BY DEF IInv, NewestInv, NoSilentLockout
  <1> QED
    BY <1>1, InvariantHolds, PTL

\* A LogosAPI of an isolated name presents what was handed out for that name,
\* unless its caller chose its store: forIdentity refuses a name that is on the
\* ambient ring, and the constructor honours one that is isolated.
THEOREM ConsumersSpeakForThemselves == Spec => []SpeaksAsItself
  <1>1. IInv => SpeaksAsItself
    <2> SUFFICES ASSUME IInv, NEW a \in bound, a.name \in isolated, ~a.given
                 PROVE  Presented(a) \in returned[a.name] \cup {None}
      BY DEF SpeaksAsItself
    <2>1. a.name \in Identities
      BY DEF IInv, TypeOK
    <2>2. a.store = a.name
      BY DEF IInv, BindInv
    <2>3. Presented(a) = store[a.name]["private"]
      BY <2>1, <2>2, AmbientAssumption DEF Presented
    <2> QED
      BY <2>1, <2>3 DEF IInv, ReturnedInv
  <1> QED
    BY <1>1, InvariantHolds, PTL

\* Registration before reset: once a store was emptied for a new credential, the
\* only token of an older one that can come back is one already on its way.
THEOREM RotationOutlastsRequests == Spec => []OnlyAwaitedOutlivesRotation
  <1>1. IInv => OnlyAwaitedOutlivesRotation
    BY DEF IInv, RotationInv, OnlyAwaitedOutlivesRotation
  <1> QED
    BY <1>1, InvariantHolds, PTL
-----------------------------------------------------------------------------
\* What the refinement reads as held and carried are functions of the stores.
LEMMA InitPromised == Init => Promised!Init
  BY DEF Init, Promised!Init

\* A step of admitConsumer, reissueConsumerCredential, adoptConsumerCredential or
\* capability_module is one of Credentials, or changes nothing it speaks of.
LEMMA NextPromised == IInv /\ [Next]_vars => [Promised!Next]_(Promised!vars)
  <1> SUFFICES ASSUME IInv, [Next]_vars
               PROVE  [Promised!Next]_(Promised!vars)
    OBVIOUS
  <1> USE DEF vars, nameVars, tokenVars, storeVars, callVars, capVars, Promised!vars
  <1>1. ASSUME NEW i \in Identities, Accept(i)
        PROVE  Promised!Record(i)
    <2>1. PICK c \in Oldest(wire[i]) :
            /\ registered' = [registered EXCEPT ![i] = c]
            /\ accepted' = [accepted EXCEPT ![i] = @ \cup {c}]
            /\ UNCHANGED <<store, returned>>
      BY <1>1 DEF Accept
    <2>2. c \in wire[i] /\ c \in Minted
      BY DEF Oldest, IInv, TypeOK
    <2>3. \A d \in Identities \ {i} : c \notin accepted[d]
      BY <2>2 DEF IInv, OwnInv, Belongs
    <2> QED
      BY <2>1, <2>2, <2>3 DEF Promised!Record
  <1>2. ASSUME NEW i \in Identities, AdoptCredentialFor(i)
        PROVE  Promised!HandOut(i)
    <2>1. registered[i] = fresh[i] /\ registered[i] # None
      BY <1>2 DEF AdoptCredentialFor, IInv, CallInv, NewestInv
    <2>2. [j \in Identities |-> store'[j]["private"]]
            = [[j \in Identities |-> store[j]["private"]] EXCEPT ![i] = fresh[i]]
      BY <1>2 DEF AdoptCredentialFor, IInv, TypeOK
    <2>3. [j \in Identities |-> store'[j]["process"]]
            = [j \in Identities |-> store[j]["process"]]
      BY <1>2 DEF AdoptCredentialFor, IInv, TypeOK
    <2> QED
      BY <1>2, <2>1, <2>2, <2>3 DEF AdoptCredentialFor, Promised!HandOut
  <1>3. ASSUME NEW i \in Identities, ResetIdentity(i)
        PROVE  Promised!TakeAway(i)
    <2>1. registered[i] = fresh[i] /\ store[i]["private"] # fresh[i]
      BY <1>3 DEF ResetIdentity, IInv, CallInv, NewestInv, ReturnedInv
    <2>2. [j \in Identities |-> store'[j]["private"]]
            = [[j \in Identities |-> store[j]["private"]] EXCEPT ![i] = None]
      BY <1>3 DEF ResetIdentity, IInv, TypeOK
    <2>3. [j \in Identities |-> store'[j]["process"]]
            = [j \in Identities |-> store[j]["process"]]
      BY <1>3 DEF ResetIdentity, IInv, TypeOK
    <2> QED
      BY <1>3, <2>1, <2>2, <2>3 DEF ResetIdentity, Promised!TakeAway
  <1>4. ASSUME NEW i \in Identities, NEW k \in returned[i] \cup {None},
               store' = [store EXCEPT ![i]["process"] = k],
               UNCHANGED <<accepted, registered, returned>>
        PROVE  Promised!Carry(i)
    <2>1. [j \in Identities |-> store'[j]["process"]]
            = [[j \in Identities |-> store[j]["process"]] EXCEPT ![i] = k]
      <3>1. \A j \in Identities :
              store'[j]["process"] = IF j = i THEN k ELSE store[j]["process"]
        BY <1>4 DEF IInv, TypeOK
      <3> QED
        BY <3>1
    <2>2. [j \in Identities |-> store'[j]["private"]]
            = [j \in Identities |-> store[j]["private"]]
      BY <1>4 DEF IInv, TypeOK
    <2> QED
      BY <1>4, <2>1, <2>2 DEF Promised!Carry
  <1>5. ASSUME NEW i \in Identities, SpawnCoProcess(i)
        PROVE  Promised!Carry(i)
    BY <1>4, <1>5 DEF SpawnCoProcess
  <1>6. ASSUME NEW i \in Identities, NEW s \in Stores,
               AdoptConsumerCredential(i, s)
        PROVE  Promised!Carry(i)
    BY <1>4, <1>6 DEF AdoptConsumerCredential, Offered, IInv, ReturnedInv
  <1>7. ASSUME NEW i \in Identities,
               \/ ConstructApi(i) \/ ForIdentity(i) \/ AdmitConsumer(i)
               \/ ReissueConsumerCredential(i) \/ HostNotTrusted(i)
               \/ RegisterAtCapability(i) \/ Registered(i) \/ NotRegistered(i)
               \/ Refuse(i) \/ \E t \in Targets : RequestModule(i, t)
               \/ \E s \in Identities \cup {Ambient} : ConstructWithStore(i, s)
        PROVE  UNCHANGED Promised!vars
    BY <1>7 DEF ConstructApi, ConstructWithStore, ForIdentity, AdmitConsumer, Refuse, Registered,
                ReissueConsumerCredential, HostNotTrusted, NotRegistered,
                RegisterAtCapability, RequestModule, Fail
  <1>8. CASE HostTokenChanges \/ UNCHANGED vars
    BY <1>8 DEF HostTokenChanges
  <1>9. ASSUME NEW q \in asks, Grant(q) \/ SaveToken(q) \/ AskFails(q)
        PROVE  UNCHANGED Promised!vars
    BY <1>9 DEF Grant, SaveToken, AskFails
  <1> QED
    BY <1>1, <1>2, <1>3, <1>5, <1>6, <1>7, <1>8, <1>9, ChosenAssumption
    DEF Next, HostStep, Promised!Next

\* The admission calls, their lost and late answers and the co-processes do what
\* Credentials promises, for every number of consumers and credentials.
THEOREM AdmissionImplementsCredentials == Spec => ImplementsCredentials
  BY InitPromised, NextPromised, InvariantHolds, PTL
  DEF Spec, ImplementsCredentials, Promised!Spec

\* The branch of admitConsumer and reissueConsumerCredential in which the
\* adoption is refused is unreachable.
THEOREM AdoptionSucceeds == Spec => []AdoptionNeverRefused
  <1>1. IInv => AdoptionNeverRefused
    BY DEF IInv, CallInv, AdoptionNeverRefused, Adoptable
  <1> QED
    BY <1>1, InvariantHolds, PTL
-----------------------------------------------------------------------------
HIDE MaxMintedAssumption DEF None, HostAnchor, Stores, Minted, Value

\* The clients that can be built.
Clients == [target : Callees, transport : Transports, capability : Transports]

\* A request that waits, and one that is answered.
Posted == [step : {"posted"}, target : Callees, transport : Transports]
Served == [step : {"served"}, target : Callees, transport : Transports,
           mode : Modes, client : Clients]

\* The settings, the cache and the requests have their types.
CacheTypeInv ==
  /\ mode \in Modes
  /\ default \in Transports
  /\ override \in Transports \cup {NoTransport}
  /\ clients \in [Keys -> Seq(Clients)]
  /\ request \in [Threads -> {Idle} \cup Posted \cup Served]

\* A client is cached under a key of its own target and, in the Remote mode, of
\* its own transport; no key has two.
KeyedInv ==
  \A k \in Keys :
    /\ Len(clients[k]) <= 1
    /\ clients[k] # <<>> =>
         /\ clients[k][1].target = k[1]
         /\ k[2] = "Remote" => clients[k][1].transport = k[3]

\* The key a request was served under.
KeyOf(r) == Key(r.target, r.mode, r.transport)

\* A client that a thread was handed is, and stays, the cached one.
HandedOutInv ==
  \A t \in Threads :
    request[t].step = "served" => clients[KeyOf(request[t])] = <<request[t].client>>

CacheInv == CacheTypeInv /\ KeyedInv /\ HandedOutInv
-----------------------------------------------------------------------------
\* A sequence that is short and not empty has one element.
LEMMA OneIsLeft ==
  ASSUME NEW n \in Nat, n # 0, n <= 1
  PROVE  n = 1
  OBVIOUS

\* What a key keeps of what was asked for.
LEMMA KeyIsKey ==
  ASSUME NEW g \in Callees, NEW m \in Modes, NEW c \in Transports
  PROVE  /\ Key(g, m, c) \in Keys
         /\ Key(g, m, c)[1] = g
         /\ Key(g, m, c)[2] = m
         /\ m = "Remote" => Key(g, m, c)[3] = c
  BY DEF Key, Keys

\* What a thread waits for, by how far it has come.
LEMMA RequestTypes ==
  ASSUME CacheTypeInv, NEW t \in Threads
  PROVE  /\ request[t].step = "posted" => request[t] \in Posted
         /\ request[t].step = "served" => request[t] \in Served
  BY DEF CacheTypeInv, Idle, Posted, Served

\* Nobody has asked for a client yet.
LEMMA InitCacheInv == CacheInit => CacheInv
  <1> SUFFICES ASSUME CacheInit
               PROVE  CacheInv
    OBVIOUS
  <1>1. CacheTypeInv
    BY DEF CacheInit, CacheTypeInv
  <1>2. KeyedInv
    BY DEF CacheInit, KeyedInv
  <1>3. HandedOutInv
    BY DEF CacheInit, HandedOutInv, Idle
  <1> QED
    BY <1>1, <1>2, <1>3 DEF CacheInv

\* One lookup, and one place of construction: the cache changes only where it
\* had nothing, and then it has the new client.
LEMMA Construction ==
  ASSUME CacheTypeInv, KeyedInv, NEW r \in Posted,
         NEW k \in Keys, k = Key(r.target, mode, r.transport)
  PROVE  /\ ClientsFor(k, r) \in [Keys -> Seq(Clients)]
         /\ \A j \in Keys : j # k \/ clients[k] # <<>> => ClientsFor(k, r)[j] = clients[j]
         /\ clients[k] = <<>> => ClientsFor(k, r)[k] = <<NewClient(r)>>
         /\ Len(ClientsFor(k, r)[k]) = 1
         /\ ClientsFor(k, r)[k][1] \in Clients
         /\ ClientsFor(k, r)[k] = <<ClientsFor(k, r)[k][1]>>
         /\ ClientsFor(k, r)[k][1].target = r.target
         /\ mode = "Remote" => ClientsFor(k, r)[k][1].transport = r.transport
  <1>1. /\ NewClient(r) \in Clients
        /\ NewClient(r).target = r.target
        /\ NewClient(r).transport = r.transport
    BY DEF NewClient, Clients, Posted, CacheTypeInv
  <1>2. /\ clients \in [Keys -> Seq(Clients)]
        /\ clients[k] \in Seq(Clients)
        /\ Len(clients[k]) <= 1
    BY DEF CacheTypeInv, KeyedInv
  <1>3. k[1] = r.target /\ k[2] = mode /\ (mode = "Remote" => k[3] = r.transport)
    BY KeyIsKey DEF Posted, CacheTypeInv
  <1>4. CASE clients[k] = <<>>
    <2>1. Append(clients[k], NewClient(r)) = <<NewClient(r)>>
      BY <1>4, <1>1
    <2>2. ClientsFor(k, r) = [clients EXCEPT ![k] = <<NewClient(r)>>]
      BY <1>4, <2>1 DEF ClientsFor
    <2> QED
      BY <1>1, <1>2, <1>4, <2>2
  <1>5. CASE clients[k] # <<>>
    <2>1. ClientsFor(k, r) = clients
      BY <1>5 DEF ClientsFor
    <2>2. Len(clients[k]) = 1 /\ clients[k][1] \in Clients
      <3>1. Len(clients[k]) \in Nat /\ Len(clients[k]) # 0
        BY <1>2, <1>5, EmptySeq
      <3>2. Len(clients[k]) = 1
        BY <1>2, <3>1, OneIsLeft
      <3> QED
        BY <1>2, <3>2, ElementOfSeq
    <2>3. clients[k] = <<clients[k][1]>>
      BY <1>2, <2>2
    <2>4. /\ clients[k][1].target = r.target
          /\ mode = "Remote" => clients[k][1].transport = r.transport
      BY <1>3, <1>5 DEF KeyedInv
    <2> QED
      BY <1>2, <1>5, <2>1, <2>2, <2>3, <2>4
  <1> QED
    BY <1>4, <1>5

\* The owner's thread answers with the cached client, or the one it has built.
LEMMA ServeKeeps ==
  ASSUME CacheInv, NEW t \in Threads, Serve(t)
  PROVE  CacheInv'
  <1> DEFINE r == request[t]
             k == Key(r.target, mode, r.transport)
             c == clients'[k][Len(clients'[k])]
  <1>1. /\ r \in Posted
        /\ clients' = ClientsFor(k, r)
        /\ request' = [request EXCEPT ![t] =
                         [step |-> "served", target |-> r.target,
                          transport |-> r.transport, mode |-> mode, client |-> c]]
        /\ UNCHANGED <<mode, default, override>>
    BY RequestTypes DEF Serve, CacheInv
  <1>2. k \in Keys
    BY <1>1, KeyIsKey DEF Posted, CacheInv, CacheTypeInv
  <1> HIDE DEF k
  <1>3. /\ clients' \in [Keys -> Seq(Clients)]
        /\ \A j \in Keys : j # k \/ clients[k] # <<>> => clients'[j] = clients[j]
        /\ Len(clients'[k]) = 1
        /\ clients'[k][1] \in Clients
        /\ clients'[k] = <<clients'[k][1]>>
        /\ clients'[k][1].target = r.target
        /\ mode = "Remote" => clients'[k][1].transport = r.transport
    BY <1>1, <1>2, Construction DEF CacheInv, k
  <1>4. c = clients'[k][1]
    BY <1>3
  <1> HIDE DEF c
  <1>5. CacheTypeInv'
    <2>1. [step |-> "served", target |-> r.target, transport |-> r.transport,
           mode |-> mode, client |-> c] \in Served
      BY <1>1, <1>3, <1>4 DEF Served, Posted, CacheInv, CacheTypeInv
    <2> QED
      BY <1>1, <1>3, <2>1 DEF CacheInv, CacheTypeInv
  <1>6. KeyedInv'
    <2>1. k[1] = r.target /\ k[2] = mode /\ (mode = "Remote" => k[3] = r.transport)
      BY <1>1, KeyIsKey DEF k, Posted, CacheInv, CacheTypeInv
    <2> SUFFICES ASSUME NEW j \in Keys
                 PROVE  (/\ Len(clients[j]) <= 1
                         /\ clients[j] # <<>> =>
                              /\ clients[j][1].target = j[1]
                              /\ j[2] = "Remote" => clients[j][1].transport = j[3])'
      BY DEF KeyedInv
    <2>2. CASE j = k
      <3>1. clients'[j][1].target = k[1]
        BY <1>3, <2>1, <2>2, Zenon
      <3>2. Len(clients'[j]) = 1
        BY <1>3, <2>2, Zenon
      <3>3. Len(clients'[j]) <= 1
        BY <3>2
      <3>4. k[2] = "Remote" => clients'[j][1].transport = k[3]
        BY <1>1, <1>3, <2>1, <2>2
      <3> QED
        BY <2>2, <3>1, <3>3, <3>4
    <2>3. CASE j # k
      BY <1>3, <2>3 DEF CacheInv, KeyedInv
    <2> QED
      BY <2>2, <2>3
  <1>7. HandedOutInv'
    <2> SUFFICES ASSUME NEW s \in Threads, request'[s].step = "served"
                 PROVE  clients'[KeyOf(request'[s])] = <<request'[s].client>>
      BY DEF HandedOutInv, KeyOf, Key
    <2>1. CASE s = t
      <3>1. request'[s] = [step |-> "served", target |-> r.target,
                           transport |-> r.transport, mode |-> mode, client |-> c]
        BY <1>1, <2>1 DEF CacheInv, CacheTypeInv
      <3>2. KeyOf(request'[s]) = k
        BY <3>1 DEF KeyOf, k
      <3> QED
        BY <1>3, <1>4, <3>1, <3>2
    <2>2. CASE s # t
      <3>1. request'[s] = request[s] /\ request[s].step = "served"
        BY <1>1, <2>2 DEF CacheInv, CacheTypeInv
      <3>2. KeyOf(request[s]) \in Keys
        BY <3>1, RequestTypes, KeyIsKey DEF KeyOf, Served, CacheInv
      <3>3. clients[KeyOf(request[s])] = <<request[s].client>>
        BY <3>1 DEF CacheInv, HandedOutInv
      <3> QED
        BY <1>3, <3>1, <3>2, <3>3
    <2> QED
      BY <2>1, <2>2
  <1> QED
    BY <1>5, <1>6, <1>7 DEF CacheInv

\* Every step keeps the invariant of the cache.
LEMMA NextCacheInv ==
  ASSUME CacheInv, [CacheNext]_cacheVars
  PROVE  CacheInv'
  <1> USE DEF CacheInv
  <1>1. ASSUME NEW t \in Threads, NEW g \in Callees, NEW c \in Transports,
               GetClient(t, g, c)
        PROVE  CacheInv'
    <2>1. [step |-> "posted", target |-> g, transport |-> c] \in Posted
      BY DEF Posted
    <2>2. CacheTypeInv'
      BY <1>1, <2>1 DEF GetClient, CacheTypeInv
    <2>3. KeyedInv'
      BY <1>1 DEF GetClient, KeyedInv
    <2>4. HandedOutInv'
      BY <1>1 DEF GetClient, CacheTypeInv, HandedOutInv, KeyOf, Key
    <2> QED
      BY <2>2, <2>3, <2>4
  <1>2. ASSUME NEW t \in Threads, NEW g \in Callees, GetClientByDefault(t, g)
        PROVE  CacheInv'
    BY <1>1, <1>2 DEF GetClientByDefault, CacheTypeInv
  <1>3. ASSUME NEW t \in Threads, Serve(t)
        PROVE  CacheInv'
    BY <1>3, ServeKeeps
  <1>4. ASSUME NEW t \in Threads, Return(t)
        PROVE  CacheInv'
    <2>1. CacheTypeInv'
      BY <1>4 DEF Return, CacheTypeInv
    <2>2. KeyedInv'
      BY <1>4 DEF Return, KeyedInv
    <2>3. HandedOutInv'
      BY <1>4 DEF Return, CacheTypeInv, HandedOutInv, KeyOf, Key, Idle
    <2> QED
      BY <2>1, <2>2, <2>3
  <1>5. ASSUME NEW m \in Modes, SetMode(m)
        PROVE  CacheInv'
    BY <1>5 DEF SetMode, CacheTypeInv, KeyedInv, HandedOutInv, KeyOf, Key
  <1>6. ASSUME NEW c \in Transports, SetDefault(c) \/ SetCapabilityModuleTransport(c)
        PROVE  CacheInv'
    BY <1>6 DEF SetDefault, SetCapabilityModuleTransport, CacheTypeInv, KeyedInv,
                HandedOutInv, KeyOf, Key
  <1>7. CASE UNCHANGED cacheVars
    BY <1>7 DEF cacheVars, CacheTypeInv, KeyedInv, HandedOutInv, KeyOf, Key
  <1> QED
    BY <1>1, <1>2, <1>3, <1>4, <1>5, <1>6, <1>7 DEF CacheNext
-----------------------------------------------------------------------------
\* The inductive invariant of ClientCache.
THEOREM CacheInvariantHolds == CacheSpec => []CacheInv
  <1> QED
    BY InitCacheInv, NextCacheInv, PTL DEF CacheSpec

\* The key ignores the transport except in the Remote mode, and there a request
\* is answered by a client of the transport it asked for.
THEOREM NobodyIsAnsweredOtherwise == CacheSpec => []AnsweredAsAsked
  <1>1. CacheInv => AnsweredAsAsked
    <2> SUFFICES ASSUME CacheInv, NEW t \in Threads,
                        request[t].step = "served", request[t].mode = "Remote"
                 PROVE  request[t].client.transport = request[t].transport
      BY DEF AnsweredAsAsked
    <2>1. request[t] \in Served
      BY RequestTypes DEF CacheInv
    <2>2. /\ KeyOf(request[t]) \in Keys
          /\ KeyOf(request[t])[2] = "Remote"
          /\ KeyOf(request[t])[3] = request[t].transport
      BY <2>1, KeyIsKey DEF Served, KeyOf
    <2>3. clients[KeyOf(request[t])] = <<request[t].client>>
      BY DEF CacheInv, HandedOutInv
    <2>4. clients[KeyOf(request[t])] # <<>>
          /\ clients[KeyOf(request[t])][1] = request[t].client
      BY <2>3
    <2> QED
      BY <2>2, <2>4 DEF CacheInv, KeyedInv
  <1> QED
    BY <1>1, CacheInvariantHolds, PTL

\* All threads share the one client of a key, from whichever thread they asked.
THEOREM NoClientIsBuiltTwice == CacheSpec => []OneClientPerKey
  <1>1. CacheInv => OneClientPerKey
    BY DEF CacheInv, KeyedInv, HandedOutInv, KeyOf, OneClientPerKey
  <1> QED
    BY <1>1, CacheInvariantHolds, PTL
=============================================================================
