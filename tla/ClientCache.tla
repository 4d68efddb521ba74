----------------------------- MODULE ClientCache -----------------------------
(***************************************************************************)
(* LogosAPI::getClient and its cache of clients (cpp/logos_api.cpp,        *)
(* LogosAPIClientCacheKey of cpp/logos_api.h).                             *)
(*                                                                         *)
(* Any thread may ask for a client.  The one-argument overload reads the   *)
(* process-wide default transport on the calling thread; the lookup, the   *)
(* mode and the construction belong to the thread that owns the LogosAPI,  *)
(* and the caller blocks until that thread has served it.  In between      *)
(* other threads are served, and the default, the mode and the registered  *)
(* capability_module transport may change.                                 *)
(*                                                                         *)
(* The marshalling (logos_thread_marshal.h), the mode and the default      *)
(* (LogosModeConfig, LogosTransportConfigGlobal) are external.             *)
(***************************************************************************)
EXTENDS Naturals, Sequences

CONSTANTS
  Threads,    \* the threads that ask for clients
  Owner,      \* the one that owns the LogosAPI
  Callees,    \* the modules they want to call
  Transports  \* transport configurations that differ in some field

Unkeyed     == "any transport"
NoTransport == "none"
Modes       == {"Remote", "Local", "Mock"}

ASSUME OwnerAssumption == Owner \in Threads
ASSUME TransportsAssumption == {Unkeyed, NoTransport} \cap Transports = {}

VARIABLES
  mode,        \* LogosModeConfig::getMode()
  default,     \* LogosTransportConfigGlobal::getDefault()
  override,    \* m_capabilityModuleTransport, or NoTransport
  clients,     \* clients[k]: the clients built under key k, the cached one last
  request      \* request[t]: what thread t waits for, and what it was answered

cacheVars == <<mode, default, override, clients, request>>

\* LogosAPIClientCacheKey: its equality ignores the transport except in the
\* Remote mode.
Keys == Callees \X Modes \X (Transports \cup {Unkeyed})

\* Slip: the transport is left out of the key.
KeyWithoutTransport(target, m, transport) == <<target, m, Unkeyed>>

Key(target, m, transport) ==
  <<target, m, IF m = "Remote" THEN transport ELSE Unkeyed>>

Idle == [step |-> "idle"]

CacheInit ==
  /\ mode \in Modes
  /\ default \in Transports
  /\ override = NoTransport
  /\ clients = [k \in Keys |-> <<>>]
  /\ request = [t \in Threads |-> Idle]
-----------------------------------------------------------------------------
\* getClient, with a transport or with the default of this moment.
GetClient(t, target, transport) ==
  /\ request[t] = Idle
  /\ request' = [request EXCEPT ![t] =
                   [step |-> "posted", target |-> target, transport |-> transport]]
  /\ UNCHANGED <<mode, default, override, clients>>

GetClientByDefault(t, target) == GetClient(t, target, default)

\* A new client: built for this target and transport, with the capability_module
\* transport registered by now, or the default.
NewClient(r) ==
  [target     |-> r.target,
   transport  |-> r.transport,
   capability |-> IF override = NoTransport THEN default ELSE override]

\* Slip: a client that was registered with another capability transport since
\* is built anew.
ClientsWithOverride(k, r) ==
  IF clients[k] # <<>> /\ override \in {NoTransport, clients[k][Len(clients[k])].capability}
  THEN clients
  ELSE [clients EXCEPT ![k] = Append(@, NewClient(r))]

\* The cache after a request is served: one lookup, one place of construction.
ClientsFor(k, r) ==
  IF clients[k] # <<>> THEN clients
                       ELSE [clients EXCEPT ![k] = Append(@, NewClient(r))]

\* The owner's thread serves a request; one of its own it serves at once.
Serve(t) ==
  LET r == request[t]
      k == Key(r.target, mode, r.transport)
  IN  /\ r.step = "posted"
      /\ t # Owner => request[Owner].step # "posted"
      /\ clients' = ClientsFor(k, r)
      /\ request' = [request EXCEPT ![t] =
                       [step |-> "served", target |-> r.target,
                        transport |-> r.transport, mode |-> mode,
                        client |-> clients'[k][Len(clients'[k])]]]
      /\ UNCHANGED <<mode, default, override>>

\* getClient returns to its caller.
Return(t) ==
  /\ request[t].step = "served"
  /\ request' = [request EXCEPT ![t] = Idle]
  /\ UNCHANGED <<mode, default, override, clients>>

\* The settings change.
SetMode(m) ==
  /\ m # mode
  /\ mode' = m
  /\ UNCHANGED <<default, override, clients, request>>

SetDefault(c) ==
  /\ c # default
  /\ default' = c
  /\ UNCHANGED <<mode, override, clients, request>>

SetCapabilityModuleTransport(c) ==
  /\ c # override
  /\ override' = c
  /\ UNCHANGED <<mode, default, clients, request>>
-----------------------------------------------------------------------------
CacheNext ==
  \/ \E t \in Threads, g \in Callees :
       \/ GetClientByDefault(t, g)
       \/ \E c \in Transports : GetClient(t, g, c)
  \/ \E t \in Threads : Serve(t) \/ Return(t)
  \/ \E m \in Modes : SetMode(m)
  \/ \E c \in Transports : SetDefault(c) \/ SetCapabilityModuleTransport(c)

CacheSpec == CacheInit /\ [][CacheNext]_cacheVars
-----------------------------------------------------------------------------
\* "no risk of silently reusing an insecure connection where a secure one was
\* asked for": whatever clients exist and however the settings change while the
\* caller waits, over the wire it gets a client of the transport it asked for.
AnsweredAsAsked ==
  \A t \in Threads :
    LET r == request[t] IN
    r.step = "served" /\ r.mode = "Remote" => r.client.transport = r.transport

\* No two threads are ever given different clients for one key, and a client
\* once handed out stays the one in use: the replicas of a target are not built
\* twice.
OneClientPerKey ==
  /\ \A k \in Keys : Len(clients[k]) <= 1
  /\ \A t \in Threads :
       LET r == request[t] IN
       r.step = "served" => clients[Key(r.target, r.mode, r.transport)] = <<r.client>>
=============================================================================
