-------------------------------- MODULE Arp ---------------------------------
(***************************************************************************)
(* Address resolution, arp.cpp.  Resolve busy-waits on the cache; what     *)
(* fills the cache is the interrupt handler, which runs to completion and  *)
(* never while it is itself running.  The main loop resolves addresses     *)
(* (BroadcastMACAddress, and every IP packet it sends) and so does the     *)
(* handler, when a packet it received makes it send one.                   *)
(*                                                                         *)
(* The network (external) answers, loses, repeats and invents responses:   *)
(* nothing ties a response to a request in the code either.                *)
(***************************************************************************)
EXTENDS Integers, Sequences, FiniteSets

CONSTANTS
  Hosts,        \* IP addresses on the local network
  Macs,         \* link addresses in use there: [hi: 16 bits, lo: 32 bits]
  CacheSize,    \* room in the cache (128)
  MaxUnasked    \* bound: responses sent without a request

NoMac == [hi |-> -1, lo |-> -1]     \* FF:FF:FF:FF:FF:FF, "not resolved"

ASSUME CacheSizeAssumption == CacheSize \in Nat
ASSUME MacsAssumption == Macs \subseteq [hi : Nat, lo : Nat]

VARIABLES
  cache,        \* IPcache and MACcache up to numCacheEntries: [ip, mac]
  asked,        \* hosts a request is on the wire for
  responses,    \* responses on the wire: [ip, mac]
  announced,    \* every response that ever reached this machine
  resolving,    \* per context: the host Resolve is called for, or none
  step,         \* per context: "idle", "miss" before the request, "spin" after
  resolved,     \* what the main loop was last given: [ip, mac]
  unasked,      \* responses sent without a request so far
  lost          \* a request or a response has been lost

arpVars == <<cache, asked, responses, announced, resolving, step, resolved,
             unasked, lost>>
wireVars == <<asked, responses, unasked, lost>>

None == "none"
Callers == {"main", "handler"}

ArpInit ==
  /\ cache = << >>
  /\ asked = {} /\ responses = {} /\ announced = {}
  /\ resolving = [c \in Callers |-> None]
  /\ step = [c \in Callers |-> "idle"]
  /\ resolved = [ip |-> None, mac |-> NoMac]
  /\ unasked = 0 /\ lost = FALSE

\* the main loop stands still while the handler runs
MayRun(c) == c = "handler" \/ step["handler"] = "idle"

-----------------------------------------------------------------------------

\* mutant: the youngest entry is found first
LookupLast(ip) ==
  LET hits == {i \in DOMAIN cache : cache[i].ip = ip}
  IN  IF hits = {} THEN NoMac
      ELSE cache[CHOOSE i \in hits : \A j \in hits : j <= i].mac

(* GetMACFromCache: the first entry for the address *)
GetMACFromCache(ip) ==
  LET hits == {i \in DOMAIN cache : cache[i].ip = ip}
  IN  IF hits = {} THEN NoMac
      ELSE cache[CHOOSE i \in hits : \A j \in hits : i <= j].mac

Known(ip) == GetMACFromCache(ip) # NoMac

(* Resolve is called and looks the address up; a hit returns at once.  The
   handler resolves the sender of a packet it answers. *)
Resolve(c, ip) ==
  /\ MayRun(c) /\ step[c] = "idle"
  /\ \/ /\ Known(ip)
        /\ resolved' = IF c = "main" THEN [ip |-> ip, mac |-> GetMACFromCache(ip)]
                       ELSE resolved
        /\ UNCHANGED <<resolving, step>>
     \/ /\ ~ Known(ip)
        /\ resolving' = [resolving EXCEPT ![c] = ip]
        /\ step' = [step EXCEPT ![c] = "miss"]
        /\ UNCHANGED resolved
  /\ UNCHANGED <<cache, announced, wireVars>>

\* mutant: nothing is asked, Resolve only waits
RequestForgotten(c) ==
  /\ MayRun(c) /\ step[c] = "miss"
  /\ step' = [step EXCEPT ![c] = "spin"]
  /\ UNCHANGED <<cache, asked, responses, announced, resolving, resolved, unasked, lost>>

(* RequestMACAddress, once, whatever the cache holds by now. *)
Request(c) ==
  /\ MayRun(c) /\ step[c] = "miss"
  /\ asked' = asked \cup {resolving[c]}
  /\ step' = [step EXCEPT ![c] = "spin"]
  /\ UNCHANGED <<cache, responses, announced, resolving, resolved, unasked, lost>>

(* The loop of Resolve finds the address. *)
SpinEnds(c) ==
  /\ MayRun(c) /\ step[c] = "spin"
  /\ Known(resolving[c])
  /\ resolved' = IF c = "main"
                 THEN [ip |-> resolving[c], mac |-> GetMACFromCache(resolving[c])]
                 ELSE resolved
  /\ resolving' = [resolving EXCEPT ![c] = None]
  /\ step' = [step EXCEPT ![c] = "idle"]
  /\ UNCHANGED <<cache, announced, wireVars>>

-----------------------------------------------------------------------------

\* a 48-bit address as the 32-bit MACcache keeps it
Truncated(mac) == [mac EXCEPT !.hi = 0]

(* A response is entered if there is room, a second one for the same host too. *)
Remember(r) ==
  cache' = IF Len(cache) < CacheSize
           THEN Append(cache, [ip |-> r.ip, mac |-> Truncated(r.mac)])
           ELSE cache

(* OnEtherFrameReceived for a response to this machine *)
ResponseArrives(r) ==
  /\ step["handler"] = "idle"
  /\ Remember(r)
  /\ announced' = announced \cup {r}
  /\ responses' = responses \ {r}
  /\ UNCHANGED <<asked, resolving, step, resolved, unasked, lost>>

-----------------------------------------------------------------------------
(* The network.                                                            *)

Respond(ip) ==
  /\ \E mac \in Macs : responses' = responses \cup {[ip |-> ip, mac |-> mac]}
  /\ asked' = asked \ {ip}
  /\ UNCHANGED <<cache, announced, resolving, step, resolved, unasked, lost>>

RespondUnasked(ip) ==
  /\ unasked < MaxUnasked
  /\ unasked' = unasked + 1
  /\ \E mac \in Macs : responses' = responses \cup {[ip |-> ip, mac |-> mac]}
  /\ UNCHANGED <<cache, asked, announced, resolving, step, resolved, lost>>

Lose ==
  /\ lost' = TRUE
  /\ \/ \E ip \in asked : asked' = asked \ {ip} /\ UNCHANGED responses
     \/ \E r \in responses : responses' = responses \ {r} /\ UNCHANGED asked
  /\ UNCHANGED <<cache, announced, resolving, step, resolved, unasked>>

-----------------------------------------------------------------------------

Progress(c) == Request(c) \/ SpinEnds(c)
Arrival == \E r \in responses : ResponseArrives(r)

ArpNext ==
  \/ \E c \in Callers, ip \in Hosts : Resolve(c, ip)
  \/ \E c \in Callers : Progress(c)
  \/ Arrival
  \/ \E ip \in asked : Respond(ip)
  \/ \E ip \in Hosts : RespondUnasked(ip)
  \/ Lose

(* The loop of Resolve tests the cache again and again, a pending interrupt
   is served when none is running, and hosts answer what reaches them. *)
ArpFairness ==
  /\ \A c \in Callers : WF_arpVars(Progress(c))
  /\ \A ip \in Hosts, mac \in Macs :
       WF_arpVars(LET r == [ip |-> ip, mac |-> mac]
                  IN  r \in responses /\ ResponseArrives(r))
  /\ \A ip \in Hosts : WF_arpVars(ip \in asked /\ Respond(ip))

ArpSpec == ArpInit /\ [][ArpNext]_arpVars
ArpLiveSpec == ArpSpec /\ ArpFairness

-----------------------------------------------------------------------------

(* The first response about a host is believed for good: a later one, of a
   host that changed its card, changes nothing. *)
FirstResponseStays ==
  [][\A ip \in Hosts :
       Known(ip) => GetMACFromCache(ip)' = GetMACFromCache(ip)]_arpVars

(* Resolve of the main loop returns, with three exceptions: a message was
   lost (it is not repeated), the cache is full of other entries, or the
   handler itself is inside Resolve. *)
FullWithout(ip) == Len(cache) = CacheSize /\ ~ Known(ip)
ResolveReturns ==
  \A ip \in Hosts :
    (resolving["main"] = ip) ~>
      (\/ resolving["main"] # ip
       \/ lost
       \/ FullWithout(ip)
       \/ step["handler"] # "idle")

(* Resolve gives the address that its host announced. *)
ResolvesToAnnounced ==
  resolved.ip # None => [ip |-> resolved.ip, mac |-> resolved.mac] \in announced
=============================================================================
