-------------------------------- MODULE GeoIP --------------------------------
(***************************************************************************)
(* internal/geoip: addresses resolved through a table of the store and, on *)
(* a miss, an HTTP service.  The service is waited for with no lock held,  *)
(* so that two callers may ask for one address and store their answers in  *)
(* either order.  A result is the set of the things it tells.              *)
(***************************************************************************)
EXTENDS FiniteSets

CONSTANTS
    Host,       \* the addresses
    Caller,     \* who calls Resolve: the peers worker, a request
    Nobody      \* no address, no entry, no row

VARIABLES
    cache,      \* table geoip_cache
    asking      \* the address a caller waits for the service to resolve

geo == <<cache, asking>>

(* What the service may say: nothing, a country without coordinates (they   *)
(* are then (0, 0)), or both.                                               *)
Located == {"country", "coords"}
Answer == {{}, {"country"}, Located}

GeoTypeOK ==
    /\ cache \in [Host -> Answer \cup {Nobody}]
    /\ asking \in [Caller -> Host \cup {Nobody}]

(* Releases before the coordinates stored countries only.                   *)
GeoInit ==
    /\ cache \in [Host -> {Nobody, {"country"}}]
    /\ asking = [c \in Caller |-> Nobody]

(* A slip: an entry is used even when it has no coordinates.                *)
Cached(h) == cache[h] # Nobody

GeoHit(h) == cache[h] = Located

(* The cache has no coordinates, or cannot be read.                         *)
GeoAsk(c, h) ==
    /\ asking[c] = Nobody
    /\ asking' = [asking EXCEPT ![c] = h]
    /\ UNCHANGED cache

(* The answer is stored, ON CONFLICT(ip) DO UPDATE, and returned.           *)
GeoAnswer(c, g) ==
    /\ asking[c] # Nobody
    /\ cache' = [cache EXCEPT ![asking[c]] = g]
    /\ asking' = [asking EXCEPT ![c] = Nobody]

(* No answer, or one that could not be stored.                              *)
GeoUnstored(c) ==
    /\ asking[c] # Nobody
    /\ asking' = [asking EXCEPT ![c] = Nobody]
    /\ UNCHANGED cache
=============================================================================
