------------------------------ MODULE HostTrust ------------------------------
(***************************************************************************)
(* What host-key verification promises, with no sessions, prompts, timers  *)
(* or threads: a key is pinned for a host, and a credential is offered to  *)
(* a host, only after the operator approved that very key for that host.   *)
(* Connection implements it (see Connection!Trust).                        *)
(***************************************************************************)
CONSTANTS Hosts,   \* endpoints, i.e. (hostname, port) pairs
          Keys,    \* public host keys
          None     \* no key

VARIABLES pinned,    \* the known_hosts table
          approved,  \* <<host, key>> pairs the operator has confirmed
          offered    \* <<host, key>> pairs a credential was sent to

vars == <<pinned, approved, offered>>

\* Pins that survive from earlier runs of the program were confirmed then.
Init ==
    /\ pinned \in [Hosts -> Keys \cup {None}]
    /\ approved = {<<h, pinned[h]>> : h \in {x \in Hosts : pinned[x] # None}}
    /\ offered = {}

Approve(h, k) ==
    /\ approved' = approved \cup {<<h, k>>}
    /\ UNCHANGED <<pinned, offered>>

Pin(h, k) ==
    /\ <<h, k>> \in approved
    /\ pinned' = [pinned EXCEPT ![h] = k]
    /\ UNCHANGED <<approved, offered>>

Offer(h, k) ==
    /\ <<h, k>> \in approved
    /\ offered' = offered \cup {<<h, k>>}
    /\ UNCHANGED <<pinned, approved>>

Next == \E h \in Hosts, k \in Keys : Approve(h, k) \/ Pin(h, k) \/ Offer(h, k)

Spec == Init /\ [][Next]_vars
=============================================================================
