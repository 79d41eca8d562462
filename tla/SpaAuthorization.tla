-------------------------- MODULE SpaAuthorization --------------------------
(***************************************************************************)
(* What fwknopd's SPA path promises, with no stanza loop or digest store:  *)
(* datagrams are taken one at a time, up to a limit, and each one is       *)
(* granted at most one effect (firewall access, a command, a command      *)
(* cycle), while it is the datagram being handled; every effect is        *)
(* admitted by the access policy and, when replays are to be suppressed,   *)
(* no two are granted for the same SPA data.                               *)
(***************************************************************************)
EXTENDS Naturals

CONSTANTS
    Grantable,      \* the effects the access policy admits
    OncePerDigest,  \* replay suppression is on
    Limit           \* the number of datagrams the server takes

VARIABLES
    handled,        \* datagrams taken so far; the last one is being handled
    granted         \* the effects granted so far, each tagged with its datagram

vars == <<handled, granted>>

Init == handled = 0 /\ granted = {}

(* The next datagram is taken. *)
Take ==
    /\ handled < Limit
    /\ handled' = handled + 1
    /\ UNCHANGED granted

(* An effect is granted for the datagram being handled: it is admitted  *)
(* by the policy, that datagram has had no effect yet and, with replay  *)
(* suppression on, its SPA data was never granted anything.             *)
Grant(e) ==
    /\ e \in Grantable
    /\ handled > 0
    /\ e.n = handled
    /\ \A x \in granted : x.n # e.n
    /\ OncePerDigest => \A x \in granted : x.digest # e.digest
    /\ granted' = granted \cup {e}
    /\ UNCHANGED handled

Next == Take \/ \E e \in granted' \ granted : Grant(e)

Spec == Init /\ [][Next]_vars
=============================================================================
