----------------------------- MODULE Broadcast ------------------------------
(***************************************************************************)
(* What the stock:update broadcast of FlashSale tells the clients.  A      *)
(* handler broadcasts last, so one that throws after it has changed a      *)
(* counter, or dies with the server, leaves the clients with a count that  *)
(* nobody corrects before the next broadcast of that item; the seed of a   *)
(* boot changes counters and broadcasts none.  A history variable, which   *)
(* no action of FlashSale reads, keeps the items this has happened to.     *)
(***************************************************************************)
EXTENDS FlashSale

VARIABLE unheard        \* the items that clients show a stale count of

heardVars == <<vars, unheard>>

(* Handler r dies: a command has failed, or the server has crashed. *)
Throws(r) == /\ Crash \/ CommandFails(r) \/ SaveRowReplyLost(r)
             /\ InFlight(r) /\ req'[r].pc = "done"

ExpiryThrows(h) == Crash \/ ExpireFails(h)

(* The counters that a step leaves other than they are shown, with nobody  *)
(* under way who would broadcast them.                                     *)
Silenced ==
  {i \in Item : /\ stock'[i] # shown'[i]
                /\ \/ \E r \in Request : Throws(r) /\ req[r].item = i
                   \/ \E h \in exp : /\ h.row # None /\ h.row.item = i
                                     /\ ExpiryThrows(h)
                   \/ SeedStock}

Told == {i \in Item : \/ \E r \in Request : Emit(r) /\ req[r].item = i
                      \/ \E h \in exp : ExpireEmit(h) /\ h.row.item = i}

HeardInit == Init /\ unheard = {}

HeardNext == Next /\ unheard' = (unheard \cup Silenced) \ Told

HeardSpec == HeardInit /\ [][HeardNext]_heardVars

-----------------------------------------------------------------------------
(* Properties.                                                             *)

Quiet == exp = {} /\ \A r \in Request : ~InFlight(r)

(* When nothing is under way, every client shows the live counter of every *)
(* item but those that a handler which died had changed without a          *)
(* broadcast, or a boot's seed has, and these until their next broadcast.  *)
ClientsInSync == Quiet => \A i \in Item \ unheard : shown[i] = stock[i]

=============================================================================
