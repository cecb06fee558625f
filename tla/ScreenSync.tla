----------------------------- MODULE ScreenSync -----------------------------
(***************************************************************************)
(* What the tab of Storefront shows when nothing is under way.             *)
(* A handler that fails half-way has moved units and broadcasts nothing,   *)
(* and the tab loads again either its page or nothing after a failure, but *)
(* never the cart; of what other tabs do to its user's cart it is not      *)
(* told.  Two history variables, which no action of Storefront reads, keep *)
(* what the tab cannot know; all the rest it must show as it is.           *)
(***************************************************************************)
EXTENDS Storefront

VARIABLES unheard,      \* items whose count changed and was not sent to the tab
          unsure        \* users whose cart changed and was not sent to the tab

allVars == <<vars, unheard, unsure>>

(* What a step sends to the tab. *)
New == {net'[j] : j \in Len(net) + 1 .. Len(net')}

Succeeds == \E m \in New : m.kind # "push" /\ m.status = "ok"

(* After the failure of these the tab loads its page again. *)
Reloaded == {i \in Item : \E m \in New : /\ m.kind \in {"add", "plus", "minus"}
                                         /\ m.status # "ok"
                                         /\ m.item = i /\ PageOf[i] = pageState.page}

CountsMissed ==
  {i \in Item : \/ ~Succeeds /\ free'[i] # free[i] /\ i \notin Reloaded
                \/ \E m \in New : /\ m.kind = "items" /\ m.status # "ok"
                                  /\ PageOf[i] = m.page}

CountsSent == {i \in Item : \E m \in New : i \in DOMAIN m.counts}

CartsMissed ==
  {u \in User : \/ ~Succeeds /\ held'[u] # held[u]
                \/ \E m \in New : m.kind = "cart" /\ m.status # "ok" /\ m.user = u}

CartsSent ==
  {u \in User : \E m \in New : /\ m.kind \in {"cart", "checkout"} /\ m.status = "ok"
                               /\ m.user = u}

ScreenInit == Init /\ unheard = {} /\ unsure = {}

(* What the history variables keep of a step. *)
Noted == /\ unheard' = (unheard \cup CountsMissed) \ CountsSent
         /\ unsure' = (unsure \cup CartsMissed) \ CartsSent

TabNoted == Tab /\ Noted

ElsewhereNoted == (\E u \in User : Elsewhere(u)) /\ Noted

FailureNoted == (\E u \in User, i \in Item : ElsewhereFails(u, i)) /\ Noted

ScreenNext == TabNoted \/ ElsewhereNoted \/ FailureNoted

ScreenSpec == ScreenInit /\ [][ScreenNext]_allVars

-----------------------------------------------------------------------------
(* Properties.                                                             *)

(* When all has been answered and nothing is under way, the tab shows the  *)
(* cart of its user and the live count of every item on the page, but for  *)
(* those that it cannot know.  It knows what changed by its own requests:  *)
(* each operation asks again for what its outcome may have changed (the    *)
(* cart after a success, the page after a failure) and the pushes do the   *)
(* rest; what a push or a load brings, it shows.                           *)
ScreenInSync ==
  (requests = << >> /\ net = << >> /\ session # None) =>
    /\ session \notin unsure => cart = held[session]
    /\ \A i \in DOMAIN items \ unheard : items[i] = free[i]

=============================================================================
