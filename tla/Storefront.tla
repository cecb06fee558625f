----------------------------- MODULE Storefront -----------------------------
(***************************************************************************)
(* One browser tab: CartService, its API and socket services, and the      *)
(* components that offer its operations.  The backend is what StockLedger  *)
(* promises: it executes each request at once, then its reply and the      *)
(* stock:update pushes travel to the tab, which handles one at a time.     *)
(* Other tabs move units too, and the tab hears of it by pushes alone.     *)
(***************************************************************************)
EXTENDS Integers, FiniteSets, SequencesExt

CONSTANTS Item, User, TotalStock,
          PageOf,       \* the page of the catalogue an item is on
          None,
          Patient,      \* does the user wait for answers before he goes on?
          Reliable,     \* does all that is sent to the tab arrive, in order?
          MayFail,      \* the kinds of requests that may fail
          MaxRequests,  \* requests under way, at most
          MaxPushes,    \* pushes under way when anybody acts, at most
          MaxTimers,    \* pending dismissals of one line's error, at most
          MaxUnits      \* units of every item that failures lead to, at most

LastPage == CHOOSE p \in {PageOf[i] : i \in Item} : \A i \in Item : PageOf[i] <= p

ASSUME StorefrontAssumption ==
  /\ PageOf \in [Item -> Nat \ {0}]
  /\ \E i \in Item : \A j \in Item : PageOf[j] <= PageOf[i]
  /\ \A p \in 1 .. LastPage : \E i \in Item : PageOf[i] = p
  /\ None \notin User \cup Item
  /\ {Patient, Reliable} \subseteq BOOLEAN
  /\ {MaxRequests, MaxPushes, MaxTimers} \subseteq Nat
  /\ {TotalStock, MaxUnits} \subseteq [Item -> Nat]

VARIABLES free, held, sold,     \* the backend, as in StockLedger
          requests,     \* requests the backend has not executed yet
          net,          \* replies and pushes on their way, in order of sending
          session,      \* sessionSubject and the token in localStorage
          items,        \* itemsSubject: the remaining of every item shown
          pageState,    \* pageStateSubject
          cart,         \* cartSubject: the quantity of every line, or 0
          lastOrder,    \* orderSubject: whose order is confirmed, or None
          lineError,    \* lineErrorSubject: the line in error, or None
          timers        \* the pending dismissals of every line's error

Ledger == INSTANCE StockLedger

ledgerVars == <<free, held, sold>>
screen == <<session, items, pageState, cart, lastOrder, lineError, timers>>
vars == <<ledgerVars, requests, net, screen>>

-----------------------------------------------------------------------------
(* What travels.                                                           *)

Kind == {"login", "items", "cart", "add", "plus", "minus", "remove", "checkout"}

EMPTY_CART == [i \in Item |-> 0]

(* A request: the operation, the user of its bearer token (or, of a login, *)
(* the user it names), the item or the page it is about.                   *)
Request == [kind : Kind, user : User \cup {None}, item : Item \cup {None},
            page : Nat]

Ask(kind, u, i, p) == [kind |-> kind, user |-> u, item |-> i, page |-> p]

(* The counts of some items. *)
IsCounts(f) == DOMAIN f \subseteq Item /\ f \in [DOMAIN f -> Nat]

(* A reply to a request, with the cart or the counts it carries; or the    *)
(* pushes one request causes, which travel together.                       *)
IsMessage(m) ==
  /\ [kind |-> m.kind, user |-> m.user, item |-> m.item, page |-> m.page]
       \in [kind : Kind \cup {"push"}, user : User \cup {None},
            item : Item \cup {None}, page : Nat]
  /\ m.status \in {"ok", "conflict", "error"}
  /\ m.cart \in [Item -> Nat]
  /\ IsCounts(m.counts)

Reply(c, status, lines, counts) ==
  [kind |-> c.kind, user |-> c.user, item |-> c.item, page |-> c.page,
   status |-> status, cart |-> lines, counts |-> counts]

Answer(c, status) == Reply(c, status, EMPTY_CART, << >>)

(* stock:update, for the items in S. *)
Push(S, remaining) == Reply(Ask("push", None, None, 0), "ok", EMPTY_CART,
                            [i \in S |-> remaining[i]])

OnPage(p) == {i \in Item : PageOf[i] = p}

TypeOK ==
  /\ free \in [Item -> Nat]
  /\ held \in [User -> [Item -> Nat]]
  /\ sold \in [Item -> Nat]
  /\ requests \in Seq(Request)
  /\ \A j \in DOMAIN net : IsMessage(net[j])
  /\ session \in User \cup {None}
  /\ IsCounts(items)
  /\ pageState \in [page : 1 .. LastPage, totalPages : {1, LastPage}]
  /\ cart \in [Item -> Nat]
  /\ lastOrder \in User \cup {None}
  /\ lineError \in Item \cup {None}
  /\ timers \in [Item -> 0 .. MaxTimers]

(* ngOnInit: with a session restored from localStorage, load everything.   *)
Init ==
  /\ Ledger!Init
  /\ session \in User \cup {None}
  /\ requests = IF session = None THEN << >>
                ELSE <<Ask("items", session, None, 1), Ask("cart", session, None, 0)>>
  /\ net = << >>
  /\ items = << >>
  /\ pageState = [page |-> 1, totalPages |-> 1]
  /\ cart = EMPTY_CART
  /\ lastOrder = None
  /\ lineError = None
  /\ timers = EMPTY_CART

-----------------------------------------------------------------------------
(* What the user does.  The screen is the login form, the confirmation of  *)
(* an order, or the store with its drawer (app.component.html).            *)

Replies == {j \in DOMAIN net : net[j].kind # "push"}
Underway == Len(requests) + Cardinality(Replies)
PushesUnderway == Len(net) - Cardinality(Replies)

MayAct == /\ Underway < MaxRequests
          /\ PushesUnderway <= MaxPushes
          /\ Patient => Underway = 0

InStore == session # None /\ lastOrder = None

Send(c) == requests' = Append(requests, c)

Login(u) ==
  /\ MayAct
  /\ session = None
  /\ Send(Ask("login", u, None, 0))
  /\ UNCHANGED <<ledgerVars, net, screen>>

logout ==
  /\ MayAct
  /\ InStore
  /\ session' = None
  /\ cart' = EMPTY_CART
  /\ lastOrder' = None
  /\ UNCHANGED <<ledgerVars, requests, net, items, pageState, lineError, timers>>

(* loadItems, of the page shown unless another one is asked for. *)
LoadItems(p) == Ask("items", session, None, p)

(* A mistake: the page after the last one is let through. *)
PageOrNextExists(p) == p >= 1 /\ p <= pageState.totalPages + 1

PageExists(p) == p >= 1 /\ p <= pageState.totalPages

goToPage(p) ==
  /\ MayAct
  /\ InStore
  /\ PageExists(p)
  /\ Send(LoadItems(p))
  /\ UNCHANGED <<ledgerVars, net, screen>>

(* The card's button is disabled when its count is 0. *)
Grab(i) ==
  /\ MayAct
  /\ InStore
  /\ i \in DOMAIN items
  /\ items[i] # 0
  /\ Send(Ask("add", session, i, 0))
  /\ UNCHANGED <<ledgerVars, net, screen>>

(* A line of the cart, shown with its buttons. *)
Line(i) == MayAct /\ InStore /\ cart[i] > 0

(* The drawer joins a line with the count of the items shown, or 0. *)
Remaining(i) == IF i \in DOMAIN items THEN items[i] ELSE 0

CanIncrease(i) == Remaining(i) # 0

increase(i) ==
  /\ Line(i)
  /\ CanIncrease(i)
  /\ timers[i] + Underway < MaxTimers
  /\ Send(Ask("plus", session, i, 0))
  /\ UNCHANGED <<ledgerVars, net, screen>>

(* "-" at a quantity of 1, as the screen has it, is a remove. *)
decrease(i) ==
  /\ Line(i)
  /\ timers[i] + Underway < MaxTimers
  /\ Send(Ask(IF cart[i] <= 1 THEN "remove" ELSE "minus", session, i, 0))
  /\ UNCHANGED <<ledgerVars, net, screen>>

remove(i) ==
  /\ Line(i)
  /\ Send(Ask("remove", session, i, 0))
  /\ UNCHANGED <<ledgerVars, net, screen>>

checkout ==
  /\ MayAct
  /\ InStore
  /\ cart # EMPTY_CART
  /\ Send(Ask("checkout", session, None, 0))
  /\ UNCHANGED <<ledgerVars, net, screen>>

(* The page is loaded anew, with the session localStorage keeps (a reload  *)
(* while requests are under way is left out).  Pushes to the old page are  *)
(* lost.                                                                   *)
ReloadPage ==
  /\ session # None
  /\ Underway = 0
  /\ MaxRequests >= 2
  /\ requests' = <<Ask("items", session, None, 1), Ask("cart", session, None, 0)>>
  /\ net' = << >>
  /\ items' = << >>
  /\ pageState' = [page |-> 1, totalPages |-> 1]
  /\ cart' = EMPTY_CART
  /\ lastOrder' = None
  /\ lineError' = None
  /\ timers' = EMPTY_CART
  /\ UNCHANGED <<ledgerVars, session>>

backToStore ==
  /\ MayAct
  /\ session # None /\ lastOrder # None
  /\ lastOrder' = None
  /\ Send(LoadItems(pageState.page))
  /\ UNCHANGED <<ledgerVars, net, session, items, pageState, cart, lineError, timers>>

-----------------------------------------------------------------------------
(* The backend.                                                            *)

(* The reply to a request that moves nothing, or units of the items in S.  *)
Respond(c, status) == net' = Append(net, Answer(c, status))

BroadcastAndRespond(c, S) == net' = net \o <<Push(S, free'), Answer(c, "ok")>>

ServeLogin(c) ==
  /\ c.kind = "login"
  /\ Respond(c, "ok")
  /\ UNCHANGED ledgerVars

ServeItems(c) ==
  /\ c.kind = "items"
  /\ net' = Append(net, Reply(c, "ok", EMPTY_CART, [i \in OnPage(c.page) |-> free[i]]))
  /\ UNCHANGED ledgerVars

ServeCart(c) ==
  /\ c.kind = "cart"
  /\ net' = Append(net, IF c.user = None THEN Answer(c, "error")
                        ELSE Reply(c, "ok", held[c.user], << >>))
  /\ UNCHANGED ledgerVars

ServeReserve(c) ==
  /\ c.kind \in {"add", "plus"}
  /\ \/ /\ Ledger!Take(c.user, c.item, 1)
        /\ BroadcastAndRespond(c, {c.item})
     \/ /\ free[c.item] < 1
        /\ Respond(c, "conflict")
        /\ UNCHANGED ledgerVars

(* A decrease of a line that is gone releases nothing, and succeeds. *)
Returned(c) == IF c.kind = "remove" \/ held[c.user][c.item] = 0
               THEN held[c.user][c.item] ELSE 1

ServeReturn(c) ==
  /\ c.kind \in {"minus", "remove"}
  /\ Ledger!GiveBack(c.user, c.item, Returned(c))
  /\ BroadcastAndRespond(c, {c.item})

ServeCheckout(c) ==
  /\ c.kind = "checkout"
  /\ \/ /\ Ledger!Sell(c.user)
        /\ BroadcastAndRespond(c, {i \in Item : held[c.user][i] > 0})
     \/ /\ held[c.user] = EMPTY_CART
        /\ Respond(c, "error")
        /\ UNCHANGED ledgerVars

Serve(c) == \/ ServeLogin(c) \/ ServeItems(c) \/ ServeCart(c)
            \/ ServeReserve(c) \/ ServeReturn(c) \/ ServeCheckout(c)

(* Requests under way together are executed in any order. *)
Execute(k) ==
  /\ requests' = RemoveAt(requests, k)
  /\ Serve(requests[k])
  /\ UNCHANGED screen

(* Units that a handler which fails leaves moved: f to the counter of i,   *)
(* h to the cart of u.                                                     *)
Moves(u, i, f, h) ==
  /\ free[i] + f >= 0 /\ held[u][i] + h >= 0
  /\ free' = [free EXCEPT ![i] = @ + f]
  /\ held' = [held EXCEPT ![u][i] = @ + h]
  /\ UNCHANGED sold

(* What these are, by the command that fails: a reserve has been made and  *)
(* its row not saved, or saved, and AddToCart may have put the units back  *)
(* all the same; rows have been released and not all of them deleted.      *)
HalfWay(c) ==
  (IF c.kind \in {"add", "plus"} /\ free[c.item] > 0 THEN {<<-1, 0>>, <<-1, 1>>} ELSE {})
  \cup (IF c.kind = "add" /\ free[c.item] > 0 THEN {<<0, 1>>} ELSE {})
  \cup (IF c.kind \in {"minus", "remove"}
        THEN {move \in (0 .. Returned(c)) \X (-Returned(c) .. 0) : move[1] + move[2] >= 0}
        ELSE {})

(* A failing request broadcasts what it got to, and is answered 500.       *)
Throw(c, S) == net' = net \o (IF S = {} THEN << >> ELSE <<Push(S, free')>>)
                          \o <<Answer(c, "error")>>

(* AddToCart's rollback broadcasts, and then throws.                       *)
RolledBack(c) ==
  /\ c.kind = "add" /\ free[c.item] > 0
  /\ \E h \in {0, 1} : Moves(c.user, c.item, 0, h)
  /\ Throw(c, {c.item})

(* An order is saved before the cart is emptied and the items' counters    *)
(* are broadcast, one by one.                                              *)
SoldHalfWay(c) ==
  /\ c.kind = "checkout" /\ held[c.user] # EMPTY_CART
  /\ \/ /\ sold' = [i \in Item |-> sold[i] + held[c.user][i]]
        /\ UNCHANGED <<free, held>>
        /\ Throw(c, {})
     \/ /\ Ledger!Sell(c.user)
        /\ \E i \in Item :
             /\ held[c.user][i] > 0
             /\ \E S \in SUBSET {l \in Item \ {i} : held[c.user][l] > 0} : Throw(c, S)

FailsAfter(c) ==
  \/ UNCHANGED ledgerVars /\ Throw(c, {})
  \/ \E move \in HalfWay(c) : /\ Moves(c.user, c.item, move[1], move[2])
                              /\ Throw(c, {})
  \/ RolledBack(c)
  \/ SoldHalfWay(c)

(* Failures may create units, and strand some; here, not too many.         *)
Within == \A i \in Item :
  free'[i] + sold'[i] + MapThenSumSet(LAMBDA u : held'[u][i], User) <= MaxUnits[i]

(* A request fails: before it changes anything, or after.                  *)
Fail(k) ==
  /\ requests[k].kind \in MayFail
  /\ requests' = RemoveAt(requests, k)
  /\ FailsAfter(requests[k])
  /\ Within
  /\ UNCHANGED screen

(* The socket disconnects: a push under way, or several, one after the     *)
(* other, are lost; they are not sent again.                               *)
Disconnect ==
  /\ ~Reliable
  /\ \E j \in DOMAIN net : /\ net[j].kind = "push"
                           /\ net' = RemoveAt(net, j)
  /\ UNCHANGED <<ledgerVars, requests, screen>>

(* Another tab, of this user or another one, takes, returns or buys units, *)
(* or a reservation expires.                                               *)
Elsewhere(u) ==
  /\ PushesUnderway < MaxPushes
  /\ \/ \E i \in Item : /\ Ledger!Take(u, i, 1) \/ Ledger!GiveBack(u, i, 1)
                        /\ net' = Append(net, Push({i}, free'))
     \/ /\ Ledger!Sell(u)
        /\ net' = Append(net, Push({i \in Item : held[u][i] > 0}, free'))
  /\ UNCHANGED <<requests, screen>>

(* Another tab's request, or an expiry, fails half-way, and its broadcast  *)
(* is not made; nor is one after a boot's seed.                            *)
ElsewhereFails(u, i) ==
  /\ PushesUnderway < MaxPushes
  /\ \/ \E move \in {<<-1, 0>>, <<-1, 1>>, <<0, 1>>, <<1, 0>>, <<1, -1>>} :
          Moves(u, i, move[1], move[2])
     \/ Ledger!Sell(u)
  /\ Within
  /\ UNCHANGED <<requests, net, screen>>

-----------------------------------------------------------------------------
(* What the tab does with what arrives.                                    *)

(* Pushes keep their order; a reply may overtake, or be overtaken. *)
Arrives(j) == \/ j = 1
              \/ /\ ~Reliable
                 /\ net[j].kind = "push" =>
                      \A k \in 1 .. j - 1 : net[k].kind # "push"

SendAll(s) == requests' = requests \o s

(* A refresh and a reload go out with the session of the moment. *)
RefreshCart == Ask("cart", session, None, 0)
Reload == LoadItems(pageState.page)

(* stock:update patches its item, if that is shown. *)
OnStockUpdate(m) ==
  /\ m.kind = "push"
  /\ items' = [i \in DOMAIN items |->
                IF i \in DOMAIN m.counts THEN m.counts[i] ELSE items[i]]
  /\ UNCHANGED <<requests, session, pageState, cart, lastOrder, lineError, timers>>

Failed(m) ==
  /\ m.status # "ok"
  /\ m.kind \in {"login", "items", "cart", "remove", "checkout"}
  /\ UNCHANGED <<requests, screen>>

OnLogin(m) ==
  /\ m.kind = "login" /\ m.status = "ok"
  /\ session' = m.user
  /\ SendAll(<<Ask("items", m.user, None, pageState.page),
               Ask("cart", m.user, None, 0)>>)
  /\ UNCHANGED <<items, pageState, cart, lastOrder, lineError, timers>>

OnItems(m) ==
  /\ m.kind = "items" /\ m.status = "ok"
  /\ items' = m.counts
  /\ pageState' = [page |-> m.page, totalPages |-> LastPage]
  /\ UNCHANGED <<requests, session, cart, lastOrder, lineError, timers>>

OnCart(m) ==
  /\ m.kind = "cart" /\ m.status = "ok"
  /\ cart' = m.cart
  /\ UNCHANGED <<requests, session, items, pageState, lastOrder, lineError, timers>>

OnAdded(m) ==
  /\ m.kind = "add"
  /\ SendAll(<<IF m.status = "ok" THEN RefreshCart ELSE Reload>>)
  /\ UNCHANGED screen

(* A mistake: the cart is not asked for again. *)
OnRemovedOnly(m) ==
  /\ m.kind = "remove" /\ m.status = "ok"
  /\ UNCHANGED <<requests, screen>>

OnRemoved(m) ==
  /\ m.kind = "remove" /\ m.status = "ok"
  /\ SendAll(<<RefreshCart>>)
  /\ UNCHANGED screen

(* A mistake: one timeout at a time. *)
SetLineErrorOnce(i) ==
  /\ lineError' = i
  /\ timers' = IF lineError = None THEN [timers EXCEPT ![i] = @ + 1] ELSE timers

SetLineError(i) ==
  /\ lineError' = i
  /\ timers' = [timers EXCEPT ![i] = @ + 1]

ClearLineError(i) ==
  /\ lineError' = IF lineError = i THEN None ELSE lineError
  /\ UNCHANGED timers

OnUpdated(m) ==
  /\ m.kind \in {"plus", "minus"}
  /\ \/ m.status = "ok" /\ ClearLineError(m.item) /\ SendAll(<<RefreshCart>>)
     \/ m.status # "ok" /\ SetLineError(m.item) /\ SendAll(<<Reload>>)
  /\ UNCHANGED <<session, items, pageState, cart, lastOrder>>

OnOrder(m) ==
  /\ m.kind = "checkout" /\ m.status = "ok"
  /\ lastOrder' = m.user
  /\ cart' = EMPTY_CART
  /\ UNCHANGED <<requests, session, items, pageState, lineError, timers>>

Handle(m) == \/ OnStockUpdate(m) \/ OnLogin(m) \/ OnItems(m) \/ OnCart(m)
             \/ OnAdded(m) \/ OnRemoved(m) \/ OnUpdated(m) \/ OnOrder(m)
             \/ Failed(m)

Deliver(j) ==
  /\ Arrives(j)
  /\ net' = RemoveAt(net, j)
  /\ Handle(net[j])
  /\ UNCHANGED ledgerVars

(* A mistake: the last timeout leaves the error of its line shown.         *)
DismissIfFirst(i) ==
  /\ timers[i] > 0
  /\ timers' = [timers EXCEPT ![i] = @ - 1]
  /\ lineError' = IF lineError = i /\ timers[i] > 1 THEN None ELSE lineError
  /\ UNCHANGED <<ledgerVars, requests, net, session, items, pageState, cart, lastOrder>>

(* setLineError's timeout dismisses the error of its line, whichever one   *)
(* that line shows by then.                                                *)
Dismiss(i) ==
  /\ timers[i] > 0
  /\ timers' = [timers EXCEPT ![i] = @ - 1]
  /\ lineError' = IF lineError = i THEN None ELSE lineError
  /\ UNCHANGED <<ledgerVars, requests, net, session, items, pageState, cart, lastOrder>>

-----------------------------------------------------------------------------
Act == \/ \E u \in User : Login(u)
       \/ logout \/ checkout \/ backToStore \/ ReloadPage
       \/ \E p \in 0 .. LastPage + 1 : goToPage(p)
       \/ \E i \in Item : Grab(i) \/ increase(i) \/ decrease(i) \/ remove(i)

Answering == \E k \in DOMAIN requests : Execute(k) \/ Fail(k)
Arriving == \E j \in DOMAIN net : Deliver(j)

(* The tab and its requests. *)
Tab == \/ Act
       \/ Answering
       \/ Arriving \/ Disconnect
       \/ \E i \in Item : Dismiss(i)

Others == \E u \in User : Elsewhere(u) \/ \E i \in Item : ElsewhereFails(u, i)

Next == Tab \/ Others

Spec == Init /\ [][Next]_vars

(* The tab of the only customer.  The browser runs every timeout. *)
OnlyTabSpec == Init /\ [][Tab]_vars /\ \A i \in Item : WF_vars(Dismiss(i))

-----------------------------------------------------------------------------
(* Properties.                                                             *)

(* An error shown on a line has a timeout that will dismiss it, whatever   *)
(* errors, of this line or another, were set and cleared in between.       *)
LineErrorHasTimer == lineError # None => timers[lineError] > 0

(* So it goes away.                                                        *)
LineErrorsAreBrief == \A i \in Item : []<>(lineError # i)

=============================================================================
