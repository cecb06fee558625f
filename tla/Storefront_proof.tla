-------------------------- MODULE Storefront_proof --------------------------
(***************************************************************************)
(* The browser tab, for any items, users, pages, and any number of         *)
(* requests, pushes and timers under way.                                  *)
(*                                                                         *)
(* ScreenInSync speaks only of the moments when nothing is under way.  The *)
(* invariant that proves it says what is under way at the others.  But for *)
(* what the tab cannot know (ScreenSync: unheard, unsure), of each item    *)
(* the last count that travels is the live one, or its page is to be       *)
(* loaded; and the cart shown is right, or its load, or the reply that     *)
(* asks for it, is to come.                                                *)
(* For the timers, every edit under way counts as one that may be set.     *)
(***************************************************************************)
EXTENDS ScreenSync, FiniteSetTheorems, SequenceTheorems, TLAPS

(* Sequences: requests are taken out anywhere, replies arrive from the     *)
(* front or, overtaking, from anywhere.                                    *)

(* Where the element at k was before that at j was taken out. *)
Was(k, j) == IF k < j THEN k ELSE k + 1

(* What RemoveAt leaves, and where.                                        *)
LEMMA RemoveAtIs ==
  ASSUME NEW S, NEW s \in Seq(S), NEW j \in 1 .. Len(s)
  PROVE  /\ RemoveAt(s, j) \in Seq(S)
         /\ Len(RemoveAt(s, j)) = Len(s) - 1
         /\ DOMAIN RemoveAt(s, j) = 1 .. Len(s) - 1
         /\ \A k \in 1 .. Len(s) - 1 :
              Was(k, j) \in 1 .. Len(s) /\ RemoveAt(s, j)[k] = s[Was(k, j)]
<1> DEFINE a == SubSeq(s, 1, j - 1)
           b == SubSeq(s, j + 1, Len(s))
           n == Len(s)
<1>1. n \in Nat /\ (\A k \in 1 .. n : s[k] \in S) /\ j \in Int /\ 1 <= j /\ j <= n
  BY LenProperties
<1>2. a \in Seq(S) /\ Len(a) = j - 1 /\ \A k \in 1 .. j - 1 : a[k] = s[k]
  <2>1. \A k \in 1 .. j - 1 : s[k] \in S
    BY <1>1
  <2>2. 1 \in Int /\ j - 1 \in Int /\ (j - 1) - 1 + 1 = j - 1
        /\ \A k \in 1 .. j - 1 : 1 + k - 1 = k
    BY <1>1
  <2>3. /\ a \in Seq(S)
        /\ Len(a) = IF 1 <= j - 1 THEN (j - 1) - 1 + 1 ELSE 0
        /\ \A k \in 1 .. (j - 1) - 1 + 1 : a[k] = s[1 + k - 1]
    BY <2>1, <2>2, SubSeqProperties
  <2> QED
    BY <1>1, <2>2, <2>3
<1>3. b \in Seq(S) /\ Len(b) = n - j /\ \A k \in 1 .. n - j : b[k] = s[j + k]
  <2>1. \A k \in j + 1 .. n : s[k] \in S
    BY <1>1
  <2>2. j + 1 \in Int /\ n \in Int /\ n - (j + 1) + 1 = n - j
        /\ \A k \in 1 .. n - j : (j + 1) + k - 1 = j + k
    BY <1>1
  <2>3. /\ b \in Seq(S)
        /\ Len(b) = IF j + 1 <= n THEN n - (j + 1) + 1 ELSE 0
        /\ \A k \in 1 .. n - (j + 1) + 1 : b[k] = s[(j + 1) + k - 1]
    BY <2>1, <2>2, SubSeqProperties
  <2> HIDE DEF b, n
  <2>4. Len(b) = n - j
    BY <1>1, <2>2, <2>3
  <2>5. \A k \in 1 .. n - j : b[k] = s[j + k]
    BY <2>2, <2>3
  <2> QED
    BY <2>3, <2>4, <2>5
<1>4. RemoveAt(s, j) = a \o b
  BY DEF RemoveAt
<1> HIDE DEF a, b, n
<1>5. /\ a \o b \in Seq(S) /\ Len(a \o b) = n - 1
      /\ \A k \in 1 .. n - 1 : (a \o b)[k] = IF k <= j - 1 THEN a[k] ELSE b[k - (j - 1)]
  <2>1. Len(a) + Len(b) = n - 1 /\ Len(a) = j - 1
    BY <1>1, <1>2, <1>3
  <2>2. /\ a \o b \in Seq(S) /\ Len(a \o b) = Len(a) + Len(b)
        /\ \A k \in 1 .. Len(a) + Len(b) :
             (a \o b)[k] = IF k <= Len(a) THEN a[k] ELSE b[k - Len(a)]
    BY <1>2, <1>3, ConcatProperties
  <2> QED
    BY <2>1, <2>2
<1>6. \A k \in 1 .. n - 1 : Was(k, j) \in 1 .. n /\ (a \o b)[k] = s[Was(k, j)]
  BY <1>1, <1>2, <1>3, <1>5 DEF Was
<1>7. DOMAIN (a \o b) = 1 .. n - 1
  BY <1>5, LenProperties
<1> QED
  BY <1>4, <1>5, <1>6, <1>7 DEF n

(* Nothing else is lost. *)
LEMMA RemoveAtKeeps ==
  ASSUME NEW S, NEW s \in Seq(S), NEW j \in 1 .. Len(s)
  PROVE  /\ \A x \in DOMAIN RemoveAt(s, j) : \E y \in DOMAIN s : RemoveAt(s, j)[x] = s[y]
         /\ \A y \in DOMAIN s : y # j =>
              \E x \in DOMAIN RemoveAt(s, j) : RemoveAt(s, j)[x] = s[y]
<1>1. Len(s) \in Nat /\ DOMAIN s = 1 .. Len(s)
  BY LenProperties
<1> SUFFICES ASSUME NEW t, DOMAIN t = 1 .. Len(s) - 1,
                    \A k \in 1 .. Len(s) - 1 :
                      Was(k, j) \in 1 .. Len(s) /\ t[k] = s[Was(k, j)]
             PROVE  /\ \A x \in DOMAIN t : \E y \in DOMAIN s : t[x] = s[y]
                    /\ \A y \in DOMAIN s : y # j => \E x \in DOMAIN t : t[x] = s[y]
  BY RemoveAtIs
<1>2. ASSUME NEW y \in DOMAIN s, y # j
      PROVE  \E x \in DOMAIN t : t[x] = s[y]
  <2>1. CASE y < j
    <3>1. y \in 1 .. Len(s) - 1 /\ Was(y, j) = y
      BY <1>1, <1>2, <2>1 DEF Was
    <3> QED
      BY <3>1
  <2>2. CASE y > j
    <3>1. y - 1 \in 1 .. Len(s) - 1 /\ Was(y - 1, j) = y
      BY <1>1, <1>2, <2>2 DEF Was
    <3> QED
      BY <3>1
  <2> QED
    BY <1>1, <1>2, <2>1, <2>2
<1> QED
  BY <1>1, <1>2

(* What Append adds.                                                       *)
LEMMA AppendIs ==
  ASSUME NEW S, NEW s \in Seq(S), NEW e \in S
  PROVE  /\ Append(s, e) \in Seq(S)
         /\ Len(s) \in Nat /\ DOMAIN s = 1 .. Len(s)
         /\ Len(Append(s, e)) = Len(s) + 1
         /\ DOMAIN Append(s, e) = 1 .. Len(s) + 1
         /\ \A k \in 1 .. Len(s) : Append(s, e)[k] = s[k]
         /\ Append(s, e)[Len(s) + 1] = e
BY AppendProperties, LenProperties

(* Two appended at once are two appended.                                  *)
LEMMA ConcatTwo ==
  ASSUME NEW S, NEW s \in Seq(S), NEW e \in S, NEW f \in S
  PROVE  s \o <<e, f>> = Append(Append(s, e), f)
OBVIOUS

(* So is one.                                                              *)
LEMMA ConcatOne ==
  ASSUME NEW S, NEW s \in Seq(S), NEW e \in S
  PROVE  s \o <<e>> = Append(s, e)
OBVIOUS

-----------------------------------------------------------------------------
(* The edits of a line that are under way.                                 *)

(* A plus or a minus of a line, or its reply: it may set an error on that  *)
(* line.                                                                   *)
Edit(m, i) == m.kind \in {"plus", "minus"} /\ m.item = i

(* Those of a line among the requests, or among what travels to the tab.   *)
Edits(s, i) == {k \in DOMAIN s : Edit(s[k], i)}

(* How many there are.                                                     *)
Count(s, i) == Cardinality(Edits(s, i))

(* They are finitely many.                                                 *)
LEMMA CountType ==
  ASSUME NEW S, NEW s \in Seq(S), NEW i
  PROVE  IsFiniteSet(Edits(s, i)) /\ Count(s, i) \in Nat /\ Count(s, i) <= Len(s)
<1>1. Len(s) \in Nat /\ DOMAIN s = 1 .. Len(s)
  BY LenProperties
<1>2. Edits(s, i) \in SUBSET (1 .. Len(s))
  BY <1>1 DEF Edits
<1>3. IsFiniteSet(1 .. Len(s)) /\ Cardinality(1 .. Len(s)) = Len(s)
  BY <1>1, FS_Interval
<1>4. IsFiniteSet(Edits(s, i)) /\ Cardinality(Edits(s, i)) <= Len(s)
  BY <1>2, <1>3, FS_Subset
<1> QED
  BY <1>4, FS_CardinalityType DEF Count

(* One appended is one more, if it is one.                                 *)
LEMMA CountAppend ==
  ASSUME NEW S, NEW s \in Seq(S), NEW e \in S, NEW i
  PROVE  Count(Append(s, e), i) = Count(s, i) + IF Edit(e, i) THEN 1 ELSE 0
<1>1. CASE Edit(e, i)
  <2>1. Edits(Append(s, e), i) = Edits(s, i) \cup {Len(s) + 1}
    BY <1>1, AppendIs DEF Edits
  <2>2. Len(s) + 1 \notin Edits(s, i)
    BY AppendIs DEF Edits
  <2>3. IsFiniteSet(Edits(s, i))
    BY CountType
  <2>4. Cardinality(Edits(s, i) \cup {Len(s) + 1}) = Cardinality(Edits(s, i)) + 1
    BY <2>2, <2>3, FS_AddElement
  <2> QED
    BY <1>1, <2>1, <2>4, Zenon DEF Count
<1>2. CASE ~Edit(e, i)
  <2>1. Edits(Append(s, e), i) = Edits(s, i)
    BY <1>2, AppendIs DEF Edits
  <2>2. Count(s, i) \in Nat
    BY CountType
  <2> QED
    BY <1>2, <2>1, <2>2 DEF Count
<1> QED
  BY <1>1, <1>2

(* One taken out is one less, if it was one: what is left was elsewhere    *)
(* before, one by one.                                                     *)
LEMMA CountRemoveAt ==
  ASSUME NEW S, NEW s \in Seq(S), NEW j \in 1 .. Len(s), NEW i
  PROVE  Count(RemoveAt(s, j), i) = Count(s, i) - IF Edit(s[j], i) THEN 1 ELSE 0
<1> DEFINE t == RemoveAt(s, j)
           A == Edits(t, i)
           B == Edits(s, i) \ {j}
           f == [k \in A |-> Was(k, j)]
<1>1. /\ Len(s) \in Nat /\ DOMAIN s = 1 .. Len(s) /\ DOMAIN t = 1 .. Len(s) - 1
      /\ t \in Seq(S)
      /\ \A k \in 1 .. Len(s) - 1 : Was(k, j) \in 1 .. Len(s) /\ t[k] = s[Was(k, j)]
  BY RemoveAtIs, LenProperties
<1> HIDE DEF t
<1>2. f \in [A -> B]
  BY <1>1 DEF Edits, Was
<1>3. \A k, l \in A : f[k] = f[l] => k = l
  BY <1>1 DEF Edits, Was
<1>4. \A y \in B : \E k \in A : f[k] = y
  <2> SUFFICES ASSUME NEW y \in B
               PROVE  \E k \in A : f[k] = y
    OBVIOUS
  <2>1. y \in 1 .. Len(s) /\ y # j /\ Edit(s[y], i)
    BY <1>1 DEF Edits
  <2>2. CASE y < j
    <3>1. y \in 1 .. Len(s) - 1 /\ Was(y, j) = y
      BY <1>1, <2>1, <2>2 DEF Was
    <3>2. y \in A
      BY <1>1, <2>1, <3>1 DEF Edits
    <3> QED
      BY <3>1, <3>2
  <2>3. CASE y > j
    <3>1. y - 1 \in 1 .. Len(s) - 1 /\ Was(y - 1, j) = y
      BY <1>1, <2>1, <2>3 DEF Was
    <3>2. y - 1 \in A
      BY <1>1, <2>1, <3>1 DEF Edits
    <3> QED
      BY <3>1, <3>2
  <2> QED
    BY <1>1, <2>1, <2>2, <2>3
<1>5. IsFiniteSet(A) /\ IsFiniteSet(Edits(s, i))
  BY <1>1, CountType
<1> HIDE DEF A, B, f
<1>6. ExistsBijection(A, B)
  BY <1>2, <1>3, <1>4 DEF ExistsBijection, Bijection, Injection, Surjection, IsInjective
<1>7. Cardinality(A) = Cardinality(B)
  BY <1>5, <1>6, FS_Bijection
<1>8. Cardinality(B) = IF j \in Edits(s, i) THEN Cardinality(Edits(s, i)) - 1
                                            ELSE Cardinality(Edits(s, i))
  BY <1>5, FS_RemoveElement DEF B
<1>9. j \in Edits(s, i) <=> Edit(s[j], i)
  BY <1>1 DEF Edits
<1>10. Count(s, i) \in Nat
  BY CountType
<1> QED
  BY <1>7, <1>8, <1>9, <1>10 DEF A, t, Count

-----------------------------------------------------------------------------
(* The types, and what bounds the timers.                                  *)

(* Who asks for what. *)
Asking(c) ==
  /\ c.kind \notin {"items", "cart"} => c.user \in User
  /\ c.kind \in {"add", "plus", "minus", "remove"} => c.item \in Item
  /\ c.kind = "items" => c.page \in 1 .. LastPage

(* Requests that are complete.                                             *)
Asked == {c \in Request : Asking(c)}

(* The records that travel to the tab.                                     *)
Sent == [kind : Kind \cup {"push"}, user : User \cup {None}, item : Item \cup {None},
         page : Nat, status : {"ok", "conflict", "error"},
         cart : [Item -> Nat], counts : UNION {[D -> Nat] : D \in SUBSET Item}]

(* Of these, the replies that name whom and what they answer, and carry    *)
(* counts only where the backend sends some.                               *)
Message == {m \in Sent :
              /\ m.kind # "push" => Asking(m)
              /\ DOMAIN m.counts # {} =>
                   m.kind = "push" \/ (m.kind = "items" /\ m.status = "ok")}

(* A request of which only one may be under way: all but the loads.        *)
Special(kind) == kind \notin {"push", "items", "cart"}

(* The types of what the tab shows.                                        *)
Screen ==
  /\ session \in User \cup {None}
  /\ IsCounts(items)
  /\ pageState \in [page : 1 .. LastPage, totalPages : {1, LastPage}]
  /\ cart \in [Item -> Nat]
  /\ lastOrder \in User \cup {None}
  /\ lineError \in Item \cup {None}

(* The types of the backend.                                               *)
Book ==
  /\ free \in [Item -> Nat]
  /\ held \in [User -> [Item -> Nat]]
  /\ sold \in [Item -> Nat]

(* The types of what is under way.                                         *)
Travels == requests \in Seq(Asked) /\ net \in Seq(Message)

(* Every edit under way may become a timer: together they are no more than *)
(* may be pending.                                                         *)
TimersBounded ==
  /\ timers \in [Item -> Nat]
  /\ \A i \in Item : timers[i] + Count(requests, i) + Count(net, i) <= MaxTimers

(* The inductive invariant of the types.                                   *)
TypeInv == Book /\ Travels /\ Screen /\ TimersBounded

(* There is a last page, and every item is on a page up to it.             *)
LEMMA Pages ==
  /\ LastPage \in Nat /\ LastPage >= 1
  /\ \A i \in Item : PageOf[i] \in 1 .. LastPage
<1>1. \E p \in {PageOf[i] : i \in Item} : \A i \in Item : PageOf[i] <= p
  BY StorefrontAssumption
<1>2. LastPage \in {PageOf[i] : i \in Item} /\ \A i \in Item : PageOf[i] <= LastPage
  BY <1>1 DEF LastPage
<1> QED
  BY <1>2, StorefrontAssumption

(* The types of the constants.                                             *)
LEMMA Constants ==
  /\ MaxRequests \in Nat /\ MaxPushes \in Nat /\ MaxTimers \in Nat
  /\ Patient \in BOOLEAN /\ Reliable \in BOOLEAN
  /\ None \notin User /\ None \notin Item
  /\ TotalStock \in [Item -> Nat]
BY StorefrontAssumption

(* The counts of some items are a function from these.                     *)
LEMMA Counts ==
  ASSUME NEW f
  PROVE  /\ IsCounts(f) <=> f \in UNION {[D -> Nat] : D \in SUBSET Item}
BY DEF IsCounts

(* A message is what TypeOK asks of one.                                   *)
LEMMA MessageIs ==
  ASSUME NEW m \in Message
  PROVE  /\ IsMessage(m)
         /\ m.kind # "push" => Asking(m)
         /\ DOMAIN m.counts # {} =>
              m.kind = "push" \/ (m.kind = "items" /\ m.status = "ok")
BY DEF Message, Sent, IsMessage, IsCounts

(* A complete request.                                                     *)
LEMMA AskIs ==
  ASSUME NEW kind \in Kind, NEW u \in User \cup {None}, NEW i \in Item \cup {None},
         NEW p \in Nat, Asking(Ask(kind, u, i, p))
  PROVE  Ask(kind, u, i, p) \in Asked
BY DEF Ask, Asked, Request

(* The requests that the tab sends. *)
LEMMA Requests ==
  ASSUME NEW u \in User, NEW v \in User \cup {None}, NEW p \in 1 .. LastPage
  PROVE  /\ Ask("login", u, None, 0) \in Asked
         /\ Ask("items", v, None, p) \in Asked
         /\ Ask("cart", v, None, 0) \in Asked
         /\ Ask("checkout", u, None, 0) \in Asked
         /\ \A i \in Item, kind \in {"add", "plus", "minus", "remove"} :
              Ask(kind, u, i, 0) \in Asked
BY Pages DEF Ask, Asked, Asking, Request, Kind

(* The reply to a request is a message.                                    *)
LEMMA ReplyIs ==
  ASSUME NEW c \in Asked, NEW status \in {"ok", "conflict", "error"},
         NEW lines \in [Item -> Nat], NEW counts, IsCounts(counts),
         DOMAIN counts # {} => c.kind = "items" /\ status = "ok"
  PROVE  Reply(c, status, lines, counts) \in Message
<1>1. Reply(c, status, lines, counts) \in Sent
  BY Counts DEF Reply, Sent, Asked, Request
<1> QED
  BY <1>1 DEF Reply, Message, Asked, Asking

(* So is one that carries nothing.                                         *)
LEMMA AnswerIs ==
  ASSUME NEW c \in Asked, NEW status \in {"ok", "conflict", "error"}
  PROVE  Answer(c, status) \in Message
<1>1. EMPTY_CART \in [Item -> Nat] /\ IsCounts(<< >>) /\ DOMAIN << >> = {}
  BY DEF EMPTY_CART, IsCounts
<1> QED
  BY <1>1, ReplyIs DEF Answer

(* So is a push.                                                           *)
LEMMA PushIs ==
  ASSUME NEW S \in SUBSET Item, NEW remaining \in [Item -> Nat]
  PROVE  Push(S, remaining) \in Message
<1>1. EMPTY_CART \in [Item -> Nat] /\ IsCounts([i \in S |-> remaining[i]])
  BY DEF EMPTY_CART, IsCounts
<1>2. Push(S, remaining) \in Sent
  BY <1>1, Counts DEF Push, Reply, Ask, Sent
<1> QED
  BY <1>2 DEF Push, Reply, Ask, Message

(* A reload: nothing under way but what loads the page. *)
LEMMA LoadsType ==
  ASSUME NEW p \in 1 .. LastPage, NEW u \in User, NEW s,
         s = <<Ask("items", u, None, p), Ask("cart", u, None, 0)>>
  PROVE  s \in Seq(Asked) /\ \A i : Count(s, i) = 0
<1>1. Ask("items", u, None, p) \in Asked /\ Ask("cart", u, None, 0) \in Asked
  BY Requests
<1>2. \A k \in DOMAIN s : s[k].kind \notin {"plus", "minus"}
  BY DEF Ask
<1>3. \A i : Edits(s, i) = {}
  BY <1>2 DEF Edits, Edit
<1> QED
  BY <1>1, <1>3, FS_EmptySet DEF Count

(* The invariant holds initially.                                          *)
LEMMA TypeInit == Init => TypeInv
<1> SUFFICES ASSUME Init PROVE TypeInv
  OBVIOUS
<1>1. Book
  BY Constants DEF Init, Ledger!Init, Book
<1>2. session \in User \cup {None}
  BY DEF Init
<1>3. requests \in Seq(Asked) /\ \A i : Count(requests, i) = 0
  <2>1. CASE session = None
    <3>1. requests = << >>
      BY <2>1 DEF Init
    <3>2. \A i : Edits(requests, i) = {}
      BY <3>1 DEF Edits
    <3> QED
      BY <3>1, <3>2, FS_EmptySet DEF Count
  <2>2. CASE session # None
    <3>1. 1 \in 1 .. LastPage /\ session \in User
      BY <1>2, <2>2, Pages
    <3>2. requests = <<Ask("items", session, None, 1), Ask("cart", session, None, 0)>>
      BY <2>2 DEF Init
    <3> QED
      BY <3>1, <3>2, LoadsType
  <2> QED
    BY <2>1, <2>2
<1>4. net \in Seq(Message) /\ \A i : Count(net, i) = 0
  <2>1. net = << >>
    BY DEF Init
  <2>2. \A i : Edits(net, i) = {}
    BY <2>1 DEF Edits
  <2> QED
    BY <2>1, <2>2, FS_EmptySet DEF Count
<1>5. Screen
  BY Pages DEF Init, Screen, IsCounts, EMPTY_CART
<1>6. TimersBounded
  <2>1. timers \in [Item -> Nat] /\ \A i \in Item : timers[i] = 0
    BY DEF Init, EMPTY_CART
  <2> QED
    BY <1>3, <1>4, <2>1, Constants DEF TimersBounded
<1> QED
  BY <1>1, <1>3, <1>4, <1>5, <1>6 DEF TypeInv, Travels

-----------------------------------------------------------------------------

(* What the user waits for: when nothing but pushes is under way, there is *)
(* no request, and no reply.                                               *)
LEMMA Quiet ==
  ASSUME TypeInv
  PROVE  /\ IsFiniteSet(Replies) /\ Cardinality(Replies) \in Nat
         /\ Underway \in Nat /\ PushesUnderway \in Int
         /\ \A i : Count(requests, i) + Count(net, i) <= Underway
         /\ Underway = 0 => requests = << >> /\ \A j \in DOMAIN net : net[j].kind = "push"
<1>1. /\ Len(net) \in Nat /\ DOMAIN net = 1 .. Len(net)
      /\ Len(requests) \in Nat /\ DOMAIN requests = 1 .. Len(requests)
  BY LenProperties DEF TypeInv, Travels
<1>2. Replies \in SUBSET (1 .. Len(net))
  BY <1>1 DEF Replies
<1>3. IsFiniteSet(1 .. Len(net))
  BY <1>1, FS_Interval
<1>4. IsFiniteSet(Replies)
  BY <1>2, <1>3, FS_Subset
<1>5. Cardinality(Replies) \in Nat
  BY <1>4, FS_CardinalityType
<1>6. ASSUME NEW i
      PROVE  Count(requests, i) + Count(net, i) <= Underway
  <2>1. Edits(net, i) \in SUBSET Replies
    BY DEF Edits, Edit, Replies
  <2>2. Cardinality(Edits(net, i)) <= Cardinality(Replies)
    BY <2>1, <1>4, FS_Subset
  <2>3. /\ Count(requests, i) \in Nat /\ Count(requests, i) <= Len(requests)
        /\ Count(net, i) \in Nat
    BY CountType DEF TypeInv, Travels
  <2> QED
    BY <1>1, <1>5, <2>2, <2>3 DEF Underway, Count
<1>7. ASSUME Underway = 0
      PROVE  requests = << >> /\ \A j \in DOMAIN net : net[j].kind = "push"
  <2>1. Len(requests) = 0 /\ Cardinality(Replies) = 0
    BY <1>1, <1>5, <1>7 DEF Underway
  <2>2. Replies = {}
    BY <1>4, <2>1, FS_EmptySet
  <2>3. requests = << >>
    BY <2>1, EmptySeq DEF TypeInv, Travels
  <2> QED
    BY <2>2, <2>3 DEF Replies
<1> QED
  BY <1>1, <1>4, <1>5, <1>6, <1>7 DEF Underway, PushesUnderway

(* How counts move. *)
LEMMA TimersStay ==
  ASSUME TypeInv, requests' \in Seq(Asked), net' \in Seq(Message),
         timers' \in [Item -> Nat],
         \A i \in Item : timers'[i] + Count(requests', i) + Count(net', i)
                           <= timers[i] + Count(requests, i) + Count(net, i)
  PROVE  TimersBounded'
<1>1. \A i \in Item : /\ Count(requests, i) \in Nat /\ Count(net, i) \in Nat
                      /\ Count(requests', i) \in Nat /\ Count(net', i) \in Nat
  BY CountType DEF TypeInv, Travels
<1>2. \A i : Count(requests, i)' = Count(requests', i) /\ Count(net, i)' = Count(net', i)
  BY DEF Count, Edits
<1>3. MaxTimers \in Nat
  BY Constants
<1> QED
  BY <1>1, <1>2, <1>3 DEF TypeInv, TimersBounded

(* One more request, which the user sends. *)
LEMMA SendType ==
  ASSUME TypeInv, NEW c \in Asked, Send(c), UNCHANGED <<net, timers>>,
         \A i \in Item : Edit(c, i) => timers[i] + Underway < MaxTimers
  PROVE  Travels' /\ TimersBounded'
<1>1. requests' = Append(requests, c) /\ requests' \in Seq(Asked)
  BY AppendIs DEF Send, TypeInv, Travels
<1>2. \A i : Count(requests', i) = Count(requests, i) + IF Edit(c, i) THEN 1 ELSE 0
  BY <1>1, CountAppend DEF TypeInv, Travels
<1>3. \A i : Count(requests, i)' = Count(requests', i) /\ Count(net, i)' = Count(net, i)
  BY DEF Count, Edits
<1>4. \A i : Count(requests, i) \in Nat /\ Count(net, i) \in Nat
  BY CountType DEF TypeInv, Travels
<1>5. Underway \in Nat /\ \A i : Count(requests, i) + Count(net, i) <= Underway
  BY Quiet
<1>6. TimersBounded'
  BY <1>2, <1>3, <1>4, <1>5, Constants DEF TypeInv, TimersBounded
<1> QED
  BY <1>1, <1>6 DEF TypeInv, Travels

(* What the user does. *)
LEMMA ActType ==
  ASSUME TypeInv, Act
  PROVE  TypeInv'
<1>1. Book /\ Travels /\ Screen /\ TimersBounded
  BY DEF TypeInv
<1>2. ASSUME UNCHANGED ledgerVars
      PROVE  Book'
  BY <1>1, <1>2 DEF Book, ledgerVars
<1>3. ASSUME UNCHANGED screen
      PROVE  Screen' /\ UNCHANGED timers
  BY <1>1, <1>3 DEF Screen, IsCounts, screen
<1>4. ASSUME InStore
      PROVE  session \in User
  BY <1>1, <1>4 DEF InStore, Screen
<1>5. ASSUME NEW u \in User, Login(u)
      PROVE  TypeInv'
  <2>1. Ask("login", u, None, 0) \in Asked
    BY Requests, Pages
  <2>2. Send(Ask("login", u, None, 0)) /\ UNCHANGED <<ledgerVars, net, screen>>
    BY <1>5 DEF Login
  <2>3. \A i : ~Edit(Ask("login", u, None, 0), i)
    BY DEF Edit, Ask
  <2> QED
    BY <1>2, <1>3, <2>1, <2>2, <2>3, SendType DEF TypeInv
<1>6. ASSUME logout
      PROVE  TypeInv'
  <2>1. UNCHANGED <<ledgerVars, requests, net, items, pageState, lineError, timers>>
    BY <1>6 DEF logout
  <2>2. Screen'
    BY <1>1, <1>6 DEF logout, Screen, EMPTY_CART, IsCounts
  <2>3. Travels' /\ TimersBounded'
    BY <1>1, <2>1 DEF Travels, TimersBounded, Count, Edits
  <2> QED
    BY <1>2, <2>1, <2>2, <2>3 DEF TypeInv
<1>7. ASSUME checkout
      PROVE  TypeInv'
  <2>1. Ask("checkout", session, None, 0) \in Asked
    BY <1>4, <1>7, Requests, Pages DEF checkout
  <2>2. /\ Send(Ask("checkout", session, None, 0))
        /\ UNCHANGED <<ledgerVars, net, screen>>
    BY <1>7 DEF checkout
  <2>3. \A i : ~Edit(Ask("checkout", session, None, 0), i)
    BY DEF Edit, Ask
  <2> QED
    BY <1>2, <1>3, <2>1, <2>2, <2>3, SendType DEF TypeInv
<1>8. ASSUME backToStore
      PROVE  TypeInv'
  <2>1. pageState.page \in 1 .. LastPage /\ session \in User
    BY <1>1, <1>8 DEF backToStore, Screen
  <2>2. Ask("items", session, None, pageState.page) \in Asked
    BY <2>1, Requests
  <2>3. /\ Send(Ask("items", session, None, pageState.page))
        /\ UNCHANGED <<ledgerVars, net, timers>>
    BY <1>8 DEF backToStore, LoadItems
  <2>4. \A i : ~Edit(Ask("items", session, None, pageState.page), i)
    BY DEF Edit, Ask
  <2>5. Screen'
    BY <1>1, <1>8 DEF backToStore, Screen, IsCounts
  <2> QED
    BY <1>2, <2>2, <2>3, <2>4, <2>5, SendType DEF TypeInv
<1>9. ASSUME ReloadPage
      PROVE  TypeInv'
  <2>1. session \in User /\ 1 \in 1 .. LastPage
    BY <1>1, <1>9, Pages DEF ReloadPage, Screen
  <2>2. requests' \in Seq(Asked) /\ \A i : Count(requests', i) = 0
    BY <1>9, <2>1, LoadsType DEF ReloadPage
  <2>3. net' = << >> /\ net' \in Seq(Message) /\ \A i : Count(net', i) = 0
    <3>1. net' = << >>
      BY <1>9 DEF ReloadPage
    <3>2. \A i : Edits(net', i) = {}
      BY <3>1 DEF Edits
    <3> QED
      BY <3>1, <3>2, FS_EmptySet DEF Count
  <2>4. timers' \in [Item -> Nat] /\ \A i \in Item : timers'[i] = 0
    BY <1>9 DEF ReloadPage, EMPTY_CART
  <2>5. \A i : Count(requests, i)' = Count(requests', i) /\ Count(net, i)' = Count(net', i)
    BY DEF Count, Edits
  <2>6. TimersBounded'
    BY <2>2, <2>3, <2>4, <2>5, Constants DEF TimersBounded
  <2>7. Screen'
    BY <1>1, <1>9, <2>1 DEF ReloadPage, Screen, IsCounts, EMPTY_CART
  <2>8. Book'
    BY <1>2, <1>9 DEF ReloadPage
  <2> QED
    BY <2>2, <2>3, <2>6, <2>7, <2>8 DEF TypeInv, Travels
<1>10. ASSUME NEW p \in 0 .. LastPage + 1, goToPage(p)
       PROVE  TypeInv'
  <2>1. p \in 1 .. LastPage /\ session \in User
    <3>1. InStore /\ p >= 1 /\ p <= pageState.totalPages
      BY <1>10 DEF goToPage, PageExists
    <3>2. pageState.totalPages \in {1, LastPage}
      BY <1>1 DEF Screen
    <3> QED
      BY <1>4, <3>1, <3>2, Pages
  <2>2. Ask("items", session, None, p) \in Asked
    BY <2>1, Requests
  <2>3. /\ Send(Ask("items", session, None, p))
        /\ UNCHANGED <<ledgerVars, net, screen>>
    BY <1>10 DEF goToPage, LoadItems
  <2>4. \A i : ~Edit(Ask("items", session, None, p), i)
    BY DEF Edit, Ask
  <2> QED
    BY <1>2, <1>3, <2>2, <2>3, <2>4, SendType DEF TypeInv
<1>11. ASSUME NEW i \in Item, NEW kind \in {"add", "plus", "minus", "remove"}, InStore,
              kind \in {"plus", "minus"} => timers[i] + Underway < MaxTimers,
              Send(Ask(kind, session, i, 0)), UNCHANGED <<ledgerVars, net, screen>>
       PROVE  TypeInv'
  <2>1. session \in User /\ 1 \in 1 .. LastPage
    BY <1>4, <1>11, Pages
  <2>2. Ask(kind, session, i, 0) \in Asked
    BY <2>1, Requests
  <2>3. \A j \in Item : Edit(Ask(kind, session, i, 0), j) => timers[j] + Underway < MaxTimers
    BY <1>11 DEF Edit, Ask
  <2> QED
    BY <1>2, <1>3, <1>11, <2>2, <2>3, SendType DEF TypeInv
<1>12. ASSUME NEW i \in Item, Grab(i) \/ increase(i) \/ decrease(i) \/ remove(i)
       PROVE  TypeInv'
  <2>1. CASE Grab(i)
    BY <1>11, <2>1 DEF Grab
  <2>2. CASE increase(i)
    BY <1>11, <2>2 DEF increase, Line
  <2>3. CASE decrease(i)
    BY <1>11, <2>3 DEF decrease, Line
  <2>4. CASE remove(i)
    BY <1>11, <2>4 DEF remove, Line
  <2> QED
    BY <1>12, <2>1, <2>2, <2>3, <2>4
<1> QED
  BY <1>5, <1>6, <1>7, <1>8, <1>9, <1>10, <1>12 DEF Act

(* What is sent to the tab, instead of the request at k. *)
LEMMA ServedType ==
  ASSUME TypeInv, NEW k \in DOMAIN requests, requests' = RemoveAt(requests, k),
         UNCHANGED screen, Book',
         NEW m \in Message, m.kind = requests[k].kind, m.item = requests[k].item,
         \/ net' = Append(net, m)
         \/ \E p \in Message : p.kind = "push" /\ net' = Append(Append(net, p), m)
  PROVE  TypeInv'
<1>1. requests \in Seq(Asked) /\ net \in Seq(Message) /\ k \in 1 .. Len(requests)
  BY LenProperties DEF TypeInv, Travels
<1>2. requests' \in Seq(Asked)
  BY <1>1, RemoveAtIs
<1>3. /\ net' \in Seq(Message)
      /\ \A i : Count(net', i) = Count(net, i) + IF Edit(m, i) THEN 1 ELSE 0
  <2>1. CASE net' = Append(net, m)
    BY <1>1, <2>1, AppendIs, CountAppend
  <2>2. ASSUME NEW p \in Message, p.kind = "push", net' = Append(Append(net, p), m)
        PROVE  /\ net' \in Seq(Message)
               /\ \A i : Count(net', i) = Count(net, i) + IF Edit(m, i) THEN 1 ELSE 0
    <3>1. net' = Append(Append(net, p), m) /\ Append(net, p) \in Seq(Message)
      BY <1>1, <2>2, AppendIs
    <3>2. \A i : Count(Append(net, p), i) = Count(net, i) + IF Edit(p, i) THEN 1 ELSE 0
      BY <1>1, CountAppend
    <3>3. \A i : ~Edit(p, i) /\ Count(net, i) \in Nat
      BY <1>1, <2>2, CountType DEF Edit
    <3>4. \A i : Count(net', i) = Count(Append(net, p), i) + IF Edit(m, i) THEN 1 ELSE 0
      BY <3>1, CountAppend
    <3>5. net' \in Seq(Message)
      BY <3>1, AppendIs
    <3> QED
      BY <3>2, <3>3, <3>4, <3>5
  <2> QED
    BY <2>1, <2>2
<1>4. \A i : Count(requests', i) = Count(requests, i) - IF Edit(requests[k], i) THEN 1 ELSE 0
  BY <1>1, CountRemoveAt
<1>5. \A i : Edit(m, i) <=> Edit(requests[k], i)
  BY DEF Edit
<1>6. timers' = timers /\ timers \in [Item -> Nat] /\ Screen'
  BY DEF TypeInv, TimersBounded, Screen, IsCounts, screen
<1>7. \A i : Count(requests, i) \in Nat /\ Count(net, i) \in Nat
  BY <1>1, CountType
<1>8. \A i \in Item : timers'[i] + Count(requests', i) + Count(net', i)
                        <= timers[i] + Count(requests, i) + Count(net, i)
  BY <1>3, <1>4, <1>5, <1>6, <1>7
<1>9. TimersBounded'
  BY <1>2, <1>3, <1>6, <1>8, TimersStay
<1> QED
  BY <1>2, <1>3, <1>6, <1>9 DEF TypeInv, Travels

(* Units move inside the book. *)
LEMMA MovesUnits ==
  ASSUME Book, NEW u \in User, NEW i \in Item, NEW q \in Nat,
         \/ Ledger!Take(u, i, q) \/ Ledger!GiveBack(u, i, q) \/ Ledger!Sell(u)
         \/ UNCHANGED ledgerVars
  PROVE  Book'
<1>1. CASE Ledger!Take(u, i, q)
  <2>1. free[i] \in Nat /\ held[u][i] \in Nat /\ free[i] - q \in Nat /\ held[u][i] + q \in Nat
    BY <1>1 DEF Book, Ledger!Take
  <2> QED
    BY <1>1, <2>1 DEF Book, Ledger!Take
<1>2. CASE Ledger!GiveBack(u, i, q)
  <2>1. free[i] \in Nat /\ held[u][i] \in Nat /\ free[i] + q \in Nat /\ held[u][i] - q \in Nat
    BY <1>2 DEF Book, Ledger!GiveBack
  <2> QED
    BY <1>2, <2>1 DEF Book, Ledger!GiveBack
<1>3. CASE Ledger!Sell(u)
  <2>1. \A j \in Item : sold[j] + held[u][j] \in Nat
    BY DEF Book
  <2> QED
    BY <1>3, <2>1 DEF Book, Ledger!Sell
<1>4. CASE UNCHANGED ledgerVars
  BY <1>4 DEF Book, ledgerVars
<1> QED
  BY <1>1, <1>2, <1>3, <1>4

(* Failures leave naturals in it, too.                                     *)
LEMMA FailuresMove ==
  ASSUME Book, NEW u \in User, NEW i \in Item, NEW f \in Int, NEW h \in Int,
         Moves(u, i, f, h)
  PROVE  Book'
<1>1. free[i] + f \in Nat /\ held[u][i] + h \in Nat
  BY DEF Book, Moves
<1> QED
  BY <1>1 DEF Book, Moves

(* A sale, whatever it sells. *)
LEMMA SalesMove ==
  ASSUME Book, NEW u \in User, Ledger!Sell(u)
  PROVE  Book'
<1>1. \E i \in Item : TRUE
  BY DEF Ledger!Sell
<1> QED
  BY <1>1, MovesUnits

-----------------------------------------------------------------------------
(* What the backend does for a request, and what it sends.                 *)

(* m is a reply to c, before which the counts of the items in C are pushed:*)
(* a success has pushed what it moved, carries what it was asked for, and  *)
(* a load moves nothing.                                                   *)
Outcome(c, m, C) ==
  /\ m.kind = c.kind /\ m.user = c.user /\ m.item = c.item /\ m.page = c.page
  /\ \A i \in DOMAIN m.counts : m.counts[i] = free'[i]
  /\ ~Special(m.kind) => UNCHANGED held
  /\ m.status = "ok" =>
       /\ \A i \in Item \ C : free'[i] = free[i]
       /\ m.kind = "items" => \A i \in OnPage(m.page) : i \in DOMAIN m.counts
       /\ m.kind = "cart" => m.cart = held[m.user]
       /\ m.kind = "checkout" => held'[m.user] = EMPTY_CART

(* A push of the live counts.                                              *)
Tells(p) == /\ p.kind = "push"
            /\ \A i \in DOMAIN p.counts : p.counts[i] = free'[i]

(* A request is answered, with a push before the reply or without one.     *)
Served(c) ==
  \E m \in Message :
    \/ net' = Append(net, m) /\ Outcome(c, m, {})
    \/ \E p \in Message : /\ Tells(p) /\ net' = Append(Append(net, p), m)
                          /\ Outcome(c, m, DOMAIN p.counts)

(* What a push carries.                                                    *)
LEMMA PushOf ==
  ASSUME Book', NEW S \in SUBSET Item, NEW p, p = Push(S, free')
  PROVE  p \in Message /\ Tells(p) /\ DOMAIN p.counts = S
<1>1. free' \in [Item -> Nat]
  BY DEF Book
<1>2. ASSUME NEW remaining \in [Item -> Nat], NEW e, e = Push(S, remaining)
      PROVE  /\ e \in Message /\ e.kind = "push"
             /\ DOMAIN e.counts = S /\ \A i \in S : e.counts[i] = remaining[i]
  <2>1. e \in Message
    BY <1>2, PushIs
  <2>2. e.kind = "push" /\ e.counts = [i \in S |-> remaining[i]]
    BY <1>2 DEF Push, Reply, Ask
  <2> QED
    BY <2>1, <2>2
<1> QED
  BY <1>1, <1>2 DEF Tells

(* What a reply carries that carries nothing.                              *)
LEMMA AnswerOf ==
  ASSUME NEW c \in Asked, NEW status \in {"ok", "conflict", "error"},
         NEW m, m = Answer(c, status)
  PROVE  /\ m \in Message /\ m.status = status /\ DOMAIN m.counts = {}
         /\ m.kind = c.kind /\ m.user = c.user /\ m.item = c.item /\ m.page = c.page
<1>1. m \in Message
  BY AnswerIs
<1>2. m.counts = << >>
  BY DEF Answer, Reply
<1> QED
  BY <1>1, <1>2 DEF Answer, Reply

(* A request that moves nothing.                                           *)
LEMMA Responds ==
  ASSUME NEW c \in Asked, NEW status \in {"ok", "conflict", "error"},
         net' = Append(net, Answer(c, status)), UNCHANGED ledgerVars,
         status = "ok" => c.kind = "login"
  PROVE  Served(c)
<1>1. PICK m \in Message :
        /\ net' = Append(net, m) /\ m.status = status /\ DOMAIN m.counts = {}
        /\ m.kind = c.kind /\ m.user = c.user /\ m.item = c.item /\ m.page = c.page
  BY AnswerOf
<1>2. Outcome(c, m, {})
  BY <1>1 DEF Outcome, ledgerVars
<1> QED
  BY <1>1, <1>2 DEF Served

(* A request that moves units of the items in S. *)
LEMMA Broadcasts ==
  ASSUME TypeInv, NEW c \in Asked, Book', Special(c.kind), NEW S \in SUBSET Item,
         BroadcastAndRespond(c, S), \A i \in Item \ S : free'[i] = free[i],
         c.kind = "checkout" => held'[c.user] = EMPTY_CART
  PROVE  Served(c)
<1>1. PICK m \in Message :
        /\ m = Answer(c, "ok") /\ m.status = "ok" /\ DOMAIN m.counts = {}
        /\ m.kind = c.kind /\ m.user = c.user /\ m.item = c.item /\ m.page = c.page
  BY AnswerOf
<1>2. PICK p \in Message : p = Push(S, free') /\ Tells(p) /\ DOMAIN p.counts = S
  BY PushOf
<1>3. net' = net \o <<p, m>>
  BY <1>1, <1>2 DEF BroadcastAndRespond
<1>4. net' = Append(Append(net, p), m)
  BY <1>3, ConcatTwo DEF TypeInv, Travels
<1>5. Outcome(c, m, S)
  BY <1>1 DEF Outcome, Special
<1> QED
  BY <1>2, <1>4, <1>5 DEF Served

(* A request that fails, and may have pushed the counts of the items in S. *)
LEMMA Throws ==
  ASSUME TypeInv, NEW c \in Asked, Book', NEW S \in SUBSET Item, Throw(c, S),
         ~Special(c.kind) => UNCHANGED held
  PROVE  Served(c)
<1>1. PICK m \in Message :
        /\ m = Answer(c, "error") /\ m.status = "error" /\ DOMAIN m.counts = {}
        /\ m.kind = c.kind /\ m.user = c.user /\ m.item = c.item /\ m.page = c.page
  BY AnswerOf
<1>2. net \in Seq(Message)
  BY DEF TypeInv, Travels
<1>3. \A C : Outcome(c, m, C)
  BY <1>1 DEF Outcome
<1>4. CASE S = {}
  <2>1. net' = (net \o << >>) \o <<m>>
    BY <1>1, <1>4 DEF Throw
  <2>2. net \o << >> = net
    BY <1>2, ConcatEmptySeq
  <2>3. net' = Append(net, m)
    BY <1>2, <2>1, <2>2, ConcatOne
  <2> QED
    BY <1>3, <2>3 DEF Served
<1>5. CASE S # {}
  <2>1. PICK p \in Message : p = Push(S, free') /\ Tells(p)
    BY PushOf
  <2>2. net' = (net \o <<p>>) \o <<m>>
    BY <1>1, <1>5, <2>1 DEF Throw
  <2>3. net \o <<p>> = Append(net, p) /\ Append(net, p) \in Seq(Message)
    BY <1>2, ConcatOne, AppendIs
  <2>4. net' = Append(Append(net, p), m)
    BY <2>2, <2>3, ConcatOne
  <2> QED
    BY <1>3, <2>1, <2>4 DEF Served
<1> QED
  BY <1>4, <1>5

(* The backend executes a request.                                         *)
LEMMA Serves ==
  ASSUME TypeInv, NEW c \in Asked, Serve(c)
  PROVE  Book' /\ Served(c)
<1>1. Book /\ c \in Request /\ Asking(c)
  BY DEF TypeInv, Asked
<1>2. CASE ServeLogin(c)
  BY <1>1, <1>2, Responds DEF ServeLogin, Respond, Book, ledgerVars
<1>3. CASE ServeItems(c)
  <2>1. EMPTY_CART \in [Item -> Nat] /\ free \in [Item -> Nat]
    BY <1>1 DEF EMPTY_CART, Book
  <2>2. IsCounts([i \in OnPage(c.page) |-> free[i]]) /\ c.kind = "items"
    BY <1>3, <2>1 DEF IsCounts, OnPage, ServeItems
  <2>3. ASSUME NEW m, m = Reply(c, "ok", EMPTY_CART, [i \in OnPage(c.page) |-> free[i]]),
               net' = Append(net, m), UNCHANGED ledgerVars
        PROVE  Served(c)
    <3>1. m \in Message
      BY <2>1, <2>2, <2>3, ReplyIs
    <3>2. /\ m.counts = [i \in OnPage(c.page) |-> free[i]]
          /\ m.kind = c.kind /\ m.user = c.user /\ m.item = c.item /\ m.page = c.page
      BY <2>3 DEF Reply
    <3>3. Outcome(c, m, {})
      BY <2>2, <2>3, <3>2 DEF Outcome, ledgerVars
    <3> QED
      BY <2>3, <3>1, <3>3 DEF Served
  <2> QED
    BY <1>1, <1>3, <2>3 DEF ServeItems, Book, ledgerVars
<1>4. CASE ServeCart(c)
  <2>1. c.kind = "cart" /\ UNCHANGED ledgerVars
    BY <1>4 DEF ServeCart
  <2>2. CASE c.user = None
    BY <1>1, <1>4, <2>1, <2>2, Responds DEF ServeCart, Book, ledgerVars
  <2>3. CASE c.user # None
    <3>1. held[c.user] \in [Item -> Nat] /\ IsCounts(<< >>) /\ DOMAIN << >> = {}
      BY <1>1, <2>3 DEF Book, Request, IsCounts
    <3>2. ASSUME NEW m, m = Reply(c, "ok", held[c.user], << >>), net' = Append(net, m)
          PROVE  Served(c)
      <4>1. m \in Message
        BY <3>1, <3>2, ReplyIs
      <4>2. /\ m.counts = << >> /\ m.cart = held[c.user]
            /\ m.kind = c.kind /\ m.user = c.user /\ m.item = c.item /\ m.page = c.page
        BY <3>2 DEF Reply
      <4>3. Outcome(c, m, {})
        BY <2>1, <3>1, <4>2 DEF Outcome, ledgerVars
      <4> QED
        BY <3>2, <4>1, <4>3 DEF Served
    <3>3. net' = Append(net, Reply(c, "ok", held[c.user], << >>))
      BY <1>4, <2>3 DEF ServeCart
    <3> QED
      BY <1>1, <2>1, <3>2, <3>3 DEF Book, ledgerVars
  <2> QED
    BY <2>2, <2>3
<1>5. CASE ServeReserve(c)
  <2>1. c.kind \in {"add", "plus"} /\ c.user \in User /\ c.item \in Item
    BY <1>1, <1>5 DEF ServeReserve, Asking
  <2>2. Book'
    BY <1>1, <1>5, <2>1, MovesUnits DEF ServeReserve
  <2>3. ASSUME Ledger!Take(c.user, c.item, 1), BroadcastAndRespond(c, {c.item})
        PROVE  Served(c)
    <3>1. \A i \in Item \ {c.item} : free'[i] = free[i]
      BY <1>1, <2>3 DEF Ledger!Take, Book
    <3> QED
      BY <2>1, <2>2, <2>3, <3>1, Broadcasts DEF Special
  <2> QED
    BY <1>5, <2>1, <2>2, <2>3, Responds DEF ServeReserve, Respond
<1>6. CASE ServeReturn(c)
  <2>1. c.kind \in {"minus", "remove"} /\ c.user \in User /\ c.item \in Item
    BY <1>1, <1>6 DEF ServeReturn, Asking
  <2>2. Returned(c) \in Nat
    BY <1>1, <2>1 DEF Returned, Book
  <2>3. Book'
    BY <1>1, <1>6, <2>1, <2>2, MovesUnits DEF ServeReturn
  <2>4. \A i \in Item \ {c.item} : free'[i] = free[i]
    BY <1>1, <1>6 DEF ServeReturn, Ledger!GiveBack, Book
  <2> QED
    BY <1>6, <2>1, <2>3, <2>4, Broadcasts DEF ServeReturn, Special
<1>7. CASE ServeCheckout(c)
  <2>1. c.kind = "checkout" /\ c.user \in User
    BY <1>1, <1>7 DEF ServeCheckout, Asking
  <2>2. ASSUME Ledger!Sell(c.user), NEW S \in SUBSET Item, BroadcastAndRespond(c, S)
        PROVE  Book' /\ Served(c)
    <3>1. Book'
      BY <1>1, <2>1, <2>2, SalesMove
    <3>2. free' = free /\ held'[c.user] = EMPTY_CART
      BY <1>1, <2>1, <2>2 DEF Ledger!Sell, EMPTY_CART, Book
    <3> QED
      BY <2>1, <2>2, <3>1, <3>2, Broadcasts DEF Special
  <2>3. ASSUME UNCHANGED ledgerVars
        PROVE  Book'
    BY <1>1, <2>3 DEF Book, ledgerVars
  <2> QED
    BY <1>7, <2>1, <2>2, <2>3, Responds DEF ServeCheckout, Respond
<1> QED
  BY <1>2, <1>3, <1>4, <1>5, <1>6, <1>7 DEF Serve

(* A request fails, before its effects or after some of them.              *)
LEMMA Fails ==
  ASSUME TypeInv, NEW c \in Asked, FailsAfter(c)
  PROVE  Book' /\ Served(c)
<1>1. Book /\ c \in Request /\ Asking(c)
  BY DEF TypeInv, Asked
<1>2. ASSUME UNCHANGED ledgerVars, Throw(c, {})
      PROVE  Book' /\ Served(c)
  <2>1. Book' /\ UNCHANGED held
    BY <1>1, <1>2 DEF Book, ledgerVars
  <2> QED
    BY <1>2, <2>1, Throws
<1>3. ASSUME NEW move \in HalfWay(c), Moves(c.user, c.item, move[1], move[2]), Throw(c, {})
      PROVE  Book' /\ Served(c)
  <2>1. c.kind \in {"add", "plus", "minus", "remove"}
    BY <1>3 DEF HalfWay
  <2>2. c.user \in User /\ c.item \in Item
    BY <1>1, <2>1 DEF Asking
  <2>3. Returned(c) \in Nat
    BY <1>1, <2>2 DEF Returned, Book
  <2>4. move[1] \in Int /\ move[2] \in Int
    BY <1>3, <2>3 DEF HalfWay
  <2>5. Book'
    BY <1>1, <1>3, <2>2, <2>4, FailuresMove
  <2> QED
    BY <1>3, <2>1, <2>5, Throws DEF Special
<1>4. CASE RolledBack(c)
  <2>1. c.kind = "add" /\ c.user \in User /\ c.item \in Item
    BY <1>1, <1>4 DEF RolledBack, Asking
  <2>2. PICK h \in {0, 1} : Moves(c.user, c.item, 0, h)
    BY <1>4 DEF RolledBack
  <2>3. Book'
    BY <1>1, <2>1, <2>2, FailuresMove
  <2> QED
    BY <1>4, <2>1, <2>3, Throws DEF RolledBack, Special
<1>5. CASE SoldHalfWay(c)
  <2>1. c.kind = "checkout" /\ c.user \in User
    BY <1>1, <1>5 DEF SoldHalfWay, Asking
  <2>2. ASSUME sold' = [i \in Item |-> sold[i] + held[c.user][i]],
               UNCHANGED <<free, held>>
        PROVE  Book'
    <3>1. \A i \in Item : sold[i] + held[c.user][i] \in Nat
      BY <1>1, <2>1 DEF Book
    <3> QED
      BY <1>1, <2>2, <3>1 DEF Book
  <2>3. ASSUME Ledger!Sell(c.user)
        PROVE  Book'
    BY <1>1, <2>1, <2>3, SalesMove
  <2>4. Book' /\ \E S \in SUBSET Item : Throw(c, S)
    <3>1. CASE sold' = [i \in Item |-> sold[i] + held[c.user][i]] /\ UNCHANGED <<free, held>>
               /\ Throw(c, {})
      BY <2>2, <3>1
    <3>2. ASSUME Ledger!Sell(c.user), NEW i \in Item,
                 NEW S \in SUBSET {l \in Item \ {i} : held[c.user][l] > 0}, Throw(c, S)
          PROVE  Book' /\ \E R \in SUBSET Item : Throw(c, R)
      BY <2>3, <3>2
    <3> QED
      BY <1>5, <3>1, <3>2 DEF SoldHalfWay
  <2> QED
    BY <2>1, <2>4, Throws DEF Special
<1> QED
  BY <1>2, <1>3, <1>4, <1>5 DEF FailsAfter

(* Either way, it is answered.                                             *)
LEMMA Answers ==
  ASSUME TypeInv, NEW k \in DOMAIN requests, Execute(k) \/ Fail(k)
  PROVE  /\ requests' = RemoveAt(requests, k) /\ UNCHANGED screen
         /\ requests[k] \in Asked /\ Book' /\ Served(requests[k])
<1>1. requests[k] \in Asked
  BY ElementOfSeq, LenProperties DEF TypeInv, Travels
<1> QED
  BY <1>1, Serves, Fails DEF Execute, Fail

(* The backend's steps keep the invariant.                                 *)
LEMMA AnsweringType ==
  ASSUME TypeInv, Answering
  PROVE  TypeInv'
<1>1. PICK k \in DOMAIN requests : Execute(k) \/ Fail(k)
  BY DEF Answering
<1>2. /\ requests' = RemoveAt(requests, k) /\ UNCHANGED screen
      /\ Book' /\ Served(requests[k])
  BY <1>1, Answers
<1>3. PICK m \in Message :
        /\ m.kind = requests[k].kind /\ m.item = requests[k].item
        /\ \/ net' = Append(net, m)
           \/ \E p \in Message : p.kind = "push" /\ net' = Append(Append(net, p), m)
  BY <1>2 DEF Served, Outcome, Tells
<1> QED
  BY <1>2, <1>3, ServedType

(* The tab sends requests of its own, none of which edits a line. *)
LEMMA SendAllType ==
  ASSUME TypeInv, NEW a \in Asked, NEW b \in Asked,
         a.kind \in {"items", "cart"}, b.kind \in {"items", "cart"},
         \/ UNCHANGED requests \/ SendAll(<<a>>) \/ SendAll(<<a, b>>)
  PROVE  /\ requests' \in Seq(Asked)
         /\ \A i : Count(requests', i) = Count(requests, i)
<1>1. requests \in Seq(Asked)
  BY DEF TypeInv, Travels
<1>2. \A i : ~Edit(a, i) /\ ~Edit(b, i) /\ Count(requests, i) \in Nat
  BY <1>1, CountType DEF Edit
<1>3. /\ Append(requests, a) \in Seq(Asked)
      /\ \A i : Count(Append(requests, a), i) = Count(requests, i)
  BY <1>1, <1>2, AppendIs, CountAppend
<1>4. /\ Append(Append(requests, a), b) \in Seq(Asked)
      /\ \A i : Count(Append(Append(requests, a), b), i) = Count(requests, i)
  <2> SUFFICES ASSUME NEW t \in Seq(Asked), \A i : Count(t, i) = Count(requests, i)
               PROVE  /\ Append(t, b) \in Seq(Asked)
                      /\ \A i : Count(Append(t, b), i) = Count(requests, i)
    BY <1>3
  <2>1. \A i : Count(Append(t, b), i) = Count(t, i) + IF Edit(b, i) THEN 1 ELSE 0
    BY CountAppend
  <2> QED
    BY <1>2, <2>1, AppendIs
<1>5. CASE UNCHANGED requests
  BY <1>1, <1>5
<1>6. CASE SendAll(<<a>>)
  BY <1>1, <1>3, <1>6, ConcatOne DEF SendAll
<1>7. CASE SendAll(<<a, b>>)
  <2>1. requests \o <<a, b>> = Append(Append(requests, a), b)
    BY <1>1, ConcatTwo
  <2>2. requests' = Append(Append(requests, a), b)
    BY <1>7, <2>1 DEF SendAll
  <2> QED
    BY <1>4, <2>2
<1> QED
  BY <1>5, <1>6, <1>7

(* What arrives is taken off the line. *)
LEMMA TakenType ==
  ASSUME TypeInv, NEW j \in DOMAIN net, net' = RemoveAt(net, j)
  PROVE  /\ net' \in Seq(Message) /\ net[j] \in Message
         /\ \A i : Count(net', i) = Count(net, i) - IF Edit(net[j], i) THEN 1 ELSE 0
<1>1. net \in Seq(Message) /\ j \in 1 .. Len(net)
  BY LenProperties DEF TypeInv, Travels
<1> QED
  BY <1>1, RemoveAtIs, CountRemoveAt, ElementOfSeq

(* What the tab shows after a message has its types.                       *)
LEMMA HandledScreen ==
  ASSUME TypeInv, NEW m \in Message, Handle(m)
  PROVE  Screen'
<1>1. Screen
  BY DEF TypeInv
<1>2. IsMessage(m) /\ m.kind \in Kind \cup {"push"} /\ (m.kind # "push" => Asking(m))
      /\ m.cart \in [Item -> Nat] /\ IsCounts(m.counts)
  BY DEF Message, Sent, IsMessage, IsCounts
<1>3. CASE OnStockUpdate(m)
  <2>1. IsCounts(items')
    BY <1>1, <1>2, <1>3 DEF OnStockUpdate, Screen, IsCounts
  <2> QED
    BY <1>1, <1>3, <2>1 DEF OnStockUpdate, Screen
<1>4. CASE Failed(m) \/ OnAdded(m) \/ OnRemoved(m)
  BY <1>1, <1>4 DEF Failed, OnAdded, OnRemoved, screen, Screen, IsCounts
<1>5. CASE OnLogin(m)
  BY <1>1, <1>2, <1>5 DEF OnLogin, Screen, IsCounts, Asking
<1>6. CASE OnItems(m)
  <2>1. m.page \in 1 .. LastPage
    BY <1>2, <1>6 DEF OnItems, Asking
  <2>2. IsCounts(items')
    BY <1>2, <1>6 DEF OnItems, IsCounts
  <2> QED
    BY <1>1, <1>6, <2>1, <2>2 DEF OnItems, Screen
<1>7. CASE OnCart(m)
  BY <1>1, <1>2, <1>7 DEF OnCart, Screen, IsCounts
<1>8. CASE OnUpdated(m)
  <2>1. m.item \in Item
    BY <1>2, <1>8 DEF OnUpdated, Asking
  <2> QED
    BY <1>1, <1>8, <2>1 DEF OnUpdated, SetLineError, ClearLineError, Screen, IsCounts
<1>9. CASE OnOrder(m)
  BY <1>1, <1>2, <1>9 DEF OnOrder, Screen, IsCounts, Asking, EMPTY_CART
<1> QED
  BY <1>3, <1>4, <1>5, <1>6, <1>7, <1>8, <1>9 DEF Handle

(* So have the requests that it sends.                                     *)
LEMMA HandledRequests ==
  ASSUME TypeInv, NEW m \in Message, Handle(m)
  PROVE  /\ requests' \in Seq(Asked)
         /\ \A i : Count(requests', i) = Count(requests, i)
<1>1. Asking(m) \/ m.kind = "push"
  BY DEF Message
<1>2. /\ session \in User \cup {None} /\ 0 \in Nat
      /\ pageState.page \in 1 .. LastPage
  BY DEF TypeInv, Screen
<1>3. RefreshCart \in Asked /\ RefreshCart.kind = "cart"
  BY <1>2, Pages DEF RefreshCart, Ask, Asked, Asking, Request, Kind
<1>4. Reload \in Asked /\ Reload.kind = "items"
  BY <1>2, Pages DEF Reload, LoadItems, Ask, Asked, Asking, Request, Kind
<1>5. ASSUME OnLogin(m)
      PROVE  \E a, b \in Asked : /\ a.kind \in {"items", "cart"} /\ b.kind \in {"items", "cart"}
                                 /\ SendAll(<<a, b>>)
  <2>1. m.user \in User
    BY <1>1, <1>5 DEF OnLogin, Asking
  <2>2. /\ Ask("items", m.user, None, pageState.page) \in Asked
        /\ Ask("cart", m.user, None, 0) \in Asked
    BY <1>2, <2>1, Requests
  <2>3. /\ Ask("items", m.user, None, pageState.page).kind = "items"
        /\ Ask("cart", m.user, None, 0).kind = "cart"
    BY DEF Ask
  <2> QED
    BY <1>5, <2>2, <2>3 DEF OnLogin
<1>6. UNCHANGED requests \/ SendAll(<<RefreshCart>>) \/ SendAll(<<Reload>>) \/ OnLogin(m)
  BY DEF Handle, OnStockUpdate, OnItems, OnCart, OnAdded, OnRemoved, OnUpdated,
         OnOrder, Failed
<1> QED
  BY <1>3, <1>4, <1>5, <1>6, SendAllType

(* Only an edit's reply sets a timer, and one.                             *)
LEMMA HandledTimers ==
  ASSUME TypeInv, NEW m \in Message, Handle(m)
  PROVE  /\ timers' \in [Item -> Nat]
         /\ \A i \in Item : timers'[i] <= timers[i] + IF Edit(m, i) THEN 1 ELSE 0
<1>1. timers \in [Item -> Nat]
  BY DEF TypeInv, TimersBounded
<1>2. UNCHANGED timers \/ (OnUpdated(m) /\ SetLineError(m.item))
  BY DEF Handle, OnStockUpdate, OnLogin, OnItems, OnCart, OnAdded, OnRemoved, OnUpdated,
         OnOrder, Failed, screen, ClearLineError
<1>3. CASE UNCHANGED timers
  BY <1>1, <1>3
<1>4. CASE OnUpdated(m) /\ SetLineError(m.item)
  <2>1. timers' = [timers EXCEPT ![m.item] = timers[m.item] + 1]
    BY <1>4 DEF SetLineError
  <2>2. \A i : Edit(m, i) <=> i = m.item
    BY <1>4 DEF OnUpdated, Edit
  <2>3. ASSUME NEW l, NEW t \in [Item -> Nat]
        PROVE  LET u == [t EXCEPT ![l] = t[l] + 1]
               IN  /\ u \in [Item -> Nat]
                   /\ \A i \in Item : u[i] = IF i = l THEN t[i] + 1 ELSE t[i]
    <3>1. CASE l \in Item
      BY <3>1
    <3>2. CASE l \notin Item
      <4>1. [t EXCEPT ![l] = t[l] + 1] = t
        BY <3>2
      <4> QED
        BY <3>2, <4>1
    <3> QED
      BY <3>1, <3>2
  <2>4. /\ timers' \in [Item -> Nat]
        /\ \A i \in Item : timers'[i] = IF i = m.item THEN timers[i] + 1 ELSE timers[i]
    BY <1>1, <2>1, <2>3
  <2> QED
    BY <1>1, <2>2, <2>4
<1> QED
  BY <1>2, <1>3, <1>4

(* What the tab does with a message keeps the invariant.                   *)
LEMMA DeliverType ==
  ASSUME TypeInv, NEW j \in DOMAIN net, Deliver(j)
  PROVE  TypeInv'
<1>1. net' = RemoveAt(net, j) /\ Handle(net[j]) /\ UNCHANGED ledgerVars
  BY DEF Deliver
<1>2. /\ net' \in Seq(Message) /\ net[j] \in Message
      /\ \A i : Count(net', i) = Count(net, i) - IF Edit(net[j], i) THEN 1 ELSE 0
  BY <1>1, TakenType
<1>3. Screen'
  BY <1>1, <1>2, HandledScreen
<1>4. requests' \in Seq(Asked) /\ \A i : Count(requests', i) = Count(requests, i)
  BY <1>1, <1>2, HandledRequests
<1>5. /\ timers' \in [Item -> Nat]
      /\ \A i \in Item : timers'[i] <= timers[i] + IF Edit(net[j], i) THEN 1 ELSE 0
  BY <1>1, <1>2, HandledTimers
<1>6. \A i : Count(requests, i) \in Nat /\ Count(net, i) \in Nat
  BY CountType DEF TypeInv, Travels
<1>7. timers \in [Item -> Nat]
  BY DEF TypeInv, TimersBounded
<1>8. \A i \in Item : timers'[i] + Count(requests', i) + Count(net', i)
                        <= timers[i] + Count(requests, i) + Count(net, i)
  BY <1>2, <1>4, <1>5, <1>6, <1>7
<1>9. TimersBounded'
  BY <1>2, <1>4, <1>5, <1>8, TimersStay
<1>10. Book'
  BY <1>1 DEF TypeInv, Book, ledgerVars
<1> QED
  BY <1>2, <1>3, <1>4, <1>9, <1>10 DEF TypeInv, Travels

(* Another tab's change that is pushed: the push tells what moved.         *)
LEMMA ElsewherePushes ==
  ASSUME TypeInv, NEW u \in User, Elsewhere(u)
  PROVE  /\ Book' /\ UNCHANGED <<requests, screen>>
         /\ \E p \in Message : /\ Tells(p) /\ net' = Append(net, p)
                               /\ \A i \in Item \ DOMAIN p.counts : free'[i] = free[i]
<1>1. Book
  BY DEF TypeInv
<1>2. ASSUME Book', NEW S \in SUBSET Item, net' = Append(net, Push(S, free')),
             \A i \in Item \ S : free'[i] = free[i]
      PROVE  \E p \in Message : /\ Tells(p) /\ net' = Append(net, p)
                                /\ \A i \in Item \ DOMAIN p.counts : free'[i] = free[i]
  BY <1>2, PushOf
<1>3. ASSUME NEW i \in Item, Ledger!Take(u, i, 1) \/ Ledger!GiveBack(u, i, 1)
      PROVE  Book' /\ \A l \in Item \ {i} : free'[l] = free[l]
  <2>1. Book'
    BY <1>1, <1>3, MovesUnits
  <2> QED
    BY <1>1, <1>3, <2>1 DEF Ledger!Take, Ledger!GiveBack, Book
<1>4. ASSUME Ledger!Sell(u)
      PROVE  Book' /\ free' = free
  BY <1>1, <1>4, SalesMove DEF Ledger!Sell
<1> QED
  BY <1>2, <1>3, <1>4 DEF Elsewhere

(* One that is not.                                                        *)
LEMMA ElsewhereSilent ==
  ASSUME TypeInv, NEW u \in User, NEW i \in Item, ElsewhereFails(u, i)
  PROVE  Book' /\ UNCHANGED <<requests, net, screen>>
<1>1. Book
  BY DEF TypeInv
<1>2. ASSUME NEW move \in {<<-1, 0>>, <<-1, 1>>, <<0, 1>>, <<1, 0>>, <<1, -1>>},
             Moves(u, i, move[1], move[2])
      PROVE  Book'
  <2>1. move[1] \in Int /\ move[2] \in Int
    BY <1>2
  <2> QED
    BY <1>1, <1>2, <2>1, FailuresMove
<1>3. ASSUME Ledger!Sell(u)
      PROVE  Book'
  BY <1>1, <1>3, SalesMove
<1> QED
  BY <1>2, <1>3 DEF ElsewhereFails

(* Every step keeps it.                                                    *)
LEMMA TypeNext ==
  ASSUME TypeInv, [Next]_vars
  PROVE  TypeInv'
<1>1. CASE Disconnect
  <2>1. PICK j \in DOMAIN net : net[j].kind = "push" /\ net' = RemoveAt(net, j)
    BY <1>1 DEF Disconnect
  <2>2. /\ net' \in Seq(Message)
        /\ \A i : Count(net', i) = Count(net, i) - IF Edit(net[j], i) THEN 1 ELSE 0
    BY <2>1, TakenType
  <2>3. \A i : ~Edit(net[j], i)
    BY <2>1 DEF Edit
  <2>4. UNCHANGED <<ledgerVars, requests, screen>>
    BY <1>1 DEF Disconnect
  <2>5. /\ Book' /\ Screen' /\ requests' \in Seq(Asked) /\ UNCHANGED <<requests, timers>>
        /\ timers \in [Item -> Nat]
    BY <2>4 DEF TypeInv, Travels, TimersBounded, Book, Screen, IsCounts, ledgerVars, screen
  <2>6. \A i : Count(requests, i) \in Nat /\ Count(net, i) \in Nat
    BY CountType DEF TypeInv, Travels
  <2>7. \A i \in Item : timers'[i] + Count(requests', i) + Count(net', i)
                          <= timers[i] + Count(requests, i) + Count(net, i)
    BY <2>2, <2>3, <2>5, <2>6
  <2>8. TimersBounded'
    BY <2>2, <2>5, <2>7, TimersStay
  <2> QED
    BY <2>2, <2>5, <2>8 DEF TypeInv, Travels
<1>2. ASSUME NEW u \in User, Elsewhere(u) \/ \E i \in Item : ElsewhereFails(u, i)
      PROVE  TypeInv'
  <2>1. Book' /\ UNCHANGED <<requests, screen>>
    BY <1>2, ElsewherePushes, ElsewhereSilent
  <2>2. net \in Seq(Message)
    BY DEF TypeInv, Travels
  <2>3. UNCHANGED net \/ \E p \in Message : p.kind = "push" /\ net' = Append(net, p)
    BY <1>2, ElsewherePushes, ElsewhereSilent DEF Tells
  <2>4. net' \in Seq(Message) /\ \A l : Count(net', l) = Count(net, l)
    <3>1. CASE UNCHANGED net
      BY <2>2, <3>1
    <3>2. ASSUME NEW p \in Message, p.kind = "push", net' = Append(net, p)
          PROVE  net' \in Seq(Message) /\ \A l : Count(net', l) = Count(net, l)
      <4>1. \A l : ~Edit(p, l) /\ Count(net, l) \in Nat
        BY <2>2, <3>2, CountType DEF Edit
      <4>2. \A l : Count(net', l) = Count(net, l) + IF Edit(p, l) THEN 1 ELSE 0
        BY <2>2, <3>2, CountAppend
      <4> QED
        BY <2>2, <3>2, <4>1, <4>2, AppendIs
    <3> QED
      BY <2>3, <3>1, <3>2
  <2>5. /\ Screen' /\ requests' \in Seq(Asked) /\ UNCHANGED <<requests, timers>>
        /\ timers \in [Item -> Nat]
    BY <2>1 DEF TypeInv, Travels, TimersBounded, Screen, IsCounts, screen
  <2>6. \A l : Count(requests, l) \in Nat /\ Count(net, l) \in Nat
    BY CountType DEF TypeInv, Travels
  <2>7. \A l \in Item : timers'[l] + Count(requests', l) + Count(net', l)
                          <= timers[l] + Count(requests, l) + Count(net, l)
    BY <2>4, <2>5, <2>6
  <2>8. TimersBounded'
    BY <2>4, <2>5, <2>7, TimersStay
  <2> QED
    BY <2>1, <2>4, <2>5, <2>8 DEF TypeInv, Travels
<1>3. ASSUME NEW i \in Item, Dismiss(i)
      PROVE  TypeInv'
  <2>1. /\ Book' /\ Screen' /\ requests' \in Seq(Asked) /\ net' \in Seq(Message)
        /\ UNCHANGED <<requests, net>>
    BY <1>3 DEF Dismiss, TypeInv, Travels, Book, Screen, IsCounts, ledgerVars
  <2>2. timers' \in [Item -> Nat] /\ \A l \in Item : timers'[l] <= timers[l]
    BY <1>3 DEF Dismiss, TypeInv, TimersBounded
  <2>3. \A l : Count(requests, l) \in Nat /\ Count(net, l) \in Nat
    BY CountType DEF TypeInv, Travels
  <2>4. \A l \in Item : timers'[l] + Count(requests', l) + Count(net', l)
                          <= timers[l] + Count(requests, l) + Count(net, l)
    BY <2>1, <2>2, <2>3 DEF TypeInv, TimersBounded
  <2>5. TimersBounded'
    BY <2>1, <2>2, <2>4, TimersStay
  <2> QED
    BY <2>1, <2>5 DEF TypeInv, Travels
<1>4. CASE UNCHANGED vars
  BY <1>4 DEF vars, ledgerVars, screen, TypeInv, Book, Travels, Screen, IsCounts,
     TimersBounded, Count, Edits
<1> QED
  BY <1>1, <1>2, <1>3, <1>4, ActType, AnsweringType, DeliverType DEF Next, Tab, Others, Arriving

(* Whatever the user clicks, however requests and replies are reordered,   *)
(* and whichever fail or are lost: the page shown exists, no count and no  *)
(* quantity is negative, and a line has no more pending timers than edits  *)
(* that were allowed.                                                      *)
THEOREM TypesAlwaysRight == Spec => []TypeOK
<1>1. Init => TypeInv
  BY TypeInit
<1>2. TypeInv /\ [Next]_vars => TypeInv'
  BY TypeNext
<1>3. TypeInv => TypeOK
  <2> SUFFICES ASSUME TypeInv PROVE TypeOK
    OBVIOUS
  <2>1. Book /\ Travels /\ Screen /\ TimersBounded
    BY DEF TypeInv
  <2>2. requests \in Seq(Request)
    BY <2>1 DEF Travels, Asked
  <2>3. \A j \in DOMAIN net : IsMessage(net[j])
    BY <2>1, LenProperties, ElementOfSeq, MessageIs DEF Travels
  <2>4. timers \in [Item -> 0 .. MaxTimers]
    <3>1. \A i : Count(requests, i) \in Nat /\ Count(net, i) \in Nat
      BY <2>1, CountType DEF Travels
    <3> QED
      BY <2>1, <3>1, Constants DEF TimersBounded
  <2> QED
    BY <2>1, <2>2, <2>3, <2>4 DEF TypeOK, Book, Screen
<1> QED
  BY <1>1, <1>2, <1>3, PTL DEF Spec

-----------------------------------------------------------------------------
(* The errors of lines.                                                    *)

(* Every step keeps the shown error's timer.                               *)
LEMMA TimerNext ==
  ASSUME TypeInv, LineErrorHasTimer, [Next]_vars
  PROVE  LineErrorHasTimer'
<1>1. /\ timers \in [Item -> Nat] /\ None \notin Item
      /\ lineError \in Item \cup {None}
  BY Constants DEF TypeInv, TimersBounded, Screen
<1>2. ASSUME UNCHANGED <<lineError, timers>>
      PROVE  LineErrorHasTimer'
  BY <1>2 DEF LineErrorHasTimer
<1>3. CASE Act
  <2>1. ASSUME ReloadPage PROVE LineErrorHasTimer'
    BY <2>1 DEF ReloadPage, LineErrorHasTimer
  <2>2. ReloadPage \/ UNCHANGED <<lineError, timers>>
    BY <1>3 DEF Act, Login, logout, checkout, backToStore, goToPage, Grab, increase,
       decrease, remove, screen
  <2> QED
    BY <1>2, <2>1, <2>2
<1>4. CASE Answering \/ Disconnect \/ UNCHANGED vars
  BY <1>2, <1>4 DEF Answering, Execute, Fail, Disconnect, vars, screen
<1>5. ASSUME NEW j \in DOMAIN net, Deliver(j)
      PROVE  LineErrorHasTimer'
  <2>1. PICK m \in Message : Handle(m)
    BY <1>5, TakenType DEF Deliver
  <2>2. ASSUME OnUpdated(m), SetLineError(m.item)
        PROVE  LineErrorHasTimer'
    <3>1. m.item \in Item
      BY <2>1, <2>2 DEF OnUpdated, Message, Asking
    <3>2. timers[m.item] \in Nat /\ timers'[m.item] = timers[m.item] + 1
      BY <1>1, <2>2, <3>1 DEF SetLineError
    <3> QED
      BY <2>2, <3>2 DEF SetLineError, LineErrorHasTimer
  <2>3. ASSUME OnUpdated(m), ClearLineError(m.item)
        PROVE  LineErrorHasTimer'
    BY <2>3 DEF ClearLineError, LineErrorHasTimer
  <2>4. \/ UNCHANGED <<lineError, timers>>
        \/ OnUpdated(m) /\ (SetLineError(m.item) \/ ClearLineError(m.item))
    BY <2>1 DEF Handle, OnStockUpdate, OnLogin, OnItems, OnCart, OnAdded, OnRemoved,
       OnUpdated, OnOrder, Failed, screen
  <2> QED
    BY <1>2, <2>2, <2>3, <2>4
<1>6. ASSUME NEW u \in User, Elsewhere(u) \/ \E i \in Item : ElsewhereFails(u, i)
      PROVE  LineErrorHasTimer'
  BY <1>2, <1>6 DEF Elsewhere, ElsewhereFails, screen
<1>7. ASSUME NEW i \in Item, Dismiss(i)
      PROVE  LineErrorHasTimer'
  BY <1>1, <1>7 DEF Dismiss, LineErrorHasTimer
<1> QED
  BY <1>3, <1>4, <1>5, <1>6, <1>7 DEF Next, Tab, Others, Arriving

(* However edits of lines, their failures, reloads, and the timeouts of    *)
(* earlier errors interleave: an error that is shown has a timeout still   *)
(* to come, which will clear it.                                           *)
THEOREM LineErrorsAlwaysTimed == Spec => []LineErrorHasTimer
<1>1. Init => TypeInv /\ LineErrorHasTimer
  BY TypeInit DEF Init, LineErrorHasTimer
<1>2. TypeInv /\ LineErrorHasTimer /\ [Next]_vars => TypeInv' /\ LineErrorHasTimer'
  BY TypeNext, TimerNext
<1> QED
  BY <1>1, <1>2, PTL DEF Spec

-----------------------------------------------------------------------------
(* The cart.                                                               *)

(* Nothing but pushes travels to the tab.                                  *)
Pushes(n) == \A j \in DOMAIN n : n[j].kind = "push"

(* It was sent, or is answered, for the session of the moment.             *)
OfSession(c, s) == IF c.kind = "login" THEN s = None ELSE s # None /\ c.user = s

(* The cart shown is the user's, or a load of it is under way or will be   *)
(* asked for when the reply under way arrives.                             *)
Coming(r, n, lines, h) ==
  \/ lines = h
  \/ \E k \in DOMAIN r : r[k].kind = "cart"
  \/ \E j \in DOMAIN n : n[j].status = "ok" /\ (n[j].kind = "cart" \/ Special(n[j].kind))

(* A special request is alone, but for pushes, and so is its reply.        *)
Alone(r, n) ==
  /\ \A k \in DOMAIN r : Special(r[k].kind) => Len(r) = 1 /\ Pushes(n)
  /\ \A j \in DOMAIN n : Special(n[j].kind) =>
       /\ r = << >>
       /\ \A l \in DOMAIN n : l # j => n[l].kind = "push"

(* The cart is loaded once at a time.                                      *)
OneLoad(r, n) ==
  \A k \in DOMAIN r : r[k].kind = "cart" =>
    /\ \A l \in DOMAIN r : l # k => r[l].kind # "cart"
    /\ \A j \in DOMAIN n : n[j].kind # "cart"

(* All that is asked and answered is of this session.                      *)
Own(r, n, s) ==
  /\ \A k \in DOMAIN r : OfSession(r[k], s)
  /\ \A j \in DOMAIN n : n[j].kind # "push" => OfSession(n[j], s)

(* A cart on its way is the user's; if a checkout's success is on its way, *)
(* that is empty.                                                          *)
Sound(n, h) ==
  \A j \in DOMAIN n : n[j].status = "ok" =>
    /\ n[j].kind = "cart" => n[j].cart = h
    /\ n[j].kind = "checkout" => h = EMPTY_CART

(* These together, for some requests, messages, session, lines shown and   *)
(* cart held; of a user in W, whose cart the tab cannot know, they say     *)
(* only who is alone and whose the requests are.                           *)
CartSync(r, n, s, lines, h, W) ==
  /\ Alone(r, n)
  /\ OneLoad(r, n)
  /\ Own(r, n, s)
  /\ s \notin W => Sound(n, h)
  /\ s # None /\ s \notin W => Coming(r, n, lines, h)

(* What nobody can know may change, and so may what is no user's. *)
LEMMA KnownLess ==
  ASSUME NEW r, NEW n, NEW s, NEW lines, NEW h, NEW W, CartSync(r, n, s, lines, h, W),
         NEW g, NEW V, s \in W => s \in V, s = None \/ s \in V \/ g = h
  PROVE  CartSync(r, n, s, lines, g, V)
<1>1. CASE s \in V
  BY <1>1 DEF CartSync
<1>2. CASE s \notin V /\ g = h
  BY <1>2 DEF CartSync
<1>3. CASE s = None /\ s \notin V
  BY <1>3 DEF CartSync, Own, Sound, OfSession
<1> QED
  BY <1>1, <1>2, <1>3

(* A push changes nothing of this.                                         *)
LEMMA PushSync ==
  ASSUME NEW r \in Seq(Asked), NEW n \in Seq(Message), NEW s, NEW lines, NEW h, NEW W,
         NEW p \in Message, p.kind = "push", CartSync(r, n, s, lines, h, W)
  PROVE  CartSync(r, Append(n, p), s, lines, h, W)
<1> SUFFICES ASSUME NEW t \in Seq(Message), t = Append(n, p), NEW l, l = Len(n) + 1,
                    l \notin DOMAIN n, DOMAIN t = DOMAIN n \cup {l},
                    t[l] = p, \A j \in DOMAIN n : t[j] = n[j]
             PROVE  CartSync(r, t, s, lines, h, W)
  <2>1. /\ Append(n, p) \in Seq(Message) /\ Len(n) + 1 \notin DOMAIN n
        /\ DOMAIN Append(n, p) = DOMAIN n \cup {Len(n) + 1}
        /\ Append(n, p)[Len(n) + 1] = p /\ \A j \in DOMAIN n : Append(n, p)[j] = n[j]
    BY AppendIs
  <2> QED
    BY <2>1
<1>1. Alone(r, t)
  BY DEF CartSync, Alone, Pushes, Special
<1>2. Own(r, t, s)
  BY DEF CartSync, Own
<1>3. s \notin W => Sound(t, h)
  BY DEF CartSync, Sound
<1>4. s # None /\ s \notin W => Coming(r, t, lines, h)
  BY DEF CartSync, Coming
<1>5. OneLoad(r, t)
  BY DEF CartSync, OneLoad
<1> QED
  BY <1>1, <1>2, <1>3, <1>4, <1>5 DEF CartSync

(* The reply to a load. *)
LEMMA LoadServed ==
  ASSUME NEW r \in Seq(Asked), NEW n \in Seq(Message), NEW s, NEW lines, NEW h, NEW W,
         CartSync(r, n, s, lines, h, W), NEW k \in DOMAIN r, NEW V,
         NEW m \in Message, m.kind = r[k].kind, m.user = r[k].user, ~Special(m.kind),
         IF m.kind = "cart" /\ m.status = "ok" THEN m.cart = h ELSE s \in W => s \in V,
         m.kind = "cart" /\ m.status # "ok" => s \in V
  PROVE  CartSync(RemoveAt(r, k), Append(n, m), s, lines, h, V)
<1>1. /\ DOMAIN r = 1 .. Len(r) /\ k \in 1 .. Len(r)
  BY LenProperties
<1> SUFFICES ASSUME NEW t \in Seq(Message), t = Append(n, m), NEW l, l = Len(n) + 1,
                    l \notin DOMAIN n, DOMAIN t = DOMAIN n \cup {l},
                    t[l] = m, \A j \in DOMAIN n : t[j] = n[j],
                    NEW q, q = RemoveAt(r, k),
                    \A x \in DOMAIN q : /\ Was(x, k) \in DOMAIN r /\ Was(x, k) # k
                                        /\ q[x] = r[Was(x, k)],
                    \A x, y \in DOMAIN q : x # y => Was(x, k) # Was(y, k),
                    \A y \in DOMAIN r : y # k => \E x \in DOMAIN q : q[x] = r[y]
             PROVE  CartSync(q, t, s, lines, h, V)
  <2>1. /\ Append(n, m) \in Seq(Message) /\ Len(n) + 1 \notin DOMAIN n
        /\ DOMAIN Append(n, m) = DOMAIN n \cup {Len(n) + 1}
        /\ Append(n, m)[Len(n) + 1] = m /\ \A j \in DOMAIN n : Append(n, m)[j] = n[j]
    BY AppendIs
  <2>2. \A y \in DOMAIN r : y # k =>
          \E x \in DOMAIN RemoveAt(r, k) : RemoveAt(r, k)[x] = r[y]
    BY <1>1, RemoveAtKeeps
  <2>3. \A x \in DOMAIN RemoveAt(r, k) :
          Was(x, k) \in DOMAIN r /\ RemoveAt(r, k)[x] = r[Was(x, k)]
    BY <1>1, RemoveAtIs
  <2>4. \A x \in DOMAIN RemoveAt(r, k) : Was(x, k) # k
    BY <1>1, RemoveAtIs DEF Was
  <2>5. \A x, y \in DOMAIN RemoveAt(r, k) : x # y => Was(x, k) # Was(y, k)
    BY <1>1, RemoveAtIs DEF Was
  <2> QED
    BY <2>1, <2>2, <2>3, <2>4, <2>5
<1>2. \A y \in DOMAIN r : ~Special(r[y].kind)
  <2>1. Len(r) = 1 => \A y \in DOMAIN r : y = k
    BY <1>1
  <2> QED
    BY <1>1, <2>1 DEF CartSync, Alone
<1>3. r # << >>
  BY <1>1
<1>4. \A j \in DOMAIN n : ~Special(n[j].kind)
  BY <1>3 DEF CartSync, Alone
<1>5. Alone(q, t)
  BY <1>2, <1>4 DEF Alone
<1>6. Own(q, t, s)
  <2>1. \A x \in DOMAIN q : OfSession(q[x], s)
    BY DEF CartSync, Own
  <2>2. OfSession(m, s)
    BY DEF CartSync, Own, OfSession
  <2> QED
    BY <2>1, <2>2 DEF CartSync, Own
<1>7. OneLoad(q, t)
  <2>1. ASSUME NEW x \in DOMAIN q, q[x].kind = "cart"
        PROVE  /\ \A y \in DOMAIN q : y # x => q[y].kind # "cart"
               /\ \A j \in DOMAIN t : t[j].kind # "cart"
    <3>1. /\ Was(x, k) \in DOMAIN r /\ Was(x, k) # k /\ r[Was(x, k)].kind = "cart"
      BY <2>1
    <3>2. /\ \A y \in DOMAIN r : y # Was(x, k) => r[y].kind # "cart"
          /\ \A j \in DOMAIN n : n[j].kind # "cart"
      BY <3>1 DEF CartSync, OneLoad
    <3>3. m.kind # "cart"
      BY <3>1, <3>2
    <3>4. ASSUME NEW y \in DOMAIN q, y # x
          PROVE  q[y].kind # "cart"
      BY <3>2, <3>4
    <3> QED
      BY <3>2, <3>3, <3>4
  <2> QED
    BY <2>1 DEF OneLoad
<1>8. CASE m.kind = "cart"
  <2>1. \A j \in DOMAIN n : n[j].kind # "cart" /\ n[j].kind # "checkout"
    BY <1>4, <1>8 DEF CartSync, OneLoad, Special
  <2>2. s \notin V => Sound(t, h) /\ Coming(q, t, lines, h)
    BY <1>8, <2>1 DEF Sound, Coming
  <2> QED
    BY <1>5, <1>6, <1>7, <2>2 DEF CartSync
<1>9. CASE m.kind # "cart"
  <2>1. s \notin V => s \notin W /\ Sound(t, h)
    BY <1>9 DEF CartSync, Sound, Special
  <2>2. s # None /\ s \notin V => Coming(q, t, lines, h)
    BY <1>9 DEF CartSync, Coming
  <2> QED
    BY <1>5, <1>6, <1>7, <2>1, <2>2 DEF CartSync
<1> QED
  BY <1>8, <1>9

(* The reply to anything else. *)
LEMMA SpecialServed ==
  ASSUME NEW r \in Seq(Asked), NEW n \in Seq(Message), NEW s, NEW lines, NEW h, NEW g,
         NEW W, CartSync(r, n, s, lines, h, W), NEW k \in DOMAIN r, NEW V,
         NEW m \in Message, m.kind = r[k].kind, m.user = r[k].user, Special(m.kind),
         m.status # "ok" => (s \in W => s \in V) /\ (s = None \/ s \in V \/ g = h),
         m.kind = "checkout" /\ m.status = "ok" => g = EMPTY_CART
  PROVE  CartSync(RemoveAt(r, k), Append(n, m), s, lines, g, V)
<1>1. /\ DOMAIN r = 1 .. Len(r) /\ k \in 1 .. Len(r)
  BY LenProperties
<1>2. Len(r) = 1 /\ Pushes(n)
  BY DEF CartSync, Alone
<1>3. RemoveAt(r, k) = << >>
  <2>1. RemoveAt(r, k) \in Seq(Asked) /\ Len(RemoveAt(r, k)) = Len(r) - 1
    BY <1>1, RemoveAtIs
  <2> QED
    BY <1>2, <2>1, EmptySeq
<1>4. OfSession(m, s)
  BY DEF CartSync, Own, OfSession
<1> SUFFICES ASSUME NEW t \in Seq(Message), NEW l,
                    l \notin DOMAIN n, DOMAIN t = DOMAIN n \cup {l},
                    t[l] = m, \A j \in DOMAIN n : t[j] = n[j]
             PROVE  CartSync(<< >>, t, s, lines, g, V)
  <2>1. /\ Append(n, m) \in Seq(Message) /\ Len(n) + 1 \notin DOMAIN n
        /\ DOMAIN Append(n, m) = DOMAIN n \cup {Len(n) + 1}
        /\ Append(n, m)[Len(n) + 1] = m /\ \A j \in DOMAIN n : Append(n, m)[j] = n[j]
    BY AppendIs
  <2> QED
    BY <1>3, <2>1
<1>5. Alone(<< >>, t)
  BY <1>2 DEF Alone, Pushes, Special
<1>6. Own(<< >>, t, s)
  BY <1>2, <1>4 DEF Own, Pushes
<1>7. s \notin V => Sound(t, g)
  BY <1>2 DEF Sound, Pushes, Special
<1>8. s # None /\ s \notin V => Coming(<< >>, t, lines, g)
  <2>1. CASE m.status = "ok"
    BY <2>1 DEF Coming
  <2>2. CASE m.status # "ok"
    <3>1. s # None /\ s \notin W => lines = h
      <4>1. \A j \in DOMAIN r : r[j].kind = m.kind
        BY <1>1, <1>2
      <4> QED
        BY <1>2, <4>1 DEF CartSync, Coming, Pushes, Special
    <3> QED
      BY <2>2, <3>1 DEF Coming
  <2> QED
    BY <2>1, <2>2
<1>9. OneLoad(<< >>, t)
  BY DEF OneLoad
<1> QED
  BY <1>5, <1>6, <1>7, <1>8, <1>9 DEF CartSync

(* Nothing but loads, one of them of the cart, or one request of another   *)
(* kind, is asked for next.                                                *)
LEMMA AskedNext ==
  ASSUME NEW r, NEW n, NEW s, NEW lines, NEW h, NEW W, Pushes(n),
         \A k \in DOMAIN r : OfSession(r[k], s) /\ (Special(r[k].kind) => Len(r) = 1),
         \A k, l \in DOMAIN r : r[k].kind = "cart" /\ r[l].kind = "cart" => k = l,
         s # None => \/ s \in W \/ lines = h
                     \/ \E k \in DOMAIN r : r[k].kind = "cart"
  PROVE  CartSync(r, n, s, lines, h, W)
<1>1. Alone(r, n) /\ OneLoad(r, n) /\ Own(r, n, s)
  BY DEF Alone, OneLoad, Own, Pushes, Special
<1>2. Sound(n, h)
  BY DEF Sound, Pushes
<1>3. s # None /\ s \notin W => Coming(r, n, lines, h)
  BY DEF Coming
<1> QED
  BY <1>1, <1>2, <1>3 DEF CartSync

(* One request is asked for next.                                          *)
LEMMA AskedOne ==
  ASSUME NEW c, NEW n, NEW s, NEW lines, NEW h, NEW W, Pushes(n), OfSession(c, s),
         s # None => s \in W \/ lines = h \/ c.kind = "cart"
  PROVE  CartSync(<<c>>, n, s, lines, h, W)
<1>1. DOMAIN <<c>> = {1} /\ <<c>>[1] = c /\ Len(<<c>>) = 1
  OBVIOUS
<1> QED
  BY <1>1, AskedNext

(* All is loaded next.                                                     *)
LEMMA AskedAll ==
  ASSUME NEW r, NEW u, u # None, NEW p, NEW n, NEW lines, NEW h, NEW W, Pushes(n),
         r = <<Ask("items", u, None, p), Ask("cart", u, None, 0)>>
  PROVE  CartSync(r, n, u, lines, h, W)
<1>1. /\ DOMAIN r = {1, 2} /\ r[1] = Ask("items", u, None, p)
      /\ r[2] = Ask("cart", u, None, 0)
  OBVIOUS
<1>2. \A k \in DOMAIN r : OfSession(r[k], u) /\ ~Special(r[k].kind)
  BY <1>1 DEF Ask, OfSession, Special
<1>3. r[1].kind # "cart" /\ r[2].kind = "cart"
  BY <1>1 DEF Ask
<1> QED
  BY <1>1, <1>2, <1>3, AskedNext

(* A reply to a load is taken. *)
LEMMA TakenLoad ==
  ASSUME NEW r, NEW n \in Seq(Message), NEW s, NEW lines, NEW h, NEW W,
         CartSync(r, n, s, lines, h, W), NEW j \in DOMAIN n,
         ~Special(n[j].kind), NEW c,
         c = IF n[j].kind = "cart" /\ n[j].status = "ok" THEN n[j].cart ELSE lines
  PROVE  CartSync(r, RemoveAt(n, j), s, c, h, W)
<1>1. /\ DOMAIN n = 1 .. Len(n) /\ j \in 1 .. Len(n)
  BY LenProperties
<1> SUFFICES ASSUME NEW q, \A x \in DOMAIN q : Was(x, j) \in DOMAIN n /\ q[x] = n[Was(x, j)],
                    \A x, y \in DOMAIN q : x # y => Was(x, j) # Was(y, j),
                    \A y \in DOMAIN n : y # j => \E x \in DOMAIN q : q[x] = n[y]
             PROVE  CartSync(r, q, s, c, h, W)
  <2>1. \A x \in DOMAIN RemoveAt(n, j) :
          Was(x, j) \in DOMAIN n /\ RemoveAt(n, j)[x] = n[Was(x, j)]
    BY <1>1, RemoveAtIs
  <2>3. \A y \in DOMAIN n : y # j =>
          \E x \in DOMAIN RemoveAt(n, j) : RemoveAt(n, j)[x] = n[y]
    BY <1>1, RemoveAtKeeps
  <2>2. \A x, y \in DOMAIN RemoveAt(n, j) : x # y => Was(x, j) # Was(y, j)
    BY <1>1, RemoveAtIs DEF Was
  <2> QED
    BY <2>1, <2>2, <2>3
<1>2. Alone(r, q)
  BY DEF CartSync, Alone, Pushes
<1>3. Own(r, q, s)
  BY DEF CartSync, Own
<1>4. s \notin W => Sound(q, h)
  BY DEF CartSync, Sound
<1>5. s # None /\ s \notin W => Coming(r, q, c, h)
  <2>1. CASE n[j].kind = "cart" /\ n[j].status = "ok"
    BY <2>1 DEF CartSync, Sound, Coming
  <2>2. CASE ~(n[j].kind = "cart" /\ n[j].status = "ok")
    BY <2>2 DEF CartSync, Coming
  <2> QED
    BY <2>1, <2>2
<1>6. OneLoad(r, q)
  BY DEF CartSync, OneLoad
<1> QED
  BY <1>2, <1>3, <1>4, <1>5, <1>6 DEF CartSync

(* The reply to anything else arrives: nothing but pushes is left under    *)
(* way.                                                                    *)
LEMMA TakenSpecial ==
  ASSUME NEW r, NEW n \in Seq(Message), NEW s, NEW lines, NEW h, NEW W,
         CartSync(r, n, s, lines, h, W), NEW j \in DOMAIN n, Special(n[j].kind)
  PROVE  /\ r = << >> /\ Pushes(RemoveAt(n, j)) /\ OfSession(n[j], s)
         /\ s # None /\ n[j].status # "ok" => s \in W \/ lines = h
         /\ n[j].kind = "checkout" /\ n[j].status = "ok" => s \in W \/ h = EMPTY_CART
<1>1. /\ DOMAIN n = 1 .. Len(n) /\ j \in 1 .. Len(n)
  BY LenProperties
<1>2. \A x \in DOMAIN RemoveAt(n, j) : Was(x, j) \in DOMAIN n /\ RemoveAt(n, j)[x] = n[Was(x, j)]
  BY <1>1, RemoveAtIs
<1>3. \A x \in DOMAIN RemoveAt(n, j) : Was(x, j) # j
  BY <1>1, RemoveAtIs DEF Was
<1>4. r = << >> /\ Pushes(RemoveAt(n, j))
  BY <1>2, <1>3 DEF CartSync, Alone, Pushes
<1>5. OfSession(n[j], s)
  BY DEF CartSync, Own, Special
<1>6. ASSUME s # None, n[j].status # "ok", s \notin W
      PROVE  lines = h
  BY <1>4, <1>6 DEF CartSync, Coming, Alone, Special
<1> QED
  BY <1>4, <1>5, <1>6 DEF CartSync, Sound

-----------------------------------------------------------------------------
(* The counts.                                                             *)

(* The last count of an item that travels to the tab.                      *)
LastCount(n, j, i) ==
  /\ i \in DOMAIN n[j].counts
  /\ \A k \in DOMAIN n : k > j => i \notin DOMAIN n[k].counts

(* But for the items in W, the last count of an item on its way is the     *)
(* live one, and the count shown is if there is none on its way.           *)
Live(n, f, shown, W) ==
  \A i \in Item \ W :
    /\ \A j \in DOMAIN n : LastCount(n, j, i) => n[j].counts[i] = f[i]
    /\ i \in DOMAIN shown /\ (\A j \in DOMAIN n : i \notin DOMAIN n[j].counts)
         => shown[i] = f[i]

(* A count that changes is no longer spoken of.                            *)
LEMMA LiveLess ==
  ASSUME NEW n, NEW f, NEW g, NEW shown, NEW W, NEW V, Live(n, f, shown, W),
         \A i \in Item \ V : g[i] = f[i] /\ i \notin W
  PROVE  Live(n, g, shown, V)
BY DEF Live

(* A message that is sent with the counts of the items that it moves.      *)
LEMMA LiveSends ==
  ASSUME NEW n \in Seq(Message), NEW m \in Message, NEW f, NEW g, NEW shown,
         NEW W, NEW V, Live(n, f, shown, W),
         \A i \in Item \ V : IF i \in DOMAIN m.counts THEN m.counts[i] = g[i]
                             ELSE g[i] = f[i] /\ i \notin W
  PROVE  Live(Append(n, m), g, shown, V)
<1>1. Len(n) \in Nat /\ DOMAIN n = 1 .. Len(n)
  BY LenProperties
<1> SUFFICES ASSUME NEW t, DOMAIN t = 1 .. Len(n) + 1, t[Len(n) + 1] = m,
                    \A k \in 1 .. Len(n) : t[k] = n[k]
             PROVE  Live(t, g, shown, V)
  <2>1. /\ DOMAIN Append(n, m) = 1 .. Len(n) + 1 /\ Append(n, m)[Len(n) + 1] = m
        /\ \A k \in 1 .. Len(n) : Append(n, m)[k] = n[k]
    BY AppendIs
  <2> QED
    BY <2>1
<1>2. ASSUME NEW i \in Item \ V, NEW j \in DOMAIN t, LastCount(t, j, i)
      PROVE  t[j].counts[i] = g[i]
  <2>1. CASE j = Len(n) + 1
    BY <1>2, <2>1 DEF LastCount
  <2>2. CASE j \in 1 .. Len(n)
    <3>1. i \notin DOMAIN m.counts
      BY <1>1, <1>2, <2>2 DEF LastCount
    <3>2. LastCount(n, j, i)
      BY <1>1, <1>2, <2>2 DEF LastCount
    <3> QED
      BY <1>1, <2>2, <3>1, <3>2 DEF Live
  <2> QED
    BY <1>1, <1>2, <2>1, <2>2
<1>3. ASSUME NEW i \in Item \ V, i \in DOMAIN shown,
             \A j \in DOMAIN t : i \notin DOMAIN t[j].counts
      PROVE  shown[i] = g[i]
  <2>1. i \notin DOMAIN m.counts /\ \A j \in DOMAIN n : i \notin DOMAIN n[j].counts
    BY <1>1, <1>3
  <2> QED
    BY <1>3, <2>1 DEF Live
<1> QED
  BY <1>2, <1>3 DEF Live

(* The first message is taken, and its counts are shown.                   *)
LEMMA LiveTakes ==
  ASSUME NEW n \in Seq(Message), 1 \in DOMAIN n, NEW f, NEW shown, NEW next,
         NEW W, NEW V, Live(n, f, shown, W), \A i \in Item \ V : i \notin W,
         \A i \in DOMAIN next : IF i \in DOMAIN n[1].counts
                                THEN next[i] = n[1].counts[i]
                                ELSE i \in DOMAIN shown /\ next[i] = shown[i]
  PROVE  Live(RemoveAt(n, 1), f, next, V)
<1>1. Len(n) \in Nat /\ DOMAIN n = 1 .. Len(n) /\ 1 \in 1 .. Len(n)
  BY LenProperties
<1> SUFFICES ASSUME NEW t, DOMAIN t = 1 .. Len(n) - 1,
                    \A k \in 1 .. Len(n) - 1 : t[k] = n[k + 1]
             PROVE  Live(t, f, next, V)
  <2>1. DOMAIN RemoveAt(n, 1) = 1 .. Len(n) - 1
    BY <1>1, RemoveAtIs
  <2>2. \A k \in 1 .. Len(n) - 1 : RemoveAt(n, 1)[k] = n[Was(k, 1)]
    BY <1>1, RemoveAtIs
  <2>3. \A k \in 1 .. Len(n) - 1 : Was(k, 1) = k + 1
    BY <1>1 DEF Was
  <2> QED
    BY <2>1, <2>2, <2>3
<1>2. ASSUME NEW i \in Item \ V, NEW j \in DOMAIN t, LastCount(t, j, i)
      PROVE  t[j].counts[i] = f[i]
  <2>1. j \in 1 .. Len(n) - 1 /\ j + 1 \in DOMAIN n /\ t[j] = n[j + 1]
    BY <1>1, <1>2
  <2>2. ASSUME NEW k \in DOMAIN n, k > j + 1
        PROVE  i \notin DOMAIN n[k].counts
    <3>1. k - 1 \in DOMAIN t /\ k - 1 > j /\ t[k - 1] = n[k]
      BY <1>1, <2>1, <2>2
    <3> QED
      BY <1>2, <3>1 DEF LastCount
  <2>3. LastCount(n, j + 1, i)
    BY <1>2, <2>1, <2>2 DEF LastCount
  <2> QED
    BY <2>1, <2>3 DEF Live
<1>3. ASSUME NEW i \in Item \ V, i \in DOMAIN next,
             \A j \in DOMAIN t : i \notin DOMAIN t[j].counts
      PROVE  next[i] = f[i]
  <2>1. ASSUME NEW k \in DOMAIN n, k > 1
        PROVE  i \notin DOMAIN n[k].counts
    <3>1. k - 1 \in DOMAIN t /\ t[k - 1] = n[k]
      BY <1>1, <2>1
    <3> QED
      BY <1>3, <3>1
  <2>2. CASE i \in DOMAIN n[1].counts
    <3>1. LastCount(n, 1, i)
      BY <2>1, <2>2 DEF LastCount
    <3> QED
      BY <1>3, <2>2, <3>1 DEF Live
  <2>3. CASE i \notin DOMAIN n[1].counts
    <3>1. \A j \in DOMAIN n : i \notin DOMAIN n[j].counts
      BY <1>1, <2>1, <2>3
    <3> QED
      BY <1>3, <2>3, <3>1 DEF Live
  <2> QED
    BY <2>2, <2>3
<1> QED
  BY <1>2, <1>3 DEF Live

-----------------------------------------------------------------------------
(* What is settled.                                                        *)

(* A load of the page the item is on.                                      *)
Loads(c, i) == c.kind = "items" /\ PageOf[i] = c.page

(* A failure after which the tab loads page p again, which the item is on. *)
Refused(m, i, p) == /\ m.kind \in {"add", "plus", "minus"} /\ m.status # "ok"
                    /\ m.item = i /\ PageOf[i] = p

(* A load of the item is under way, or will be asked for.                  *)
Reloading(r, n, p, i) == \/ \E k \in DOMAIN r : Loads(r[k], i)
                         \/ \E j \in DOMAIN n : Refused(n[j], i, p)

(* Items whose count the tab does not know, or is about to load again.     *)
Unsettled ==
  {i \in Item : i \in unheard \/ Reloading(requests, net, pageState.page, i)}

(* The inductive invariant of the screen.                                  *)
SyncInv ==
  /\ CartSync(requests, net, session, cart, held[session], unsure)
  /\ Live(net, free, items, Unsettled)

(* What is new among what travels to the tab.                              *)
LEMMA NewIs ==
  ASSUME TypeInv
  PROVE  /\ UNCHANGED net => New = {}
         /\ net' = << >> => New = {}
         /\ \A j \in DOMAIN net : net' = RemoveAt(net, j) => New = {}
         /\ \A m \in Message : net' = Append(net, m) => New = {m}
         /\ \A p, m \in Message : net' = Append(Append(net, p), m) => New = {p, m}
<1>1. net \in Seq(Message) /\ Len(net) \in Nat /\ DOMAIN net = 1 .. Len(net)
  BY LenProperties DEF TypeInv, Travels
<1>2. ASSUME Len(net') \in Nat, Len(net') <= Len(net)
      PROVE  New = {}
  <2>1. Len(net) + 1 .. Len(net') = {}
    BY <1>1, <1>2
  <2> QED
    BY <2>1 DEF New
<1>3. UNCHANGED net => New = {}
  BY <1>1, <1>2
<1>4. net' = << >> => New = {}
  BY <1>1, <1>2
<1>5. ASSUME NEW j \in DOMAIN net, net' = RemoveAt(net, j)
      PROVE  New = {}
  <2>1. j \in 1 .. Len(net)
    BY <1>1
  <2>2. Len(net') = Len(net) - 1
    BY <1>1, <1>5, <2>1, RemoveAtIs
  <2> QED
    BY <1>1, <1>2, <2>1, <2>2
<1>6. ASSUME NEW m \in Message, net' = Append(net, m)
      PROVE  New = {m}
  <2>1. Len(net') = Len(net) + 1 /\ net'[Len(net) + 1] = m
    BY <1>1, <1>6, AppendIs
  <2>2. Len(net) + 1 .. Len(net') = {Len(net) + 1}
    BY <1>1, <2>1
  <2> QED
    BY <2>1, <2>2 DEF New
<1>7. ASSUME NEW p \in Message, NEW m \in Message, net' = Append(Append(net, p), m)
      PROVE  New = {p, m}
  <2>1. Append(net, p) \in Seq(Message) /\ Len(Append(net, p)) = Len(net) + 1
        /\ Append(net, p)[Len(net) + 1] = p
    BY <1>1, AppendIs
  <2>2. Len(net') = Len(net) + 2 /\ net'[Len(net) + 2] = m /\ net'[Len(net) + 1] = p
    <3>1. ASSUME NEW t \in Seq(Message), Len(t) = Len(net) + 1, t[Len(net) + 1] = p,
                 net' = Append(t, m)
          PROVE  Len(net') = Len(net) + 2 /\ net'[Len(net) + 2] = m
                 /\ net'[Len(net) + 1] = p
      <4>1. /\ Len(net') = Len(t) + 1 /\ net'[Len(t) + 1] = m
            /\ \A k \in 1 .. Len(t) : net'[k] = t[k]
        BY <3>1, AppendIs
      <4>2. Len(t) + 1 = Len(net) + 2 /\ Len(net) + 1 \in 1 .. Len(t)
        BY <1>1, <3>1
      <4> QED
        BY <3>1, <4>1, <4>2
    <3> QED
      BY <1>7, <2>1, <3>1
  <2>3. Len(net) + 1 .. Len(net') = {Len(net) + 1, Len(net) + 2}
    BY <1>1, <2>2
  <2> QED
    BY <2>2, <2>3 DEF New
<1> QED
  BY <1>3, <1>4, <1>5, <1>6, <1>7

(* When nothing is sent, only what has changed is noted.                   *)
LEMMA NothingSent ==
  ASSUME Noted, New = {}
  PROVE  /\ \A i \in Item : free'[i] = free[i] => (i \in unheard' <=> i \in unheard)
         /\ \A i \in Item : i \notin unheard' => i \notin unheard /\ free'[i] = free[i]
         /\ \A u \in User : u \notin unsure' => u \notin unsure /\ held'[u] = held[u]
         /\ \A u : u \in unsure => u \in unsure'
<1>1. CountsSent = {} /\ CartsSent = {} /\ Reloaded = {} /\ ~Succeeds
  BY DEF CountsSent, CartsSent, Reloaded, Succeeds
<1>2. CountsMissed = {i \in Item : free'[i] # free[i]}
  BY <1>1 DEF CountsMissed
<1>3. CartsMissed = {u \in User : held'[u] # held[u]}
  BY <1>1 DEF CartsMissed
<1> QED
  BY <1>1, <1>2, <1>3 DEF Noted

(* Requests are complete, and of the session.                              *)
LEMMA AskedIs ==
  ASSUME TypeInv, SyncInv, NEW k \in DOMAIN requests
  PROVE  /\ requests[k] \in Asked /\ Asking(requests[k]) /\ requests[k].kind \in Kind
         /\ OfSession(requests[k], session)
BY ElementOfSeq, LenProperties
   DEF TypeInv, Travels, SyncInv, CartSync, Own, Asked, Request

-----------------------------------------------------------------------------
(* What the backend answers.                                               *)

(* What it has just sent, and nothing else, is new.                        *)
LEMMA ServedIs ==
  ASSUME TypeInv, NEW c, Served(c)
  PROVE  \E m \in Message :
           \/ New = {m} /\ net' = Append(net, m) /\ Outcome(c, m, {})
           \/ \E p \in Message : /\ New = {p, m} /\ Tells(p)
                                 /\ net' = Append(Append(net, p), m)
                                 /\ Outcome(c, m, DOMAIN p.counts)
BY NewIs DEF Served

(* What is noted of its cart.                                              *)
LEMMA CartNoted ==
  ASSUME Noted, NEW m \in Message, m.kind # "push", NEW p \in Message, p.kind = "push",
         New = {m} \/ New = {p, m}, NEW u \in User
  PROVE  /\ ~(m.kind \in {"cart", "checkout"} /\ m.status = "ok" /\ m.user = u)
              => (u \in unsure => u \in unsure')
         /\ m.status # "ok" /\ u \notin unsure' => held'[u] = held[u]
         /\ m.status # "ok" /\ m.kind = "cart" /\ m.user = u => u \in unsure'
<1>1. m \in New /\ \A e \in New : e = m \/ e.kind = "push"
  OBVIOUS
<1>2. u \in CartsSent =>
        m.kind \in {"cart", "checkout"} /\ m.status = "ok" /\ m.user = u
  BY <1>1 DEF CartsSent
<1>3. m.status # "ok" => ~Succeeds
  BY <1>1 DEF Succeeds
<1>4. m.status # "ok" /\ held'[u] # held[u] => u \in CartsMissed
  BY <1>3 DEF CartsMissed
<1>5. m.status # "ok" /\ m.kind = "cart" /\ m.user = u => u \in CartsMissed
  BY <1>1 DEF CartsMissed
<1> QED
  BY <1>2, <1>4, <1>5 DEF Noted

(* What is noted of its counts.                                            *)
LEMMA CountsNoted ==
  ASSUME Noted, NEW m \in Message, m.kind # "push", NEW p \in Message, p.kind = "push",
         New = {m} \/ New = {p, m}, NEW i \in Item, i \notin unheard',
         i \notin DOMAIN m.counts, New = {p, m} => i \notin DOMAIN p.counts
  PROVE  /\ i \notin unheard
         /\ m.status # "ok" => free'[i] = free[i] \/ Refused(m, i, pageState.page)
         /\ ~(m.kind = "items" /\ m.status # "ok" /\ PageOf[i] = m.page)
<1>1. m \in New /\ \A e \in New : e = m \/ e.kind = "push"
  OBVIOUS
<1>2. i \notin CountsSent
  BY DEF CountsSent
<1>3. i \notin unheard /\ i \notin CountsMissed
  BY <1>2 DEF Noted
<1>4. m.status # "ok" => ~Succeeds
  BY <1>1 DEF Succeeds
<1>5. i \in Reloaded => Refused(m, i, pageState.page)
  BY <1>1 DEF Reloaded, Refused
<1> QED
  BY <1>1, <1>3, <1>4, <1>5 DEF CountsMissed

(* The request is gone and the reply has come: what the tab will load is   *)
(* the same, but for the page that was asked for.                          *)
LEMMA ReloadingServed ==
  ASSUME TypeInv, NEW k \in DOMAIN requests, requests' = RemoveAt(requests, k),
         UNCHANGED pageState, NEW m \in Message,
         \/ net' = Append(net, m)
         \/ \E p \in Message : net' = Append(Append(net, p), m),
         NEW i \in Item, ~Reloading(requests', net', pageState'.page, i)
  PROVE  /\ Reloading(requests, net, pageState.page, i) => Loads(requests[k], i)
         /\ ~Refused(m, i, pageState.page)
<1>1. /\ requests \in Seq(Asked) /\ net \in Seq(Message)
      /\ DOMAIN requests = 1 .. Len(requests)
  BY LenProperties DEF TypeInv, Travels
<1>2. \A y \in DOMAIN requests : y # k =>
        \E x \in DOMAIN requests' : requests'[x] = requests[y]
  BY <1>1, RemoveAtKeeps
<1>3. /\ \A j \in DOMAIN net : j \in DOMAIN net' /\ net'[j] = net[j]
      /\ \E j \in DOMAIN net' : net'[j] = m
  <2>1. ASSUME NEW s \in Seq(Message), NEW e \in Message
        PROVE  /\ Append(s, e) \in Seq(Message)
               /\ \A j \in DOMAIN s : j \in DOMAIN Append(s, e) /\ Append(s, e)[j] = s[j]
               /\ \E j \in DOMAIN Append(s, e) : Append(s, e)[j] = e
    <3>1. /\ Append(s, e) \in Seq(Message) /\ Len(s) \in Nat /\ DOMAIN s = 1 .. Len(s)
          /\ DOMAIN Append(s, e) = 1 .. Len(s) + 1 /\ Append(s, e)[Len(s) + 1] = e
          /\ \A j \in 1 .. Len(s) : Append(s, e)[j] = s[j]
      BY AppendIs
    <3>2. Len(s) + 1 \in 1 .. Len(s) + 1 /\ \A j \in 1 .. Len(s) : j \in 1 .. Len(s) + 1
      BY <3>1
    <3> QED
      BY <3>1, <3>2
  <2>2. CASE net' = Append(net, m)
    BY <1>1, <2>1, <2>2
  <2>3. ASSUME NEW p \in Message, net' = Append(Append(net, p), m)
        PROVE  /\ \A j \in DOMAIN net : j \in DOMAIN net' /\ net'[j] = net[j]
               /\ \E j \in DOMAIN net' : net'[j] = m
    <3>1. PICK t \in Seq(Message) :
            /\ t = Append(net, p)
            /\ \A j \in DOMAIN net : j \in DOMAIN t /\ t[j] = net[j]
      BY <1>1, <2>1
    <3>2. net' = Append(t, m)
      BY <2>3, <3>1
    <3>3. /\ \A j \in DOMAIN t : j \in DOMAIN net' /\ net'[j] = t[j]
          /\ \E j \in DOMAIN net' : net'[j] = m
      BY <2>1, <3>2
    <3> QED
      BY <3>1, <3>3
  <2> QED
    BY <2>2, <2>3
<1>4. \A j \in DOMAIN net' : ~Refused(net'[j], i, pageState.page)
  BY DEF Reloading
<1>5. \A x \in DOMAIN requests' : ~Loads(requests'[x], i)
  BY DEF Reloading
<1>6. ASSUME Reloading(requests, net, pageState.page, i)
      PROVE  Loads(requests[k], i)
  BY <1>2, <1>3, <1>4, <1>5, <1>6 DEF Reloading
<1> QED
  BY <1>3, <1>4, <1>6

(* The cart, after an answer.                                              *)
LEMMA AnswersCart ==
  ASSUME TypeInv, SyncInv, Noted, NEW k \in DOMAIN requests,
         requests' = RemoveAt(requests, k), UNCHANGED screen, Book',
         Served(requests[k])
  PROVE  CartSync(requests', net', session', cart', held'[session'], unsure')
<1>1. /\ requests \in Seq(Asked) /\ net \in Seq(Message)
      /\ CartSync(requests, net, session, cart, held[session], unsure)
      /\ session \in User \cup {None} /\ UNCHANGED <<session, cart>>
  BY DEF TypeInv, Travels, Screen, SyncInv, screen
<1>2. requests[k] \in Asked /\ requests[k].kind \in Kind /\ OfSession(requests[k], session)
  BY AskedIs
<1>3. EMPTY_CART \in [Item -> Nat] /\ free' \in [Item -> Nat]
  BY DEF EMPTY_CART, Book
<1>4. PICK m \in Message :
        /\ \E C : Outcome(requests[k], m, C)
        /\ \/ New = {m} /\ net' = Append(net, m)
           \/ \E p \in Message : /\ New = {p, m} /\ p.kind = "push"
                                 /\ net' = Append(Append(net, p), m)
  BY ServedIs DEF Tells
<1>5. PICK n \in Seq(Message) : /\ CartSync(requests, n, session, cart, held[session], unsure)
                                /\ net' = Append(n, m)
  <2>1. CASE net' = Append(net, m)
    BY <1>1, <2>1
  <2>2. ASSUME NEW p \in Message, p.kind = "push", net' = Append(Append(net, p), m)
        PROVE  \E n \in Seq(Message) :
                 /\ CartSync(requests, n, session, cart, held[session], unsure)
                 /\ net' = Append(n, m)
    <3>1. Append(net, p) \in Seq(Message)
      BY <1>1, AppendIs
    <3>2. CartSync(requests, Append(net, p), session, cart, held[session], unsure)
      BY <1>1, <2>2, PushSync
    <3> QED
      BY <2>2, <3>1, <3>2
  <2> QED
    BY <1>4, <2>1, <2>2
<1>6. /\ m.kind = requests[k].kind /\ m.user = requests[k].user /\ m.kind # "push"
      /\ OfSession(m, session)
  BY <1>2, <1>4 DEF Outcome, Kind, OfSession
<1>7. PICK p \in Message : p.kind = "push" /\ (New = {m} \/ New = {p, m})
  <2>1. \E p \in Message : p.kind = "push"
    <3>1. Push({}, EMPTY_CART) \in Message
      BY <1>3, PushIs
    <3>2. Push({}, EMPTY_CART).kind = "push"
      BY DEF Push, Reply, Ask
    <3> QED
      BY <3>1, <3>2
  <2> QED
    BY <1>4, <2>1
<1>8. session # None =>
        /\ ~(m.kind \in {"cart", "checkout"} /\ m.status = "ok")
             => (session \in unsure => session \in unsure')
        /\ m.status # "ok" /\ session \notin unsure' => held'[session] = held[session]
        /\ m.status # "ok" /\ m.kind = "cart" => session \in unsure'
  <2> SUFFICES ASSUME session # None
               PROVE  /\ ~(m.kind \in {"cart", "checkout"} /\ m.status = "ok")
                           => (session \in unsure => session \in unsure')
                      /\ m.status # "ok" /\ session \notin unsure'
                           => held'[session] = held[session]
                      /\ m.status # "ok" /\ m.kind = "cart" => session \in unsure'
    OBVIOUS
  <2>1. session \in User /\ (m.kind = "cart" => m.user = session)
    BY <1>1, <1>6 DEF OfSession
  <2> QED
    BY <1>6, <1>7, <2>1, CartNoted
<1>9. CASE session = None
  <2>1. m.kind = "login"
    BY <1>6, <1>9 DEF OfSession
  <2>2. Special(m.kind) /\ m.kind # "checkout"
    BY <2>1 DEF Special
  <2>3. CartSync(requests, n, session, cart, held[session], {})
    BY <1>5, <1>9 DEF CartSync, Own, OfSession, Sound
  <2>4. CartSync(RemoveAt(requests, k), Append(n, m), session, cart, held'[session], unsure')
    BY <1>1, <1>6, <1>9, <2>2, <2>3, SpecialServed
  <2> QED
    BY <1>1, <1>5, <2>4
<1>10. CASE session # None /\ Special(m.kind)
  <2>1. m.kind = "checkout" /\ m.status = "ok" => held'[session] = EMPTY_CART
    BY <1>4, <1>6, <1>10 DEF Outcome, OfSession
  <2>2. CartSync(RemoveAt(requests, k), Append(n, m), session, cart, held'[session], unsure')
    BY <1>1, <1>5, <1>6, <1>8, <1>10, <2>1, SpecialServed
  <2> QED
    BY <1>1, <1>5, <2>2
<1>11. CASE session # None /\ ~Special(m.kind)
  <2>1. held' = held
    BY <1>4, <1>11 DEF Outcome
  <2>2. m.kind = "cart" /\ m.status = "ok" => m.cart = held[session]
    BY <1>4, <1>6, <1>11 DEF Outcome, OfSession
  <2>3. m.kind # "checkout"
    BY <1>11 DEF Special
  <2>4. IF m.kind = "cart" /\ m.status = "ok" THEN m.cart = held[session]
        ELSE session \in unsure => session \in unsure'
    BY <1>8, <1>11, <2>2, <2>3
  <2>5. m.kind = "cart" /\ m.status # "ok" => session \in unsure'
    BY <1>8, <1>11
  <2>6. CartSync(RemoveAt(requests, k), Append(n, m), session, cart, held[session], unsure')
    BY <1>1, <1>5, <1>6, <1>11, <2>4, <2>5, LoadServed
  <2> QED
    BY <1>1, <1>5, <2>1, <2>6
<1> QED
  BY <1>9, <1>10, <1>11

(* The counts, after an answer.                                            *)
LEMMA AnswersLive ==
  ASSUME TypeInv, SyncInv, Noted, NEW k \in DOMAIN requests,
         requests' = RemoveAt(requests, k), UNCHANGED screen, Book',
         Served(requests[k])
  PROVE  Live(net', free', items', Unsettled')
<1>1. /\ requests \in Seq(Asked) /\ net \in Seq(Message)
      /\ Live(net, free, items, Unsettled) /\ UNCHANGED <<items, pageState>>
  BY DEF TypeInv, Travels, SyncInv, screen
<1>2. requests[k] \in Asked /\ requests[k].kind \in Kind
  BY AskedIs
<1>a. PICK c : c = requests[k]
  OBVIOUS
<1>3. ASSUME NEW i \in Item, i \notin Unsettled'
      PROVE  i \notin unheard' /\ ~Reloading(requests', net', pageState'.page, i)
  BY <1>3 DEF Unsettled
<1>4. ASSUME NEW m \in Message, NEW p \in Message, p.kind = "push", NEW C,
             Outcome(c, m, C), C \subseteq DOMAIN p.counts,
             \/ New = {m} /\ C = {} /\ net' = Append(net, m)
             \/ New = {p, m} /\ C = DOMAIN p.counts /\ net' = Append(Append(net, p), m),
             NEW i \in Item, i \notin Unsettled', i \notin DOMAIN m.counts, i \notin C
      PROVE  free'[i] = free[i] /\ i \notin Unsettled
  <2>1. m.kind = c.kind /\ m.kind # "push" /\ m.page = c.page
    BY <1>2, <1>a, <1>4 DEF Outcome, Kind
  <2>2. /\ i \notin unheard
        /\ m.status # "ok" => free'[i] = free[i] \/ Refused(m, i, pageState.page)
        /\ ~(m.kind = "items" /\ m.status # "ok" /\ PageOf[i] = m.page)
    BY <1>3, <1>4, <2>1, CountsNoted
  <2>3. /\ Reloading(requests, net, pageState.page, i) => Loads(c, i)
        /\ ~Refused(m, i, pageState.page)
    BY <1>1, <1>3, <1>4, <1>a, ReloadingServed
  <2>4. free'[i] = free[i]
    BY <1>4, <2>2, <2>3 DEF Outcome
  <2>5. ~Loads(c, i)
    <3>1. m.kind = "items" /\ m.status = "ok" => i \notin OnPage(m.page)
      BY <1>4 DEF Outcome
    <3> QED
      BY <2>1, <2>2, <3>1 DEF Loads, OnPage
  <2> QED
    BY <2>2, <2>3, <2>4, <2>5 DEF Unsettled
<1>5. ASSUME NEW m \in Message, New = {m}, net' = Append(net, m), Outcome(c, m, {})
      PROVE  Live(net', free', items', Unsettled')
  <2>1. PICK p \in Message : p.kind = "push"
    <3>1. EMPTY_CART \in [Item -> Nat]
      BY DEF EMPTY_CART
    <3>2. Push({}, EMPTY_CART) \in Message
      BY <3>1, PushIs
    <3>3. Push({}, EMPTY_CART).kind = "push"
      BY DEF Push, Reply, Ask
    <3> QED
      BY <3>2, <3>3
  <2>2. \A i \in Item \ Unsettled' : IF i \in DOMAIN m.counts THEN m.counts[i] = free'[i]
                                     ELSE free'[i] = free[i] /\ i \notin Unsettled
    BY <1>4, <1>5, <2>1 DEF Outcome
  <2>3. Live(Append(net, m), free', items, Unsettled')
    BY <1>1, <2>2, LiveSends
  <2> QED
    BY <1>1, <1>5, <2>3
<1>6. ASSUME NEW m \in Message, NEW p \in Message, New = {p, m}, Tells(p),
             net' = Append(Append(net, p), m), Outcome(c, m, DOMAIN p.counts)
      PROVE  Live(net', free', items', Unsettled')
  <2> DEFINE V == Unsettled' \cup DOMAIN m.counts
  <2>1. \A i \in Item \ V : IF i \in DOMAIN p.counts THEN p.counts[i] = free'[i]
                            ELSE free'[i] = free[i] /\ i \notin Unsettled
    BY <1>4, <1>6 DEF Tells
  <2>2. \A i \in Item \ Unsettled' : IF i \in DOMAIN m.counts THEN m.counts[i] = free'[i]
                                     ELSE free'[i] = free'[i] /\ i \notin V
    BY <1>6 DEF Outcome
  <2> HIDE DEF V
  <2>3. Live(Append(net, p), free', items, V)
    BY <1>1, <2>1, LiveSends
  <2>4. Append(net, p) \in Seq(Message)
    BY <1>1, AppendIs
  <2>5. Live(Append(Append(net, p), m), free', items, Unsettled')
    BY <2>2, <2>3, <2>4, LiveSends
  <2> QED
    BY <1>1, <1>6, <2>5
<1> QED
  BY <1>5, <1>6, <1>a, ServedIs

(* The backend's steps keep the invariant.                                 *)
LEMMA AnsweringSync ==
  ASSUME TypeInv, SyncInv, Noted, Answering
  PROVE  SyncInv'
<1>1. PICK k \in DOMAIN requests : Execute(k) \/ Fail(k)
  BY DEF Answering
<1>2. /\ requests' = RemoveAt(requests, k) /\ UNCHANGED screen
      /\ Book' /\ Served(requests[k])
  BY <1>1, Answers
<1>3. CartSync(requests', net', session', cart', held'[session'], unsure')
  BY <1>2, AnswersCart
<1>4. Live(net', free', items', Unsettled')
  BY <1>2, AnswersLive
<1> QED
  BY <1>3, <1>4 DEF SyncInv

(* So does what other tabs do and push: only the counts change, and the    *)
(* user's cart that he is not told of.                                     *)
LEMMA ElsewhereSync ==
  ASSUME TypeInv, SyncInv, Noted, NEW u \in User, Elsewhere(u)
  PROVE  SyncInv'
<1>1. /\ requests \in Seq(Asked) /\ net \in Seq(Message) /\ session \in User \cup {None}
      /\ UNCHANGED <<requests, session, cart, items, pageState>>
      /\ CartSync(requests, net, session, cart, held[session], unsure)
      /\ Live(net, free, items, Unsettled)
  BY ElsewherePushes DEF TypeInv, Travels, Screen, SyncInv, screen
<1>2. PICK p \in Message : /\ Tells(p) /\ net' = Append(net, p)
                           /\ \A i \in Item \ DOMAIN p.counts : free'[i] = free[i]
  BY ElsewherePushes
<1>3. New = {p} /\ p.kind = "push"
  BY <1>2, NewIs DEF Tells
<1>4. CartsSent = {} /\ ~Succeeds /\ CountsSent \subseteq DOMAIN p.counts
  BY <1>3 DEF CartsSent, Succeeds, CountsSent
<1>5. session \in User /\ session \notin unsure' =>
        session \notin unsure /\ held'[session] = held[session]
  BY <1>4 DEF Noted, CartsMissed
<1>6. CartSync(requests', net', session', cart', held'[session'], unsure')
  <2>1. CartSync(requests, Append(net, p), session, cart, held[session], unsure)
    BY <1>1, <1>3, PushSync
  <2>2. session \in unsure => session \in unsure'
    BY <1>4 DEF Noted
  <2>3. CartSync(requests, Append(net, p), session, cart, held'[session], unsure')
    BY <1>1, <1>5, <2>1, <2>2, KnownLess
  <2> QED
    BY <1>1, <1>2, <2>3
<1>7. ASSUME NEW i \in Item, i \notin Unsettled', i \notin DOMAIN p.counts
      PROVE  i \notin Unsettled
  <2>1. i \notin unheard
    BY <1>4, <1>7 DEF Unsettled, Noted
  <2>2. ~Reloading(requests', net', pageState'.page, i)
    BY <1>7 DEF Unsettled
  <2>3. \A j \in DOMAIN net : j \in DOMAIN net' /\ net'[j] = net[j]
    <3>1. /\ Len(net) \in Nat /\ DOMAIN net = 1 .. Len(net)
          /\ DOMAIN net' = 1 .. Len(net) + 1
          /\ \A j \in 1 .. Len(net) : net'[j] = net[j]
      BY <1>1, <1>2, AppendIs
    <3>2. \A j \in 1 .. Len(net) : j \in 1 .. Len(net) + 1
      BY <3>1
    <3> QED
      BY <3>1, <3>2
  <2>4. ~Reloading(requests, net, pageState.page, i)
    BY <1>1, <2>2, <2>3 DEF Reloading
  <2> QED
    BY <2>1, <2>4 DEF Unsettled
<1>8. Live(net', free', items', Unsettled')
  <2>1. \A i \in Item \ Unsettled' : IF i \in DOMAIN p.counts THEN p.counts[i] = free'[i]
                                     ELSE free'[i] = free[i] /\ i \notin Unsettled
    BY <1>2, <1>7 DEF Tells
  <2>2. Live(Append(net, p), free', items, Unsettled')
    BY <1>1, <2>1, LiveSends
  <2> QED
    BY <1>1, <1>2, <2>2
<1> QED
  BY <1>6, <1>8 DEF SyncInv

(* So does what they do and do not push: it is noted.                      *)
LEMMA ElsewhereFailsSync ==
  ASSUME TypeInv, SyncInv, Noted, NEW u \in User, NEW i \in Item, ElsewhereFails(u, i)
  PROVE  SyncInv'
<1>1. /\ session \in User \cup {None}
      /\ UNCHANGED <<requests, net, session, cart, items, pageState>>
  BY ElsewhereSilent DEF TypeInv, Screen, screen
<1>2. New = {}
  BY <1>1, NewIs
<1>3. /\ \A l \in Item : l \notin unheard' => l \notin unheard /\ free'[l] = free[l]
      /\ \A v \in User : v \notin unsure' => v \notin unsure /\ held'[v] = held[v]
      /\ \A v : v \in unsure => v \in unsure'
  BY <1>2, NothingSent
<1>4. CartSync(requests, net, session, cart, held'[session], unsure')
  BY <1>1, <1>3, KnownLess DEF SyncInv
<1>5. \A l \in Item \ Unsettled' : free'[l] = free[l] /\ l \notin Unsettled
  BY <1>1, <1>3 DEF Unsettled
<1>6. Live(net, free', items, Unsettled')
  BY <1>5, LiveLess DEF SyncInv
<1> QED
  BY <1>1, <1>4, <1>6 DEF SyncInv

-----------------------------------------------------------------------------
(* The user acts when nothing but pushes is under way. *)

(* Then the cart shown is the one held, if that can be known.              *)
LEMMA IdleCart ==
  ASSUME SyncInv, requests = << >>, Pushes(net), session # None, session \notin unsure
  PROVE  cart = held[session]
BY DEF SyncInv, CartSync, Coming, Pushes, Special

(* Nothing is settled by asking.                                           *)
LEMMA AskingSettles ==
  ASSUME TypeInv, Noted, requests = << >>, Pushes(net), UNCHANGED <<free, net>>
  PROVE  Live(net, free, items, Unsettled) => Live(net', free', items, Unsettled')
<1>1. New = {}
  BY NewIs
<1>2. \A i \in Item \ Unsettled' : i \notin unheard
  BY <1>1, NothingSent DEF Unsettled
<1>3. \A i : ~Reloading(requests, net, pageState.page, i)
  BY DEF Reloading, Refused, Pushes
<1>4. \A i \in Item \ Unsettled' : free'[i] = free[i] /\ i \notin Unsettled
  BY <1>2, <1>3 DEF Unsettled
<1> QED
  BY <1>4, LiveLess

(* What the tab can know of carts does not change when nothing moves.      *)
LEMMA AskingKnows ==
  ASSUME TypeInv, Noted, UNCHANGED net
  PROVE  \A u : u \in unsure => u \in unsure'
<1>1. New = {}
  BY NewIs
<1> QED
  BY <1>1, NothingSent

(* The user's one request.                                                 *)
LEMMA SendSync ==
  ASSUME TypeInv, SyncInv, Noted, requests = << >>, Pushes(net), NEW c, Send(c),
         OfSession(c, session), UNCHANGED <<free, held, net, session, items, cart>>
  PROVE  SyncInv'
<1>1. requests' = <<c>>
  BY DEF Send
<1>2. session # None => session \in unsure' \/ cart = held[session]
  BY IdleCart, AskingKnows
<1>3. CartSync(<<c>>, net, session, cart, held[session], unsure')
  BY <1>2, AskedOne
<1>4. Live(net', free', items, Unsettled')
  BY AskingSettles DEF SyncInv
<1> QED
  BY <1>1, <1>3, <1>4 DEF SyncInv

(* What the user does, keeps the invariant.                                *)
LEMMA ActSync ==
  ASSUME TypeInv, SyncInv, Noted, Patient, Act
  PROVE  SyncInv'
<1>1. ASSUME Underway = 0
      PROVE  requests = << >> /\ Pushes(net)
  BY <1>1, Quiet DEF Pushes
<1>2. requests = << >> /\ Pushes(net)
  BY <1>1 DEF Act, Login, logout, checkout, backToStore, ReloadPage, goToPage, Grab,
     increase, decrease, remove, Line, MayAct
<1>3. ASSUME NEW u \in User, Login(u)
      PROVE  SyncInv'
  BY <1>2, <1>3, SendSync DEF Login, Ask, OfSession, ledgerVars, screen
<1>4. CASE logout
  <2>1. CartSync(requests, net, None, EMPTY_CART, held'[None], unsure')
    <3>1. \A k \in DOMAIN requests : FALSE
      BY <1>2
    <3> QED
      BY <1>2, <3>1, AskedNext
  <2>2. UNCHANGED <<free, net, items, requests>> /\ session' = None /\ cart' = EMPTY_CART
    BY <1>4 DEF logout, ledgerVars
  <2>3. Live(net', free', items', Unsettled')
    BY <1>2, <2>2, AskingSettles DEF SyncInv
  <2> QED
    BY <2>1, <2>2, <2>3 DEF SyncInv
<1>5. CASE ReloadPage
  <2>1. /\ session # None /\ UNCHANGED <<session, held>> /\ net' = << >> /\ items' = << >>
        /\ requests' = <<Ask("items", session, None, 1), Ask("cart", session, None, 0)>>
        /\ cart' = EMPTY_CART
    BY <1>5 DEF ReloadPage, ledgerVars
  <2>2. CartSync(requests', << >>, session, EMPTY_CART, held[session], unsure')
    BY <2>1, AskedAll DEF Pushes
  <2>3. Live(<< >>, free', << >>, Unsettled')
    BY DEF Live
  <2> QED
    BY <2>1, <2>2, <2>3 DEF SyncInv
<1>6. CASE checkout \/ backToStore
  BY <1>2, <1>6, SendSync
     DEF checkout, backToStore, LoadItems, InStore, Ask, OfSession, ledgerVars, screen
<1>7. ASSUME NEW p, goToPage(p)
      PROVE  SyncInv'
  BY <1>2, <1>7, SendSync
     DEF goToPage, LoadItems, InStore, Ask, OfSession, ledgerVars, screen
<1>8. ASSUME NEW i, Grab(i) \/ increase(i) \/ decrease(i) \/ remove(i)
      PROVE  SyncInv'
  <2>1. ASSUME NEW kind, kind # "login", session # None,
               Send(Ask(kind, session, i, 0)), UNCHANGED <<ledgerVars, net, screen>>
        PROVE  SyncInv'
    BY <1>2, <2>1, SendSync DEF Ask, OfSession, ledgerVars, screen
  <2> QED
    BY <1>8, <2>1 DEF Grab, increase, decrease, remove, Line, InStore
<1> QED
  BY <1>3, <1>4, <1>5, <1>6, <1>7, <1>8 DEF Act

-----------------------------------------------------------------------------
(* What arrives.                                                           *)

(* What was to be loaded still is: the request that the tab sends takes    *)
(* the place of the failure it has seen.                                   *)
LEMMA ArrivesSettles ==
  ASSUME TypeInv, SyncInv, Noted, 1 \in DOMAIN net, net' = RemoveAt(net, 1),
         Handle(net[1]), UNCHANGED ledgerVars, NEW i \in Item, i \notin Unsettled'
  PROVE  i \notin Unsettled
<1>1. /\ requests \in Seq(Asked) /\ net \in Seq(Message)
      /\ Alone(requests, net) /\ free' = free
      /\ DOMAIN net = 1 .. Len(net) /\ 1 \in 1 .. Len(net)
  BY LenProperties DEF TypeInv, Travels, SyncInv, CartSync, ledgerVars
<1>2. New = {}
  BY NewIs
<1>3. i \notin unheard
  BY <1>2, NothingSent DEF Unsettled
<1>4. ~Reloading(requests', net', pageState'.page, i)
  BY DEF Unsettled
<1>5. \A y \in DOMAIN net : y # 1 => \E x \in DOMAIN net' : net'[x] = net[y]
  BY <1>1, RemoveAtKeeps
<1>6. ASSUME NEW k \in DOMAIN requests
      PROVE  ~Loads(requests[k], i)
  <2>1. \A a : /\ k \in DOMAIN Append(requests, a)
               /\ Append(requests, a)[k] = requests[k]
    BY <1>1, AppendProperties, LenProperties
  <2>2. k \in DOMAIN requests' /\ requests'[k] = requests[k]
    <3>1. ASSUME NEW s, SendAll(s), s = <<RefreshCart>> \/ s = <<Reload>>
          PROVE  k \in DOMAIN requests' /\ requests'[k] = requests[k]
      BY <1>1, <3>1 DEF SendAll
    <3>2. ASSUME NEW a, NEW b, SendAll(<<a, b>>)
          PROVE  k \in DOMAIN requests' /\ requests'[k] = requests[k]
      BY <1>1, <3>2 DEF SendAll
    <3> QED
      BY <3>1, <3>2 DEF Handle, OnStockUpdate, OnLogin, OnItems, OnCart, OnAdded,
         OnRemoved, OnUpdated, OnOrder, Failed, screen
  <2> QED
    BY <1>4, <2>2 DEF Reloading
<1>7. ASSUME NEW j \in DOMAIN net, Refused(net[j], i, pageState.page)
      PROVE  FALSE
  <2>1. Special(net[j].kind) /\ net[j].kind \in {"add", "plus", "minus"}
        /\ net[j].status # "ok" /\ PageOf[i] = pageState.page
    BY <1>7 DEF Refused, Special
  <2>2. requests = << >> /\ \A l \in DOMAIN net : l # j => net[l].kind = "push"
    BY <1>1, <2>1 DEF Alone
  <2>3. CASE j = 1
    <3>1. requests' = <<Reload>> /\ UNCHANGED pageState
      BY <2>1, <2>2, <2>3 DEF Handle, OnStockUpdate, OnLogin, OnItems, OnCart, OnAdded,
         OnRemoved, OnUpdated, OnOrder, Failed, SendAll, screen
    <3>2. 1 \in DOMAIN requests' /\ requests'[1] = Reload
      BY <3>1
    <3>3. Loads(Reload, i)
      BY <2>1 DEF Loads, Reload, LoadItems, Ask
    <3> QED
      BY <1>4, <3>2, <3>3 DEF Reloading
  <2>4. CASE j # 1
    <3>1. net[1].kind = "push"
      BY <2>2, <2>4
    <3>2. UNCHANGED pageState
      BY <3>1 DEF Handle, OnStockUpdate, OnLogin, OnItems, OnCart, OnAdded, OnRemoved,
         OnUpdated, OnOrder, Failed
    <3> QED
      BY <1>4, <1>5, <1>7, <2>4, <3>2 DEF Reloading
  <2> QED
    BY <2>3, <2>4
<1> QED
  BY <1>3, <1>6, <1>7 DEF Unsettled, Reloading

(* The counts that are shown after a message.                              *)
LEMMA ArrivesLive ==
  ASSUME TypeInv, SyncInv, Noted, 1 \in DOMAIN net, net' = RemoveAt(net, 1),
         Handle(net[1]), UNCHANGED ledgerVars
  PROVE  Live(net', free', items', Unsettled')
<1>1. /\ net \in Seq(Message) /\ net[1] \in Message
      /\ Live(net, free, items, Unsettled) /\ free' = free
  BY TakenType DEF TypeInv, Travels, SyncInv, ledgerVars
<1>2. DOMAIN net[1].counts # {} =>
        net[1].kind = "push" \/ (net[1].kind = "items" /\ net[1].status = "ok")
  BY <1>1, MessageIs
<1>3. \A i \in DOMAIN items' : IF i \in DOMAIN net[1].counts
                               THEN items'[i] = net[1].counts[i]
                               ELSE i \in DOMAIN items /\ items'[i] = items[i]
  <2> SUFFICES ASSUME NEW m, Handle(m),
                      DOMAIN m.counts # {} =>
                        m.kind = "push" \/ (m.kind = "items" /\ m.status = "ok")
               PROVE  \A i \in DOMAIN items' : IF i \in DOMAIN m.counts
                                               THEN items'[i] = m.counts[i]
                                               ELSE i \in DOMAIN items /\ items'[i] = items[i]
    BY <1>2
  <2>1. CASE OnStockUpdate(m)
    BY <2>1 DEF OnStockUpdate
  <2>2. CASE OnItems(m)
    BY <2>2 DEF OnItems
  <2>3. ASSUME ~(OnStockUpdate(m) \/ OnItems(m))
        PROVE  /\ items' = items /\ m.kind # "push"
               /\ ~(m.kind = "items" /\ m.status = "ok")
    BY <2>3 DEF Handle, OnLogin, OnCart, OnAdded, OnRemoved, OnUpdated, OnOrder, Failed,
       screen, ClearLineError, SetLineError
  <2> QED
    BY <2>1, <2>2, <2>3
<1>4. \A i \in Item \ Unsettled' : i \notin Unsettled
  BY ArrivesSettles
<1> QED
  BY <1>1, <1>3, <1>4, LiveTakes

(* The cart that is shown after a message.                                 *)
LEMMA ArrivesCart ==
  ASSUME TypeInv, SyncInv, Noted, 1 \in DOMAIN net, net' = RemoveAt(net, 1),
         Handle(net[1]), UNCHANGED ledgerVars
  PROVE  CartSync(requests', net', session', cart', held'[session'], unsure')
<1>1. /\ requests \in Seq(Asked) /\ net \in Seq(Message) /\ net[1] \in Message
      /\ CartSync(requests, net, session, cart, held[session], unsure) /\ held' = held
  BY TakenType DEF TypeInv, Travels, SyncInv, ledgerVars
<1>2. New = {}
  BY NewIs
<1>3. \A u : u \in unsure => u \in unsure'
  BY <1>2, NothingSent
<1>a. SUFFICES ASSUME NEW m \in Message, m = net[1], Handle(m), NEW n, n = RemoveAt(net, 1)
               PROVE  CartSync(requests', n, session', cart', held[session'], unsure')
  BY <1>1
<1>4. CASE ~Special(m.kind)
  <2>1. /\ UNCHANGED <<requests, session>>
        /\ cart' = IF m.kind = "cart" /\ m.status = "ok" THEN m.cart ELSE cart
    BY <1>4, <1>a DEF Special, Handle, OnStockUpdate, OnLogin, OnItems, OnCart,
       OnAdded, OnRemoved, OnUpdated, OnOrder, Failed, screen
  <2>2. CartSync(requests, n, session, cart', held[session], unsure)
    BY <1>1, <1>4, <1>a, <2>1, TakenLoad
  <2>3. CartSync(requests, n, session, cart', held[session], unsure')
    BY <1>3, <2>2, KnownLess
  <2> QED
    BY <2>1, <2>3
<1>5. CASE Special(m.kind)
  <2>1. /\ requests = << >> /\ Pushes(n) /\ OfSession(m, session)
        /\ session # None /\ m.status # "ok" => session \in unsure' \/ cart = held[session]
        /\ m.kind = "checkout" /\ m.status = "ok"
             => session \in unsure' \/ held[session] = EMPTY_CART
    <3>1. Special(net[1].kind)
      BY <1>5, <1>a
    <3>2. /\ requests = << >> /\ Pushes(RemoveAt(net, 1)) /\ OfSession(net[1], session)
          /\ session # None /\ net[1].status # "ok"
               => session \in unsure \/ cart = held[session]
          /\ net[1].kind = "checkout" /\ net[1].status = "ok"
               => session \in unsure \/ held[session] = EMPTY_CART
      BY <1>1, <3>1, TakenSpecial
    <3> QED
      BY <1>3, <1>a, <3>2
  <2>2. ASSUME NEW a, a.kind = "cart" \/ (a.kind = "items" /\ m.status # "ok"),
               OfSession(a, session), requests' = <<a>>, UNCHANGED <<session, cart>>
        PROVE  CartSync(requests', n, session', cart', held[session'], unsure')
    BY <2>1, <2>2, AskedOne
  <2>3. /\ RefreshCart.kind = "cart" /\ Reload.kind = "items"
        /\ session # None => OfSession(RefreshCart, session) /\ OfSession(Reload, session)
    BY DEF RefreshCart, Reload, LoadItems, Ask, OfSession
  <2>4. m.kind # "login" => session # None
    BY <2>1 DEF OfSession
  <2>5. CASE OnAdded(m) \/ OnRemoved(m) \/ OnUpdated(m)
    <3>1. /\ m.kind # "login" /\ UNCHANGED <<session, cart>>
          /\ \/ requests' = <<RefreshCart>>
             \/ requests' = <<Reload>> /\ m.status # "ok"
      BY <2>1, <2>5 DEF OnAdded, OnRemoved, OnUpdated, SendAll, screen
    <3> QED
      BY <2>2, <2>3, <2>4, <3>1
  <2>6. CASE OnLogin(m)
    <3>1. m.user # None
      BY <2>6, Constants DEF OnLogin, Message, Asking
    <3>2. /\ session' = m.user /\ cart' = cart
          /\ requests' = <<Ask("items", m.user, None, pageState.page),
                           Ask("cart", m.user, None, 0)>>
      BY <2>1, <2>6 DEF OnLogin, SendAll
    <3> QED
      BY <2>1, <3>1, <3>2, AskedAll
  <2>7. ASSUME requests' = << >>, UNCHANGED session,
               session # None => session \in unsure' \/ cart' = held[session]
        PROVE  CartSync(requests', n, session', cart', held[session'], unsure')
    <3>1. \A k \in DOMAIN requests' : FALSE
      BY <2>7
    <3> QED
      BY <2>1, <2>7, <3>1, AskedNext
  <2>8. CASE OnOrder(m)
    BY <2>1, <2>7, <2>8 DEF OnOrder
  <2>9. CASE Failed(m)
    BY <2>1, <2>7, <2>9 DEF Failed, screen
  <2> QED
    BY <1>5, <1>a, <2>5, <2>6, <2>8, <2>9 DEF Handle, Special, OnStockUpdate, OnItems, OnCart
<1> QED
  BY <1>4, <1>5

(* What the tab does with a message keeps the invariant.                   *)
LEMMA DeliverSync ==
  ASSUME TypeInv, SyncInv, Noted, Reliable, NEW j \in DOMAIN net, Deliver(j)
  PROVE  SyncInv'
<1>1. 1 \in DOMAIN net /\ net' = RemoveAt(net, 1) /\ Handle(net[1]) /\ UNCHANGED ledgerVars
  BY DEF Deliver, Arrives
<1> QED
  BY <1>1, ArrivesLive, ArrivesCart DEF SyncInv

(* It holds initially.                                                     *)
LEMMA SyncInit == ScreenInit => SyncInv
<1> SUFFICES ASSUME ScreenInit PROVE SyncInv
  OBVIOUS
<1>1. Init /\ net = << >> /\ items = << >> /\ cart = EMPTY_CART
  BY DEF ScreenInit, Init
<1>2. Live(net, free, items, Unsettled)
  BY <1>1 DEF Live
<1>3. CASE session = None
  <2>1. requests = << >>
    BY <1>1, <1>3 DEF Init
  <2>2. CartSync(<< >>, << >>, None, EMPTY_CART, held[None], unsure)
    BY AskedNext DEF Pushes
  <2> QED
    BY <1>1, <1>2, <1>3, <2>1, <2>2 DEF SyncInv
<1>4. CASE session # None
  <2>1. requests = <<Ask("items", session, None, 1), Ask("cart", session, None, 0)>>
    BY <1>1, <1>4 DEF Init
  <2>2. CartSync(requests, net, session, cart, held[session], unsure)
    BY <1>1, <1>4, <2>1, AskedAll DEF Pushes
  <2> QED
    BY <1>2, <2>2 DEF SyncInv
<1> QED
  BY <1>3, <1>4

(* When the user waits for answers, and all that is sent to the tab        *)
(* arrives in order: whichever operations he uses, whichever of his        *)
(* requests fail, before their effects or half-way, and whatever other     *)
(* tabs and other users do meanwhile, whether it succeeds and is pushed or *)
(* fails and is not.  When nothing is under way, the tab shows his cart    *)
(* as the backend has it, and the live count of every item on the page,    *)
(* but for what failures and other tabs have changed without telling it.   *)
THEOREM ScreenStaysInSync ==
  ASSUME Patient, Reliable
  PROVE  ScreenSpec => []ScreenInSync
<1>1. ScreenInit => TypeInv /\ SyncInv
  BY TypeInit, SyncInit DEF ScreenInit
<1>2. TypeInv /\ SyncInv /\ [ScreenNext]_allVars => TypeInv' /\ SyncInv'
  <2> SUFFICES ASSUME TypeInv, SyncInv, [ScreenNext]_allVars
               PROVE  TypeInv' /\ SyncInv'
    OBVIOUS
  <2>0. ScreenNext => Next /\ Noted
    BY DEF ScreenNext, TabNoted, ElsewhereNoted, FailureNoted, Next, Others
  <2>1. [Next]_vars
    BY <2>0 DEF allVars
  <2>2. TypeInv'
    BY <2>1, TypeNext
  <2>3. CASE UNCHANGED allVars
    BY <2>2, <2>3 DEF allVars, vars, ledgerVars, screen, SyncInv, Unsettled
  <2>4. ASSUME ScreenNext
        PROVE  SyncInv'
    <3>1. Next /\ Noted
      BY <2>0, <2>4
    <3>2. CASE Disconnect
      BY <3>2 DEF Disconnect
    <3>3. ASSUME NEW i \in Item, Dismiss(i)
          PROVE  SyncInv'
      <4>1. UNCHANGED <<ledgerVars, requests, net, session, items, pageState, cart>>
        BY <3>3 DEF Dismiss
      <4>2. UNCHANGED <<free, held>> /\ New = {}
        BY <4>1, NewIs DEF ledgerVars
      <4>3. /\ \A l \in Item : l \notin unheard' => l \notin unheard
            /\ \A u : u \in unsure => u \in unsure'
        BY <3>1, <4>2, NothingSent
      <4>4. CartSync(requests, net, session, cart, held[session], unsure')
        BY <4>3, KnownLess DEF SyncInv
      <4>5. \A l \in Item \ Unsettled' : free[l] = free[l] /\ l \notin Unsettled
        BY <4>1, <4>3 DEF Unsettled
      <4>6. Live(net, free, items, Unsettled')
        BY <4>5, LiveLess DEF SyncInv
      <4> QED
        BY <4>1, <4>2, <4>4, <4>6 DEF SyncInv
    <3>4. CASE Answering
      BY <3>1, <3>4, AnsweringSync
    <3>5. CASE Arriving
      BY <3>1, <3>5, DeliverSync DEF Arriving
    <3>6. ASSUME NEW u \in User, Elsewhere(u) \/ \E i \in Item : ElsewhereFails(u, i)
          PROVE  SyncInv'
      BY <3>1, <3>6, ElsewhereSync, ElsewhereFailsSync
    <3> QED
      BY <3>1, <3>2, <3>3, <3>4, <3>5, <3>6, ActSync DEF Next, Tab, Others
  <2> QED
    BY <2>2, <2>3, <2>4
<1>3. TypeInv /\ SyncInv => ScreenInSync
  <2> SUFFICES ASSUME TypeInv, SyncInv, requests = << >>, net = << >>, session # None
               PROVE  /\ session \notin unsure => cart = held[session]
                      /\ \A i \in DOMAIN items \ unheard : items[i] = free[i]
    BY DEF ScreenInSync
  <2>1. session \notin unsure => cart = held[session]
    BY IdleCart DEF Pushes
  <2>2. DOMAIN items \subseteq Item
    BY DEF TypeInv, Screen, IsCounts
  <2>3. \A i \in DOMAIN items \ unheard : i \in Item \ Unsettled
    BY <2>2 DEF Unsettled, Reloading
  <2> QED
    BY <2>1, <2>3 DEF SyncInv, Live
<1> QED
  BY <1>1, <1>2, <1>3, PTL DEF ScreenSpec

=============================================================================
