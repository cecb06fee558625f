------------------------------ MODULE Catalogue -----------------------------
(***************************************************************************)
(* The items collection: how it is filled (seedCatalogue.ts), emptied      *)
(* (scripts/seed.ts) and listed page by page (ListItems.ts,                *)
(* ItemRepository.ts).  An item is its id; insertMany generates new ids    *)
(* for DEMO_ITEMS every time, in order, and Mongo inserts the documents    *)
(* one by one.                                                             *)
(***************************************************************************)
EXTENDS Integers, Sequences, FiniteSets

CONSTANTS Batch,        \* Batch[n]: the ids the n-th insertMany generates
          DEFAULT_LIMIT, MAX_LIMIT,
          Absent        \* a query parameter that was not given

ASSUME CatalogueAssumption ==
  /\ DEFAULT_LIMIT \in 1 .. MAX_LIMIT
  /\ MAX_LIMIT \in Nat
  /\ Absent \notin Nat

VARIABLES items,        \* the collection, in the order of _id
          toInsert,     \* what the insertMany under way has still to insert
          batches       \* how often DEMO_ITEMS has been inserted

catalogueVars == <<items, toInsert, batches>>

Ids == {items[k] : k \in 1 .. Len(items)}

-----------------------------------------------------------------------------
(* Filling and emptying it.                                                *)

(* Mistakes: a reset that keeps the ids of the items, and a seed that does *)
(* not look whether there are any.                                         *)
SameIds(n) == Batch[1]

SeedItemsAlways(n) ==
  /\ toInsert = <<>>
  /\ toInsert' = n
  /\ batches' = batches + 1
  /\ UNCHANGED items

NewIds(n) == Batch[n]

(* seedItemsIfEmpty, up to the insertMany. *)
SeedItemsIfEmpty(new) ==
  /\ toInsert = <<>>
  /\ IF items = <<>>
     THEN toInsert' = new /\ batches' = batches + 1
     ELSE UNCHANGED <<toInsert, batches>>
  /\ UNCHANGED items

InsertItem ==
  /\ toInsert # <<>>
  /\ items' = Append(items, Head(toInsert))
  /\ toInsert' = Tail(toInsert)
  /\ UNCHANGED batches

DeleteItems ==
  /\ items' = <<>>
  /\ UNCHANGED <<toInsert, batches>>

-----------------------------------------------------------------------------
(* Listing it.  A parameter is Absent, a number, or 0 for whatever else is *)
(* not a positive integer.                                                 *)

Rejected(page, limit) == 0 \in {page, limit}

ParsePositiveInt(value, fallback) == IF value = Absent THEN fallback ELSE value

(* A mistake: the limit is not clamped for the division. *)
TotalPagesUnclamped(total, limit) ==
  LET asked == ParsePositiveInt(limit, DEFAULT_LIMIT)
  IN  IF total = 0 THEN 1 ELSE (total + asked - 1) \div asked

Limit(limit) == LET asked == ParsePositiveInt(limit, DEFAULT_LIMIT)
                IN  IF asked > MAX_LIMIT THEN MAX_LIMIT ELSE asked

(* max(1, ceil(total / limit)) *)
TotalPages(total, limit) ==
  IF total = 0 THEN 1 ELSE (total + Limit(limit) - 1) \div Limit(limit)

(* sort by _id, skip, limit *)
FindPage(page, limit) ==
  LET skip == (page - 1) * limit
      last == IF skip + limit < Len(items) THEN skip + limit ELSE Len(items)
  IN  SubSeq(items, skip + 1, last)

ListItems(page, limit) ==
  LET p == ParsePositiveInt(page, 1)
  IN  [items |-> FindPage(p, Limit(limit)), page |-> p, limit |-> Limit(limit),
       total |-> Len(items), totalPages |-> TotalPages(Len(items), limit)]

OnPage(i, listing) == \E k \in 1 .. Len(listing.items) : listing.items[k] = i

(* Whatever limit a client asks for, the pages that the first answer       *)
(* announces hold every item of the catalogue, each on exactly one page    *)
(* and none beyond the limit of that answer, and there is no page more     *)
(* than needed.  (The find and the count of a page are two commands: a     *)
(* collection that is filled or wiped between them is out of the claim.)   *)
PagesCoverCatalogue(Asked) ==
  \A limit \in Asked : ~Rejected(Absent, limit) =>
    LET first == ListItems(Absent, limit)
        pages == 1 .. first.totalPages
    IN  /\ \A i \in Ids :
             Cardinality({p \in pages : OnPage(i, ListItems(p, limit))}) = 1
        /\ \A p \in pages : Len(ListItems(p, limit).items) <= first.limit
        /\ items # <<>> => ListItems(first.totalPages, limit).items # <<>>
        /\ ListItems(first.totalPages + 1, limit).items = <<>>
=============================================================================
