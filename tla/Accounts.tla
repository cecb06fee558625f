------------------------------ MODULE Accounts ------------------------------
(***************************************************************************)
(* Logging in (LoginUser.ts, UserRepository.ts, User.entity.ts) and what a *)
(* later request makes of the token (authMiddleware.ts).  A login is two   *)
(* store commands, a find and an upsert, and two logins of one name may    *)
(* interleave between them.  There are no sessions: the token a login      *)
(* hands out is the id of the account.                                     *)
(***************************************************************************)

CONSTANTS User,         \* the ids Mongo may generate for an account
          Login,        \* the login calls
          Typed,        \* what people type as their name
          Name,         \* the names without the blanks around them
          Trim,         \* the name of what was typed, or None if it is blank
          None

VARIABLES users,        \* Mongo users: the name of the account of an id, or None
          login         \* every login call: its locals and its await

accountVars == <<users, login>>

NotCalled == [pc |-> "new", name |-> None, user |-> None]

Answered(name, u) == [pc |-> "done", name |-> name, user |-> u]

AccountsTypeOK ==
  /\ users \in [User -> Name \cup {None}]
  /\ login \in [Login -> [pc : {"new", "find", "save", "done"},
                          name : Name \cup {None}, user : User \cup {None}]]

AccountsInit ==
  /\ users = [u \in User |-> None]
  /\ login = [l \in Login |-> NotCalled]

Named(n) == {u \in User : users[u] = n}

-----------------------------------------------------------------------------
(* The calls.                                                              *)

(* The entity trims the name, and rejects one that is blank: 400. *)
PostLogin(l, typed) ==
  /\ login[l].pc = "new"
  /\ login' = [login EXCEPT ![l] =
       IF Trim[typed] = None THEN Answered(None, None)
       ELSE [pc |-> "find", name |-> Trim[typed], user |-> None]]
  /\ UNCHANGED users

FindByName(l) ==
  /\ login[l].pc = "find"
  /\ IF Named(login[l].name) = {}
     THEN login' = [login EXCEPT ![l].pc = "save"]
     ELSE \E u \in Named(login[l].name) :
            login' = [login EXCEPT ![l] = Answered(@.name, u)]
  /\ UNCHANGED users

(* A mistake: the account is created without looking again. *)
CreateUser(n, u) ==
  /\ users[u] = None
  /\ users' = [users EXCEPT ![u] = n]

(* findOneAndUpdate by name, with upsert, over the unique index on names:  *)
(* the account there is by now, or a new one.                              *)
UpsertUser(n, u) ==
  \/ /\ users[u] = n
     /\ UNCHANGED users
  \/ /\ Named(n) = {}
     /\ users[u] = None
     /\ users' = [users EXCEPT ![u] = n]

SaveUser(l) ==
  /\ login[l].pc = "save"
  /\ \E u \in User :
       /\ UpsertUser(login[l].name, u)
       /\ login' = [login EXCEPT ![l] = Answered(@.name, u)]

(* The upsert is performed, but its reply is lost: the login fails. *)
SaveUserReplyLost(l) ==
  /\ login[l].pc = "save"
  /\ \E u \in User : UpsertUser(login[l].name, u)
  /\ login' = [login EXCEPT ![l] = Answered(@.name, None)]

LoginFails(l) ==
  /\ login[l].pc \in {"find", "save"}
  /\ login' = [login EXCEPT ![l] = Answered(@.name, None)]
  /\ UNCHANGED users

AccountsNext ==
  \E l \in Login :
    \/ \E typed \in Typed : PostLogin(l, typed)
    \/ FindByName(l) \/ SaveUser(l) \/ SaveUserReplyLost(l) \/ LoginFails(l)

AccountsSpec == AccountsInit /\ [][AccountsNext]_accountVars

-----------------------------------------------------------------------------
(* The tokens.                                                             *)

(* authMiddleware: a request is served for the account its token names. *)
Authenticated(token) == users[token] # None

(* Somebody holds the token: a login has answered with it. *)
HandedOut(token) ==
  \E l \in Login : login[l].pc = "done" /\ login[l].user = token

(* A name has one account, whatever logins race, fail after the fact and   *)
(* are repeated; and the token of every login that succeeded names that    *)
(* account from then on, so that two people who log in with one name       *)
(* share one cart, and nobody else's.                                      *)
OneAccountPerName ==
  /\ \A n \in Name : \A u, v \in Named(n) : u = v
  /\ \A l \in Login : login[l].pc = "done" /\ login[l].user # None
                        => users[login[l].user] = login[l].name
=============================================================================
