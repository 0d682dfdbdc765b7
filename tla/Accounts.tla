------------------------------ MODULE Accounts ------------------------------
(* What an administrator may assume of the users and of the sign-ups: each   *)
(* request takes effect at one instant, on what is stored at that instant,   *)
(* and on the one email it is about.  An approval takes effect at two: its   *)
(* user is there before its request goes.  Identities implements this with   *)
(* reads, checks and writes that are seconds apart, of which the users are   *)
(* written whole.                                                            *)
EXTENDS Integers, FiniteSets

CONSTANTS
    Emails,     \* ids of users and of requests
    Idps,       \* instances of identity providers
    Cap,        \* how many sign-ups through one IdP may be waiting
    Callers,    \* the requests that may be in progress at one time
    Local, NoUser, NoIdp, NoRequest

VARIABLES
    users,      \* what each user is bound to
    signups,    \* the sign-up each email has
    orders      \* what each caller is asking for

vars == <<users, signups, orders>>

(* What is asked, by whom, and to which IdP, or none, a user is to be bound. *)
Nothing == [kind |-> "none", email |-> "none", as |-> NoIdp]
Orders ==
         [kind : {"submit"}, email : Emails, as : Idps]
    \cup [kind : {"put"}, email : Emails, as : Idps \cup {Local}]
    \cup [kind : {"approve", "reject", "drop", "remove", "password"}, email : Emails, as : {NoIdp}]

Request(i, status) == [idp |-> i, status |-> status]
Waiting(i) == {e \in Emails : signups[e] = Request(i, "pending")}

Init ==
    /\ users \in [Emails -> {NoUser, Local}]
    /\ signups = [e \in Emails |-> NoRequest]
    /\ orders = [c \in Callers |-> Nothing]

Order(c) ==
    /\ orders[c] = Nothing
    /\ \E o \in Orders : orders' = [orders EXCEPT ![c] = o]
    /\ UNCHANGED <<users, signups>>

(* It was refused, or changes nothing that is followed here.                 *)
Close(c) == orders' = [orders EXCEPT ![c] = Nothing]
Refuse(c) == Close(c) /\ UNCHANGED <<users, signups>>

(* A stranger without a request asks, and there is room.                     *)
SignUp(c) ==
    LET o == orders[c] IN
    /\ o.kind = "submit"
    /\ users[o.email] = NoUser /\ signups[o.email] = NoRequest
    /\ Cardinality(Waiting(o.as)) < Cap
    /\ signups' = [signups EXCEPT ![o.email] = Request(o.as, "pending")]
    /\ Close(c) /\ UNCHANGED users

(* A request is rejected and stays with its IdP.                             *)
Reject(c) ==
    LET o == orders[c] IN
    /\ o.kind = "reject" /\ signups[o.email] # NoRequest
    /\ signups' = [signups EXCEPT ![o.email].status = "rejected"]
    /\ Close(c) /\ UNCHANGED users

(* Who asked becomes a user of the IdP the request came through...           *)
Admit(c) ==
    LET o == orders[c] IN
    /\ o.kind = "approve"
    /\ users[o.email] = NoUser /\ signups[o.email] # NoRequest
    /\ users' = [users EXCEPT ![o.email] = signups[o.email].idp]
    /\ UNCHANGED <<signups, orders>>

(* ...and only then is the request removed, unless the caller drops it.      *)
Forget(c) ==
    LET o == orders[c] IN
    /\ o.kind = "drop" \/ (o.kind = "approve" /\ users[o.email] # NoUser)
    /\ signups' = [signups EXCEPT ![o.email] = NoRequest]
    /\ Close(c) /\ UNCHANGED users

(* The users' API binds a user to what it is told, or deletes it.            *)
SetUser(c) ==
    LET o == orders[c] IN
    /\ o.kind \in {"put", "remove"}
    /\ users' = [users EXCEPT ![o.email] = IF o.kind = "put" THEN o.as ELSE NoUser]
    /\ Close(c) /\ UNCHANGED signups

(* The core dies, and what is stored stays.                                  *)
Crash ==
    /\ orders' = [c \in Callers |-> Nothing]
    /\ UNCHANGED <<users, signups>>

Next ==
    \/ \E c \in Callers :
         \/ Refuse(c) \/ SignUp(c) \/ Reject(c)
         \/ Admit(c) \/ Forget(c) \/ SetUser(c) \/ Order(c)
    \/ Crash

Spec == Init /\ [][Next]_vars
=============================================================================
