----------------------------- MODULE Identities -----------------------------
(* Users and sign-up requests: the Secrets kwirth-users, which is written    *)
(* whole, and kwirth-signups, a key per request, and the handlers of         *)
(* SignupApi, UserApi, LoginApi and AuthApi (back/src/api) that change them. *)
(* All of them hold IdentityService.lock but the callback of an IdP.  A user *)
(* is the IdP it is bound to, or Local; passwords and keys are not followed. *)
EXTENDS Integers, FiniteSets

CONSTANTS
    Emails,    \* ids of users and of requests
    Idps,      \* instances of identity providers
    Cap,       \* SIGNUP_PENDING_CAP
    Reqs,      \* HTTP requests that may be in progress at once
    MaxCodes,  \* bound on the sign-up codes one identity has at a time
    Faults     \* what may go wrong, a subset of IdentityFaults

(* Those of the Kubernetes storage.  "read": a Secret cannot be read, which  *)
(* is answered undefined or {}.  "write": a write is not stored and is not   *)
(* reported.  "crash": the core dies and is started again.                   *)
IdentityFaults == {"read", "write", "crash"}

NoUser == "no user"
Local == "local"
NoIdp == "no idp"
Free == "free"

ASSUME EmailsAssumption == IsFiniteSet(Emails)
ASSUME IdpsAssumption == Idps \cap {NoUser, Local, NoIdp} = {}
ASSUME ReqsAssumption == Free \notin Reqs
ASSUME CapAssumption == Cap \in Nat /\ MaxCodes \in Nat
ASSUME IdentityFaultsAssumption == Faults \subseteq IdentityFaults

VARIABLES
    users,    \* kwirth-users: what each user is bound to
    signups,  \* kwirth-signups
    codes,    \* signupCodes: how many are out for each identity
    lock,     \* which request holds IdentityService.lock
    op,       \* what each request is doing
    list      \* the users each request is about to write

vars == <<users, signups, codes, lock, op, list>>

Accounts == Idps \cup {Local}
Identity == Emails \X Idps
NoRequest == [idp |-> NoIdp, status |-> "none"]
Request(i, status) == [idp |-> i, status |-> status]
NoUsers == [e \in Emails |-> NoUser]

(* "submit" and "callback" are of AuthApi; "approve", "reject" and "drop" of *)
(* SignupApi; "put" (POST too) and "remove" of UserApi; "password" of        *)
(* LoginApi.                                                                 *)
UserKinds == {"put", "remove", "password"}
AdminKinds == {"approve", "reject", "drop"} \cup UserKinds
Kinds == {"submit", "callback"} \cup AdminKinds

Idle == [pc |-> "idle", kind |-> "none", email |-> "none", as |-> NoIdp]
Doing(pc, kind, e, as) == [pc |-> pc, kind |-> kind, email |-> e, as |-> as]

Init ==
    /\ users \in [Emails -> {NoUser, Local}]
    /\ signups = [e \in Emails |-> NoRequest]
    /\ codes = [c \in Identity |-> 0]
    /\ lock = Free
    /\ op = [r \in Reqs |-> Idle]
    /\ list = [r \in Reqs |-> NoUsers]

Goes(r, pc) == op' = [op EXCEPT ![r].pc = pc]

(* The handler is over, whatever it answered, and `use` releases the lock.   *)
Ends(r) ==
    /\ op' = [op EXCEPT ![r] = Idle]
    /\ list' = [list EXCEPT ![r] = NoUsers]
    /\ lock' = IF lock = r THEN Free ELSE lock

Answers(answer, failure) == IF "read" \in Faults THEN {answer, failure} ELSE {answer}
MayBeStored == IF "write" \in Faults THEN BOOLEAN ELSE {TRUE}

-----------------------------------------------------------------------------
(* Requests come in                                                          *)

(* POST of the dialog: the code is spent before anything else.               *)
Submit(r) ==
    /\ op[r] = Idle
    /\ \E e \in Emails, i \in Idps :
         /\ codes[<<e, i>>] > 0
         /\ codes' = [codes EXCEPT ![<<e, i>>] = @ - 1]
         /\ op' = [op EXCEPT ![r] = Doing("waiting", "submit", e, i)]
    /\ UNCHANGED <<users, signups, lock, list>>

(* A code expires, or is spent on a form that is refused.                    *)
Expire(e, i) ==
    /\ codes[<<e, i>>] > 0
    /\ codes' = [codes EXCEPT ![<<e, i>>] = @ - 1]
    /\ UNCHANGED <<users, signups, lock, op, list>>

(* An IdP sends someone back, with an email it has verified.  No lock.       *)
Callback(r) ==
    /\ op[r] = Idle
    /\ \E e \in Emails, i \in Idps : op' = [op EXCEPT ![r] = Doing("user", "callback", e, i)]
    /\ UNCHANGED <<users, signups, codes, lock, list>>

(* A user is given what it is bound to; the others take it from what is read.*)
Ask(r) ==
    /\ op[r] = Idle
    /\ \E kind \in AdminKinds, e \in Emails, as \in Accounts \cup {NoIdp} :
         /\ as # NoIdp <=> kind = "put"
         /\ op' = [op EXCEPT ![r] = Doing("waiting", kind, e, as)]
    /\ UNCHANGED <<users, signups, codes, lock, list>>

First(kind) ==
    IF kind = "submit" THEN "user" ELSE IF kind \in UserKinds THEN "users" ELSE "request"

(* Bug: the users' API has a semaphore of its own, as it used to.            *)
AcquireEachItsOwn(r) ==
    /\ op[r].pc = "waiting"
    /\ lock = Free \/ op[r].kind \in UserKinds
    /\ lock' = IF lock = Free THEN r ELSE lock
    /\ Goes(r, First(op[r].kind))
    /\ UNCHANGED <<users, signups, codes, list>>

(* IdentityService.lock.use                                                  *)
Acquire(r) ==
    /\ op[r].pc = "waiting"
    /\ lock = Free
    /\ lock' = r
    /\ Goes(r, First(op[r].kind))
    /\ UNCHANGED <<users, signups, codes, list>>

(* Bug: an error leaves the lock taken.                                      *)
RefuseHolding(r) ==
    /\ \/ op[r].pc = "user"
       \/ op[r].pc = "users" /\ op[r].kind # "remove"
       \/ op[r].pc = "writing" /\ op[r].kind \in {"put", "password"}
       \/ op[r].pc = "request" /\ op[r].kind = "callback"
    /\ op' = [op EXCEPT ![r] = Idle]
    /\ list' = [list EXCEPT ![r] = NoUsers]
    /\ UNCHANGED <<users, signups, codes, lock>>

(* Refused for what is not modelled (the policy of the IdP, scopes, a wrong  *)
(* password, a key that is not issued), or an error that guard() answers.    *)
Refuse(r) ==
    /\ \/ op[r].pc = "user"
       \/ op[r].pc = "users" /\ op[r].kind # "remove"
       \/ op[r].pc = "writing" /\ op[r].kind \in {"put", "password"}
       \/ op[r].pc = "request" /\ op[r].kind = "callback"
    /\ Ends(r)
    /\ UNCHANGED <<users, signups, codes>>

-----------------------------------------------------------------------------
(* Reading                                                                   *)

(* Bug: a submit does not look for a user that was added since the callback. *)
CheckUserOnlyOnce(r) ==
    /\ op[r].pc = "user"
    /\ IF op[r].kind = "submit" \/ users[op[r].email] = NoUser
         THEN Goes(r, "request") /\ UNCHANGED <<lock, list>>
         ELSE Ends(r)
    /\ UNCHANGED <<users, signups, codes>>

(* The callback gives a user its key; a user may not ask for an account.     *)
CheckUser(r) ==
    /\ op[r].pc = "user"
    /\ \E account \in Answers(users[op[r].email], NoUser) :
         IF account = NoUser
           THEN Goes(r, "request") /\ UNCHANGED <<lock, list>>
           ELSE Ends(r)
    /\ UNCHANGED <<users, signups, codes>>

(* What an administrator does with a request is done next.                   *)
Deals(r, request) ==
    op' = [op EXCEPT ![r] = Doing(CASE op[r].kind = "approve" -> "users"
                                    [] op[r].kind = "reject" -> "saving"
                                    [] op[r].kind = "drop" -> "clearing",
                                  op[r].kind, op[r].email, request.idp)]

(* Bug: a submit trusts what the callback saw.                               *)
CheckRequestOnlyOnce(r) ==
    /\ op[r].pc = "request"
    /\ \E request \in Answers(signups[op[r].email], NoRequest) :
         \/ /\ op[r].kind = "submit" \/ (op[r].kind = "callback" /\ request = NoRequest)
            /\ Goes(r, "room") /\ UNCHANGED <<lock, list>>
         \/ /\ op[r].kind \in AdminKinds /\ request # NoRequest
            /\ Deals(r, request) /\ UNCHANGED <<lock, list>>
         \/ /\ op[r].kind = "callback" /\ request # NoRequest
            /\ Ends(r)
         \/ /\ op[r].kind \in AdminKinds /\ request = NoRequest
            /\ Ends(r)
    /\ UNCHANGED <<users, signups, codes>>

(* SignupStore.get.  Who has a request, pending or rejected, may not make    *)
(* another, and an administrator needs one.                                  *)
CheckRequest(r) ==
    /\ op[r].pc = "request"
    /\ \E request \in Answers(signups[op[r].email], NoRequest) :
         \/ /\ op[r].kind \notin AdminKinds /\ request = NoRequest
            /\ Goes(r, "room") /\ UNCHANGED <<lock, list>>
         \/ /\ op[r].kind \in AdminKinds /\ request # NoRequest
            /\ Deals(r, request) /\ UNCHANGED <<lock, list>>
         \/ /\ (op[r].kind \in AdminKinds) = (request = NoRequest)
            /\ Ends(r)
    /\ UNCHANGED <<users, signups, codes>>

(* countPending                                                              *)
Pending(i) == {e \in Emails : signups[e] = Request(i, "pending")}

(* Bug: only the callback looks whether there is room.                       *)
CheckRoomOnlyOnce(r) ==
    /\ op[r].pc = "room"
    /\ \E n \in Answers(Cardinality(Pending(op[r].as)), 0) :
         \/ /\ op[r].kind = "submit"
            /\ Goes(r, "saving") /\ UNCHANGED <<codes, lock, list>>
         \/ /\ op[r].kind = "callback" /\ n < Cap
            /\ codes' = [codes EXCEPT ![<<op[r].email, op[r].as>>] = 1]
            /\ Ends(r)
         \/ /\ op[r].kind = "callback" /\ n >= Cap
            /\ Ends(r) /\ UNCHANGED codes
    /\ UNCHANGED <<users, signups>>

(* SignupStore.isFull: the submit goes on, the callback hands out a code.    *)
CheckRoom(r) ==
    /\ op[r].pc = "room"
    /\ \E n \in Answers(Cardinality(Pending(op[r].as)), 0) :
         \/ /\ op[r].kind = "submit" /\ n < Cap
            /\ Goes(r, "saving") /\ UNCHANGED <<codes, lock, list>>
         \/ /\ op[r].kind = "callback" /\ n < Cap
            /\ codes' = [codes EXCEPT ![<<op[r].email, op[r].as>>] =
                                     IF @ < MaxCodes THEN @ + 1 ELSE @]
            /\ Ends(r)
         \/ /\ n >= Cap
            /\ Ends(r) /\ UNCHANGED codes
    /\ UNCHANGED <<users, signups>>

(* Bug: a user that is deleted is stored with nothing in it.                 *)
ChangedEmptying(o, list0) ==
    IF o.kind = "password" THEN list0 ELSE [list0 EXCEPT ![o.email] = o.as]

(* The users after what the request asks for.  A password is not followed.   *)
Changed(o, list0) ==
    CASE o.kind \in {"approve", "put"} -> [list0 EXCEPT ![o.email] = o.as]
      [] o.kind = "remove" -> [list0 EXCEPT ![o.email] = NoUser]
      [] o.kind = "password" -> list0

(* A user that exists is not approved again, and only who logs in with a     *)
(* password may change it.                                                   *)
Applies(o, list0) ==
    /\ o.kind = "approve" => list0[o.email] = NoUser
    /\ o.kind = "password" => list0[o.email] = Local

(* Bug: the request is removed, and then the user is written.                *)
ReadUsersRemovingFirst(r) ==
    /\ op[r].pc = "users"
    /\ Applies(op[r], users)
    /\ list' = [list EXCEPT ![r] = Changed(op[r], users)]
    /\ signups' = IF op[r].kind = "approve" THEN [signups EXCEPT ![op[r].email] = NoRequest]
                                            ELSE signups
    /\ Goes(r, "writing")
    /\ UNCHANGED <<users, codes, lock>>

(* IdentityService.readUsers, after which the list is changed in memory.     *)
ReadUsers(r) ==
    /\ op[r].pc = "users"
    /\ \/ /\ Applies(op[r], users)
          /\ list' = [list EXCEPT ![r] = Changed(op[r], users)]
          /\ Goes(r, "writing") /\ UNCHANGED lock
       \/ /\ ~Applies(op[r], users) \/ "read" \in Faults
          /\ Ends(r)
    /\ UNCHANGED <<users, signups, codes>>

-----------------------------------------------------------------------------
(* Writing                                                                   *)

(* SignupStore.save: one key of the Secret, over what is there.              *)
Save(r) ==
    /\ op[r].pc = "saving"
    /\ \E stored \in MayBeStored :
         signups' = IF stored
                      THEN [signups EXCEPT ![op[r].email] =
                              Request(op[r].as, IF op[r].kind = "submit" THEN "pending"
                                                                         ELSE "rejected")]
                      ELSE signups
    /\ Ends(r)
    /\ UNCHANGED <<users, codes>>

(* IdentityService.writeUsers: all of the users.                             *)
WriteUsers(r) ==
    /\ op[r].pc = "writing"
    /\ \E stored \in MayBeStored : users' = IF stored THEN list[r] ELSE users
    /\ IF op[r].kind = "approve"
         THEN Goes(r, "clearing") /\ UNCHANGED <<lock, list>>
         ELSE Ends(r)
    /\ UNCHANGED <<signups, codes>>

(* SignupStore.remove                                                        *)
Remove(r) ==
    /\ op[r].pc = "clearing"
    /\ \E stored \in MayBeStored :
         signups' = IF stored THEN [signups EXCEPT ![op[r].email] = NoRequest] ELSE signups
    /\ Ends(r)
    /\ UNCHANGED <<users, codes>>

(* The core dies and starts again: the Secrets are all that is left.         *)
Crash ==
    /\ "crash" \in Faults
    /\ op' = [r \in Reqs |-> Idle]
    /\ list' = [r \in Reqs |-> NoUsers]
    /\ codes' = [c \in Identity |-> 0]
    /\ lock' = Free
    /\ UNCHANGED <<users, signups>>

Step(r) ==
    \/ Refuse(r) \/ CheckUser(r) \/ CheckRequest(r) \/ CheckRoom(r)
    \/ ReadUsers(r) \/ Save(r) \/ WriteUsers(r) \/ Remove(r)

Next ==
    \/ \E r \in Reqs : Submit(r) \/ Callback(r) \/ Ask(r) \/ Acquire(r) \/ Step(r)
    \/ \E e \in Emails, i \in Idps : Expire(e, i)
    \/ Crash

Spec == Init /\ [][Next]_vars

-----------------------------------------------------------------------------
(* Properties                                                                *)

SignupRequests == {NoRequest} \cup [idp : Idps, status : {"pending", "rejected"}]
Inside == {"user", "request", "room", "users", "saving", "writing", "clearing"}

(* The types of the state.                                                   *)
TypeOK ==
    /\ users \in [Emails -> Accounts \cup {NoUser}]
    /\ signups \in [Emails -> SignupRequests]
    /\ codes \in [Identity -> 0..MaxCodes]
    /\ lock \in Reqs \cup {Free}
    /\ op \in [Reqs -> {Idle} \cup [pc : Inside \cup {"waiting"}, kind : Kinds,
                                     email : Emails, as : Accounts \cup {NoIdp}]]
    /\ list \in [Reqs -> [Emails -> Accounts \cup {NoUser}]]

(* The handlers but the callback hold the lock from their first read to their*)
(* end, one at a time, and none keeps it when it ends early: it could never  *)
(* be taken again, since it is not re-entrant (IdentityService.ts:15-23).    *)
LockIsHeldInside ==
    \A r \in Reqs : lock = r <=> op[r].pc \in Inside /\ op[r].kind # "callback"

(* No IdP has more requests waiting than SIGNUP_PENDING_CAP, although codes  *)
(* are handed out without the lock (AuthApi.ts:298-301).                     *)
CapHolds == \A i \in Idps : Cardinality(Pending(i)) <= Cap

(* While a request is there it belongs to the IdP it came through, and one   *)
(* that was rejected stays so: asking again, or through another IdP, changes *)
(* nothing (AuthApi.ts:332-334, SignupApi.ts:86).                            *)
RequestsAreNotOverwritten ==
    [][\A e \in Emails :
         signups[e] # NoRequest /\ signups'[e] # NoRequest =>
           /\ signups'[e].idp = signups[e].idp
           /\ signups[e].status = "rejected" => signups'[e].status = "rejected"]_vars

(* Nobody who is a user is left with a new request, whatever was decided in  *)
(* the time between the callback and the form (AuthApi.ts:326-331).          *)
OnlyStrangersAsk ==
    [][\A e \in Emails :
         signups[e] = NoRequest /\ signups'[e] # NoRequest => users[e] = NoUser]_vars

(* A request disappears because its user is there, or because an             *)
(* administrator deletes it: a restart in the middle of an approval does not *)
(* lose both (SignupApi.ts:39-41).                                           *)
ApprovedIsAUser ==
    [][\A e \in Emails :
         signups[e] # NoRequest /\ signups'[e] = NoRequest =>
           \/ users[e] # NoUser
           \/ \E r \in Reqs : op[r].kind = "drop" /\ op[r].email = e]_vars

(* What a handler was asked for.                                             *)
OrderOf(o) ==
    IF o.kind \in {"none", "callback"} THEN [kind |-> "none", email |-> "none", as |-> NoIdp]
    ELSE [kind |-> o.kind, email |-> o.email,
          as |-> IF o.kind \in {"submit", "put"} THEN o.as ELSE NoIdp]

Atomic == INSTANCE Accounts WITH Callers <- Reqs, orders <- [r \in Reqs |-> OrderOf(op[r])]

(* The administrators may think of the accounts as Accounts does: nothing    *)
(* but what is asked ever happens to a user or a request, at one instant, and*)
(* no handler undoes another's though writeUsers rewrites the whole map      *)
(* (IdentityService.ts:15-19); who is approved becomes a user of the IdP the *)
(* request came through, before it goes (SignupApi.ts:39-41).                *)
AccountsAreAtomic == Atomic!Spec
=============================================================================
