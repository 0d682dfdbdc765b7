-------------------------- MODULE IdentitiesProofs --------------------------
(* What the one lock of the identities gives, for any users, providers,      *)
(* requests and bounds.  Whatever fails, its holder is alone and no user is  *)
(* lost.  When reads do not fail, what a sign-up checked still holds when it *)
(* is stored, so the caps hold and decisions stand.  When writes do not fail *)
(* an approval leaves a user behind, wherever the core dies.                 *)
EXTENDS Identities, FiniteSetTheorems, TLAPS

Holds(r) == op[r].pc \in Inside /\ op[r].kind # "callback"

Ops == {Idle} \cup [pc : Inside \cup {"waiting"}, kind : Kinds, email : Emails,
                    as : Accounts \cup {NoIdp}]

(* Which handlers reach which step, and that each knows its IdP there.       *)
Shaped(o) ==
    /\ o.pc \in {"user", "room"} => o.kind \in {"submit", "callback"}
    /\ o.pc = "request" => o.kind \notin UserKinds
    /\ o.pc \in {"users", "writing"} => o.kind \in UserKinds \cup {"approve"}
    /\ o.pc = "saving" => o.kind \in {"submit", "reject"}
    /\ o.pc = "clearing" => o.kind \in {"approve", "drop"}
    /\ o.pc = "waiting" => o.kind # "callback"
    /\ o.kind \in {"submit", "callback"} => o.as \in Idps
    /\ o.kind = "put" => o.as \in Accounts
    /\ o.kind \in {"approve", "reject", "drop"} /\ o.pc \notin {"waiting", "request"}
         => o.as \in Idps

Typed == op \in [Reqs -> Ops] /\ \A r \in Reqs : Shaped(op[r])

(* The parts of the types that are not about the requests in progress.       *)
Stores ==
    /\ users \in [Emails -> Accounts \cup {NoUser}]
    /\ signups \in [Emails -> SignupRequests]
    /\ codes \in [Identity -> 0..MaxCodes]
    /\ lock \in Reqs \cup {Free}
    /\ list \in [Reqs -> [Emails -> Accounts \cup {NoUser}]]

(* Whoever is about to write the users writes what is stored with its own    *)
(* change: no handler of the three APIs undoes another's (writeUsers rewrites*)
(* the whole map, IdentityService.ts:15-19).                                 *)
UsersNotLost == \A r \in Reqs : op[r].pc = "writing" => list[r] = Changed(op[r], users)

AloneInv == Typed /\ Stores /\ LockIsHeldInside /\ UsersNotLost

-----------------------------------------------------------------------------
(* Steps of a handler                                                        *)

(* What a handler is doing after it goes on, and after it ends.              *)
LEMMA AfterGoes ==
    ASSUME Typed, NEW r \in Reqs, op[r] # Idle, NEW pc, Goes(r, pc)
    PROVE  op' = [op EXCEPT ![r] = Doing(pc, op[r].kind, op[r].email, op[r].as)]
<1>1. op[r] \in [pc : Inside \cup {"waiting"}, kind : Kinds, email : Emails,
                 as : Accounts \cup {NoIdp}]
  BY DEF Typed, Ops
<1>2. [op[r] EXCEPT !.pc = pc] = Doing(pc, op[r].kind, op[r].email, op[r].as)
  BY <1>1 DEF Doing
<1> QED  BY <1>2 DEF Goes

LEMMA AfterEnds ==
    ASSUME Typed, NEW r \in Reqs, Ends(r)
    PROVE  op'[r] = Idle
BY DEF Typed, Ends

(* A handler that goes on keeps the types of what is in progress.            *)
LEMMA GoesTyped ==
    ASSUME Typed, NEW r \in Reqs, op[r] # Idle, NEW pc \in Inside, Goes(r, pc),
           Shaped(Doing(pc, op[r].kind, op[r].email, op[r].as))
    PROVE  Typed'
<1>1. op[r] \in Ops /\ op[r] # Idle
  BY DEF Typed
<1>2. Doing(pc, op[r].kind, op[r].email, op[r].as) \in Ops
  BY <1>1 DEF Ops, Inside, Doing
<1> QED  BY <1>2, AfterGoes DEF Typed

(* So does one that ends.                                                    *)
LEMMA EndsTyped ==
    ASSUME Typed, NEW r \in Reqs, Ends(r)
    PROVE  Typed'
<1>1. Shaped(Idle) /\ Idle \in Ops
  BY DEF Shaped, Idle, Ops, UserKinds
<1>2. op' = [op EXCEPT ![r] = Idle]
  BY DEF Ends
<1> QED  BY <1>1, <1>2 DEF Typed

(* A handler that goes on inside keeps the lock it holds.                    *)
LEMMA GoesLocked ==
    ASSUME Typed, LockIsHeldInside, NEW r \in Reqs, op[r].pc \in Inside,
           NEW pc \in Inside, Goes(r, pc), lock' = lock
    PROVE  LockIsHeldInside'
<1>1. op'[r].pc = pc /\ op'[r].kind = op[r].kind /\ \A t \in Reqs \ {r} : op'[t] = op[t]
  <2>1. op[r] \in Ops /\ op[r] # Idle
    BY DEF Typed, Idle, Inside
  <2> QED  BY <2>1 DEF Goes, Typed, Ops
<1> QED  BY <1>1 DEF LockIsHeldInside

(* One that ends gives it back.                                              *)
LEMMA EndsLocked ==
    ASSUME Typed, LockIsHeldInside, NEW r \in Reqs, Ends(r)
    PROVE  LockIsHeldInside'
<1>1. op'[r] = Idle /\ \A t \in Reqs \ {r} : op'[t] = op[t]
  BY DEF Ends, Typed
<1>2. lock' = IF lock = r THEN Free ELSE lock
  BY DEF Ends
<1> QED  BY <1>1, <1>2, ReqsAssumption DEF LockIsHeldInside, Idle, Inside

(* Who holds the lock is alone.                                              *)
LEMMA Alone ==
    ASSUME LockIsHeldInside, NEW r \in Reqs, NEW t \in Reqs, Holds(r), Holds(t)
    PROVE  r = t
BY DEF LockIsHeldInside, Holds

(* The initial states.                                                       *)
LEMMA AloneInit == Init => AloneInv
<1> SUFFICES ASSUME Init PROVE AloneInv
  OBVIOUS
<1>1. \A r \in Reqs : op[r] = Idle
  BY DEF Init
<1>2. Typed
  BY <1>1 DEF Init, Typed, Ops, Shaped, Idle, UserKinds
<1>3. Stores
  BY CapAssumption DEF Init, Stores, Accounts, NoUsers, SignupRequests
<1>4. lock = Free
  BY DEF Init
<1>5. LockIsHeldInside /\ UsersNotLost
  BY <1>1, <1>4, ReqsAssumption DEF LockIsHeldInside, UsersNotLost, Idle, Inside
<1> QED  BY <1>2, <1>3, <1>5 DEF AloneInv

(* A new request, which waits for the lock or does without.                  *)
LEMMA AskTyped ==
    ASSUME Typed, LockIsHeldInside, NEW r \in Reqs, op[r] = Idle,
           NEW o \in Ops, Shaped(o), o.pc = "waiting" \/ o.kind = "callback",
           op' = [op EXCEPT ![r] = o], lock' = lock
    PROVE  Typed' /\ LockIsHeldInside'
<1>1. op'[r] = o /\ \A t \in Reqs \ {r} : op'[t] = op[t]
  BY DEF Typed
<1>2. Typed'
  BY <1>1 DEF Typed
<1>3. lock # r
  BY DEF LockIsHeldInside, Idle, Inside
<1> QED  BY <1>1, <1>2, <1>3 DEF LockIsHeldInside, Inside

(* An administrator's handler that found its request.                        *)
LEMMA DealsTyped ==
    ASSUME Typed, Stores, LockIsHeldInside, NEW r \in Reqs, op[r].pc = "request",
           op[r].kind \in AdminKinds,
           NEW request \in Answers(signups[op[r].email], NoRequest), request # NoRequest,
           Deals(r, request), lock' = lock
    PROVE  Typed' /\ LockIsHeldInside'
<1>1. op[r] \in Ops /\ op[r] # Idle /\ op[r].kind \in {"approve", "reject", "drop"}
  BY DEF Typed, Shaped, Idle, AdminKinds
<1>2. request.idp \in Idps
  BY <1>1 DEF Answers, Stores, Ops, SignupRequests
<1> DEFINE pc == CASE op[r].kind = "approve" -> "users"
                   [] op[r].kind = "reject" -> "saving"
                   [] op[r].kind = "drop" -> "clearing"
           o == Doing(pc, op[r].kind, op[r].email, request.idp)
<1>3. o \in Ops
  BY <1>1, <1>2 DEF Ops, Doing, Inside, Accounts
<1>4. Shaped(o)
  BY <1>1, <1>2 DEF Shaped, Doing, UserKinds
<1>5. op' = [op EXCEPT ![r] = o]
  BY DEF Deals
<1>6. Typed'
  BY <1>3, <1>4, <1>5 DEF Typed
<1>7. op'[r].pc \in Inside /\ op'[r].kind = op[r].kind /\ \A t \in Reqs \ {r} : op'[t] = op[t]
  BY <1>1, <1>5 DEF Typed, Doing, Inside
<1> QED  BY <1>6, <1>7 DEF LockIsHeldInside, Inside

(* The types, and who holds the lock, in every step.                         *)
LEMMA LockStep ==
    ASSUME Typed, Stores, LockIsHeldInside, Next
    PROVE  Typed' /\ LockIsHeldInside'
<1>1. ASSUME NEW r \in Reqs, Submit(r) PROVE Typed' /\ LockIsHeldInside'
  <2>1. PICK e \in Emails, i \in Idps : op' = [op EXCEPT ![r] = Doing("waiting", "submit", e, i)]
    BY <1>1 DEF Submit
  <2>2. Doing("waiting", "submit", e, i) \in Ops
    BY DEF Doing, Ops, Kinds, Accounts
  <2>3. Shaped(Doing("waiting", "submit", e, i))
    BY DEF Doing, Shaped, UserKinds
  <2> QED  BY <1>1, <2>1, <2>2, <2>3, AskTyped DEF Submit, Doing
<1>2. ASSUME NEW r \in Reqs, Callback(r) PROVE Typed' /\ LockIsHeldInside'
  <2>1. PICK e \in Emails, i \in Idps : op' = [op EXCEPT ![r] = Doing("user", "callback", e, i)]
    BY <1>2 DEF Callback
  <2>2. Doing("user", "callback", e, i) \in Ops
    BY DEF Doing, Ops, Kinds, Accounts, Inside
  <2>3. Shaped(Doing("user", "callback", e, i))
    BY DEF Doing, Shaped, UserKinds
  <2> QED  BY <1>2, <2>1, <2>2, <2>3, AskTyped DEF Callback, Doing
<1>3. ASSUME NEW r \in Reqs, Ask(r) PROVE Typed' /\ LockIsHeldInside'
  <2>1. PICK kind \in AdminKinds, e \in Emails, as \in Accounts \cup {NoIdp} :
           /\ as # NoIdp <=> kind = "put"
           /\ op' = [op EXCEPT ![r] = Doing("waiting", kind, e, as)]
    BY <1>3 DEF Ask
  <2>2. Doing("waiting", kind, e, as) \in Ops
    BY DEF Doing, Ops, Kinds
  <2>3. Shaped(Doing("waiting", kind, e, as))
    BY <2>1 DEF Doing, Shaped, UserKinds, AdminKinds
  <2> QED  BY <1>3, <2>1, <2>2, <2>3, AskTyped DEF Ask, Doing
<1>4. ASSUME NEW r \in Reqs, Acquire(r) PROVE Typed' /\ LockIsHeldInside'
  <2>1. op[r] \in Ops /\ Shaped(op[r]) /\ op[r].pc = "waiting"
    BY <1>4 DEF Acquire, Typed
  <2>2. op[r] # Idle /\ First(op[r].kind) \in Inside
    BY <2>1 DEF First, Inside, Idle
  <2>3. Shaped(Doing(First(op[r].kind), op[r].kind, op[r].email, op[r].as))
    BY <2>1, <2>2 DEF Shaped, Doing, First, UserKinds, Ops, Kinds, AdminKinds
  <2>4. Typed'
    BY <1>4, <2>2, <2>3, GoesTyped DEF Acquire
  <2>5. op'[r].pc \in Inside /\ op'[r].kind # "callback" /\ \A t \in Reqs \ {r} : op'[t] = op[t]
    BY <1>4, <2>1, <2>2 DEF Acquire, Goes, Typed, Shaped, Ops
  <2>6. LockIsHeldInside'
    BY <1>4, <2>5, ReqsAssumption DEF Acquire, LockIsHeldInside
  <2> QED  BY <2>4, <2>6
<1>5. ASSUME NEW r \in Reqs, Ends(r) PROVE Typed' /\ LockIsHeldInside'
  BY <1>5, EndsTyped, EndsLocked
<1>6. ASSUME NEW r \in Reqs, op[r].pc \in Inside, NEW pc \in Inside, Goes(r, pc), lock' = lock,
             Shaped(Doing(pc, op[r].kind, op[r].email, op[r].as))
      PROVE  Typed' /\ LockIsHeldInside'
  BY <1>6, GoesTyped, GoesLocked DEF Idle, Inside
<1>7. ASSUME NEW r \in Reqs, Step(r) PROVE Typed' /\ LockIsHeldInside'
  <2>1. CASE Refuse(r)
    BY <2>1, <1>5 DEF Refuse
  <2>2. CASE CheckUser(r)
    <3>1. op[r] \in Ops /\ Shaped(op[r]) /\ op[r].pc = "user"
      BY <2>2 DEF CheckUser, Typed
    <3>2. Shaped(Doing("request", op[r].kind, op[r].email, op[r].as))
      BY <3>1 DEF Shaped, Doing, UserKinds
    <3>3. Ends(r) \/ (Goes(r, "request") /\ lock' = lock)
      BY <2>2 DEF CheckUser
    <3> QED  BY <3>1, <3>2, <3>3, <1>5, <1>6 DEF Inside
  <2>3. CASE CheckRequest(r)
    <3>1. op[r] \in Ops /\ Shaped(op[r]) /\ op[r].pc = "request"
      BY <2>3 DEF CheckRequest, Typed
    <3>2. CASE Ends(r)
      BY <3>2, <1>5
    <3>3. CASE op[r].kind \notin AdminKinds /\ Goes(r, "room") /\ lock' = lock
      <4>1. Shaped(Doing("room", op[r].kind, op[r].email, op[r].as))
        BY <3>1, <3>3 DEF Shaped, Doing, UserKinds, AdminKinds, Ops, Kinds, Idle
      <4> QED  BY <3>1, <3>3, <4>1, <1>6 DEF Inside
    <3>4. ASSUME op[r].kind \in AdminKinds, NEW request,
                 request \in Answers(signups[op[r].email], NoRequest), request # NoRequest,
                 Deals(r, request), lock' = lock
          PROVE  Typed' /\ LockIsHeldInside'
      BY <3>1, <3>4, DealsTyped
    <3> QED  BY <2>3, <3>2, <3>3, <3>4 DEF CheckRequest
  <2>4. CASE CheckRoom(r)
    <3>1. op[r] \in Ops /\ Shaped(op[r]) /\ op[r].pc = "room"
      BY <2>4 DEF CheckRoom, Typed
    <3>2. Ends(r) \/ (op[r].kind = "submit" /\ Goes(r, "saving") /\ lock' = lock)
      BY <2>4 DEF CheckRoom
    <3>3. ASSUME op[r].kind = "submit"
          PROVE  Shaped(Doing("saving", op[r].kind, op[r].email, op[r].as))
      BY <3>1, <3>3 DEF Shaped, Doing, UserKinds
    <3> QED  BY <3>1, <3>2, <3>3, <1>5, <1>6 DEF Inside
  <2>5. CASE ReadUsers(r)
    <3>1. op[r] \in Ops /\ Shaped(op[r]) /\ op[r].pc = "users"
      BY <2>5 DEF ReadUsers, Typed
    <3>2. Shaped(Doing("writing", op[r].kind, op[r].email, op[r].as))
      BY <3>1 DEF Shaped, Doing, UserKinds
    <3>3. Ends(r) \/ (Goes(r, "writing") /\ lock' = lock)
      BY <2>5 DEF ReadUsers
    <3> QED  BY <3>1, <3>2, <3>3, <1>5, <1>6 DEF Inside
  <2>6. CASE Save(r)
    BY <2>6, <1>5 DEF Save
  <2>7. CASE WriteUsers(r)
    <3>1. op[r] \in Ops /\ Shaped(op[r]) /\ op[r].pc = "writing"
      BY <2>7 DEF WriteUsers, Typed
    <3>2. Ends(r) \/ (op[r].kind = "approve" /\ Goes(r, "clearing") /\ lock' = lock)
      BY <2>7 DEF WriteUsers
    <3>3. ASSUME op[r].kind = "approve"
          PROVE  Shaped(Doing("clearing", op[r].kind, op[r].email, op[r].as))
      BY <3>1, <3>3 DEF Shaped, Doing, UserKinds
    <3> QED  BY <3>1, <3>2, <3>3, <1>5, <1>6 DEF Inside
  <2>8. CASE Remove(r)
    BY <2>8, <1>5 DEF Remove
  <2> QED  BY <1>7, <2>1, <2>2, <2>3, <2>4, <2>5, <2>6, <2>7, <2>8 DEF Step
<1>8. ASSUME NEW e \in Emails, NEW i \in Idps, Expire(e, i) PROVE Typed' /\ LockIsHeldInside'
  BY <1>8 DEF Expire, Typed, LockIsHeldInside
<1>9. CASE Crash
  <2>1. lock' = Free /\ op' = [r \in Reqs |-> Idle]
    BY <1>9 DEF Crash
  <2> QED  BY <2>1, ReqsAssumption DEF Typed, Ops, Shaped, Idle, UserKinds, LockIsHeldInside, Inside
<1> QED  BY <1>1, <1>2, <1>3, <1>4, <1>7, <1>8, <1>9 DEF Next

(* Nothing that a request does is seen in what the others are doing.         *)
LEMMA OthersWait ==
    ASSUME Typed, Stores, NEW r \in Reqs,
           Submit(r) \/ Callback(r) \/ Ask(r) \/ Acquire(r) \/ Step(r),
           NEW t \in Reqs \ {r}
    PROVE  op'[t] = op[t] /\ list'[t] = list[t]
<1>1. CASE Submit(r) \/ Callback(r) \/ Ask(r)
  BY <1>1 DEF Submit, Callback, Ask, Typed
<1>2. ASSUME Ends(r) PROVE op'[t] = op[t] /\ list'[t] = list[t]
  BY <1>2 DEF Ends, Typed, Stores
<1>3. ASSUME NEW pc, Goes(r, pc), list' = list PROVE op'[t] = op[t] /\ list'[t] = list[t]
  BY <1>3 DEF Goes, Typed
<1>4. CASE Acquire(r)
  BY <1>4, <1>3 DEF Acquire
<1>5. CASE Refuse(r) \/ Save(r) \/ Remove(r)
  BY <1>5, <1>2 DEF Refuse, Save, Remove
<1>6. CASE CheckUser(r)
  BY <1>6, <1>2, <1>3 DEF CheckUser
<1>7. CASE CheckRequest(r)
  <2>1. Ends(r) \/ (Goes(r, "room") /\ list' = list) \/ (op'[t] = op[t] /\ list' = list)
    BY <1>7 DEF CheckRequest, Deals, Typed
  <2> QED  BY <2>1, <1>2, <1>3
<1>8. CASE CheckRoom(r)
  <2>1. Ends(r) \/ (Goes(r, "saving") /\ list' = list)
    BY <1>8 DEF CheckRoom
  <2> QED  BY <2>1, <1>2, <1>3
<1>9. CASE ReadUsers(r)
  <2>1. Ends(r) \/ (Goes(r, "writing") /\ list'[t] = list[t])
    BY <1>9 DEF ReadUsers, Stores
  <2> QED  BY <2>1, <1>2 DEF Goes, Typed
<1>10. CASE WriteUsers(r)
  <2>1. Ends(r) \/ (Goes(r, "clearing") /\ list' = list)
    BY <1>10 DEF WriteUsers
  <2> QED  BY <2>1, <1>2, <1>3
<1> QED  BY <1>1, <1>4, <1>5, <1>6, <1>7, <1>8, <1>9, <1>10 DEF Step

(* What a request is about to write has types.                               *)
LEMMA ChangedTyped ==
    ASSUME NEW o \in Ops, Shaped(o), o.pc = "users", Stores
    PROVE  Changed(o, users) \in [Emails -> Accounts \cup {NoUser}]
<1>1. o.kind \in {"approve", "put", "remove", "password"} /\ o.email \in Emails
  BY DEF Shaped, UserKinds, Ops, Idle
<1>2. o.kind \in {"approve", "put"} => o.as \in Accounts
  BY DEF Shaped, Accounts
<1> QED  BY <1>1, <1>2 DEF Changed, Stores

(* The types of the stores, in every step.                                   *)
LEMMA StoresStep ==
    ASSUME Typed, Stores, Next
    PROVE  Stores'
<1>1. NoUsers \in [Emails -> Accounts \cup {NoUser}]
  BY DEF NoUsers
<1>2. ASSUME NEW r \in Reqs, Ends(r)
      PROVE  /\ list' \in [Reqs -> [Emails -> Accounts \cup {NoUser}]]
             /\ lock' \in Reqs \cup {Free}
  BY <1>1, <1>2 DEF Ends, Stores
<1>3. ASSUME NEW r \in Reqs, Submit(r) PROVE Stores'
  BY <1>3, CapAssumption DEF Submit, Stores, Identity
<1>4. ASSUME NEW e \in Emails, NEW i \in Idps, Expire(e, i) PROVE Stores'
  BY <1>4, CapAssumption DEF Expire, Stores, Identity
<1>5. ASSUME NEW r \in Reqs, Callback(r) \/ Ask(r) \/ Acquire(r) PROVE Stores'
  BY <1>5 DEF Callback, Ask, Acquire, Stores
<1>6. CASE Crash
  BY <1>1, <1>6, CapAssumption DEF Crash, Stores
<1>7. ASSUME NEW r \in Reqs, Step(r) PROVE Stores'
  <2>1. CASE Refuse(r)
    BY <1>2, <2>1 DEF Refuse, Stores
  <2>2. CASE CheckUser(r)
    <3>1. UNCHANGED <<users, signups, codes>> /\ (Ends(r) \/ UNCHANGED <<lock, list>>)
      BY <2>2 DEF CheckUser
    <3> QED  BY <1>2, <3>1 DEF Stores
  <2>3. CASE CheckRequest(r)
    <3>1. UNCHANGED <<users, signups, codes>> /\ (Ends(r) \/ UNCHANGED <<lock, list>>)
      BY <2>3 DEF CheckRequest
    <3> QED  BY <1>2, <3>1 DEF Stores
  <2>4. CASE CheckRoom(r)
    <3>1. UNCHANGED <<users, signups>> /\ (Ends(r) \/ UNCHANGED <<lock, list>>)
      BY <2>4 DEF CheckRoom
    <3>2. codes' \in [Identity -> 0..MaxCodes]
      <4>1. \/ codes' = codes
            \/ \E c : codes' = [codes EXCEPT ![c] = IF @ < MaxCodes THEN @ + 1 ELSE @]
        BY <2>4, Zenon DEF CheckRoom
      <4>2. codes \in [Identity -> 0..MaxCodes]
        BY DEF Stores
      <4> QED  BY <4>1, <4>2, CapAssumption
    <3> QED  BY <1>2, <3>1, <3>2 DEF Stores
  <2>5. CASE ReadUsers(r)
    <3>1. op[r] \in Ops /\ Shaped(op[r]) /\ op[r].pc = "users"
      BY <2>5 DEF ReadUsers, Typed
    <3>2. \/ Ends(r)
          \/ UNCHANGED lock /\ list' = [list EXCEPT ![r] = Changed(op[r], users)]
      BY <2>5 DEF ReadUsers
    <3> QED  BY <1>2, <2>5, <3>1, <3>2, ChangedTyped DEF ReadUsers, Stores
  <2>6. CASE Save(r)
    <3>1. op[r].kind \in {"submit", "reject"} /\ op[r].as \in Idps
      BY <2>6 DEF Save, Typed, Shaped
    <3>2. signups' \in [Emails -> SignupRequests]
      <4>1. \A status \in {"pending", "rejected"} : Request(op[r].as, status) \in SignupRequests
        BY <3>1 DEF Request, SignupRequests
      <4>2. \/ signups' = signups
            \/ \E status \in {"pending", "rejected"} :
                 signups' = [signups EXCEPT ![op[r].email] = Request(op[r].as, status)]
        BY <2>6 DEF Save
      <4> QED  BY <4>1, <4>2 DEF Stores
    <3> QED  BY <1>2, <2>6, <3>2 DEF Save, Stores
  <2>7. CASE WriteUsers(r)
    <3>1. UNCHANGED <<signups, codes>> /\ (Ends(r) \/ UNCHANGED <<lock, list>>)
      BY <2>7 DEF WriteUsers
    <3>2. users' = users \/ users' = list[r]
      BY <2>7 DEF WriteUsers
    <3> QED  BY <1>2, <3>1, <3>2 DEF Stores
  <2>8. CASE Remove(r)
    <3>1. signups' \in [Emails -> SignupRequests]
      <4>1. signups' = signups \/ signups' = [signups EXCEPT ![op[r].email] = NoRequest]
        BY <2>8 DEF Remove
      <4>2. NoRequest \in SignupRequests
        BY DEF SignupRequests
      <4> QED  BY <4>1, <4>2 DEF Stores
    <3> QED  BY <1>2, <2>8, <3>1 DEF Remove, Stores
  <2> QED  BY <1>7, <2>1, <2>2, <2>3, <2>4, <2>5, <2>6, <2>7, <2>8 DEF Step
<1> QED  BY <1>3, <1>4, <1>5, <1>6, <1>7 DEF Next

-----------------------------------------------------------------------------
(* Who is alone                                                              *)

(* Only who holds the lock writes a Secret.                                  *)
LEMMA Quiet ==
    ASSUME Typed, NEW r \in Reqs, ~ Holds(r),
           Submit(r) \/ Callback(r) \/ Ask(r) \/ Acquire(r) \/ Step(r)
    PROVE  UNCHANGED <<users, signups>>
<1>1. CASE Submit(r) \/ Callback(r) \/ Ask(r) \/ Acquire(r)
  BY <1>1 DEF Submit, Callback, Ask, Acquire
<1>2. CASE Save(r) \/ WriteUsers(r) \/ Remove(r)
  <2>1. op[r].pc \in {"saving", "writing", "clearing"} /\ Shaped(op[r])
    BY <1>2 DEF Save, WriteUsers, Remove, Typed
  <2>2. Holds(r)
    BY <2>1 DEF Holds, Shaped, UserKinds, Inside
  <2> QED  BY <2>2
<1>3. CASE Refuse(r) \/ CheckUser(r) \/ CheckRequest(r) \/ CheckRoom(r) \/ ReadUsers(r)
  BY <1>3 DEF Refuse, CheckUser, CheckRequest, CheckRoom, ReadUsers
<1> QED  BY <1>1, <1>2, <1>3 DEF Step

(* What is true of the Secrets while a request holds the lock is not undone  *)
(* by another.                                                               *)
LEMMA Undisturbed ==
    ASSUME Typed, Stores, LockIsHeldInside, NEW r \in Reqs, NEW t \in Reqs \ {r}, Holds(t),
           Submit(r) \/ Callback(r) \/ Ask(r) \/ Acquire(r) \/ Step(r)
    PROVE  UNCHANGED <<users, signups>> /\ op'[t] = op[t] /\ list'[t] = list[t]
BY Alone, Quiet, OthersWait

(* What a request that comes in is doing.                                    *)
LEMMA AfterAsking ==
    ASSUME NEW r \in Reqs, Submit(r) \/ Callback(r) \/ Ask(r)
    PROVE  \E pc \in {"waiting", "user"} : \E kind, e, as :
             op' = [op EXCEPT ![r] = Doing(pc, kind, e, as)]
<1>1. CASE Submit(r)
  BY <1>1, Zenon DEF Submit
<1>2. CASE Callback(r)
  BY <1>2, Zenon DEF Callback
<1>3. CASE Ask(r)
  BY <1>3, Zenon DEF Ask
<1> QED  BY <1>1, <1>2, <1>3

(* Who is about to write the users has just read them.                       *)
LEMMA WritingAfterReading ==
    ASSUME Typed, NEW r \in Reqs, op'[r].pc = "writing",
           Submit(r) \/ Callback(r) \/ Ask(r) \/ Acquire(r) \/ Step(r)
    PROVE  ReadUsers(r) /\ Goes(r, "writing")
<1>1. Idle.pc # "writing"
  BY DEF Idle
<1>2. ~ Ends(r)
  BY <1>1, AfterEnds
<1>3. ASSUME NEW pc, pc # "writing", op[r] # Idle PROVE ~ Goes(r, pc)
  BY <1>3, AfterGoes DEF Doing, Typed
<1>4. CASE Submit(r) \/ Callback(r) \/ Ask(r)
  <2>1. \E pc \in {"waiting", "user"} : \E kind, e, as :
          op' = [op EXCEPT ![r] = Doing(pc, kind, e, as)]
    BY <1>4, AfterAsking
  <2> QED  BY <2>1 DEF Doing, Typed
<1>5. CASE Acquire(r)
  BY <1>5, <1>3 DEF Acquire, First, Idle
<1>6. CASE Refuse(r) \/ Save(r) \/ Remove(r)
  BY <1>6, <1>2 DEF Refuse, Save, Remove
<1>7. CASE CheckUser(r)
  BY <1>7, <1>2, <1>3 DEF CheckUser, Idle
<1>8. CASE CheckRequest(r)
  <2>1. op[r] # Idle
    BY <1>8 DEF CheckRequest, Idle
  <2>2. ASSUME NEW request, op[r].kind \in AdminKinds, Deals(r, request) PROVE FALSE
    <3>1. op[r].kind \in {"approve", "reject", "drop"}
      BY <1>8, <2>2 DEF CheckRequest, Typed, Shaped, AdminKinds
    <3> QED  BY <2>2, <3>1 DEF Deals, Doing, Typed
  <2> QED  BY <1>8, <1>2, <1>3, <2>1, <2>2 DEF CheckRequest
<1>9. CASE CheckRoom(r)
  BY <1>9, <1>2, <1>3 DEF CheckRoom, Idle
<1>10. CASE WriteUsers(r)
  BY <1>10, <1>2, <1>3 DEF WriteUsers, Idle
<1>11. CASE ReadUsers(r)
  <2>1. Ends(r) \/ Goes(r, "writing")
    BY <1>11 DEF ReadUsers
  <2> QED  BY <1>2, <1>11, <2>1
<1> QED  BY <1>4, <1>5, <1>6, <1>7, <1>8, <1>9, <1>10, <1>11 DEF Step

(* No step leaves a request about to write a list without what was written.  *)
LEMMA UsersStep ==
    ASSUME AloneInv, Next
    PROVE  UsersNotLost'
<1> USE DEF AloneInv
<1>1. ASSUME NEW r \in Reqs, Submit(r) \/ Callback(r) \/ Ask(r) \/ Acquire(r) \/ Step(r),
             NEW t \in Reqs, op'[t].pc = "writing"
      PROVE  list'[t] = Changed(op'[t], users')
  <2>1. CASE t # r
    <3>1. op'[t] = op[t] /\ list'[t] = list[t]
      BY <1>1, <2>1, OthersWait
    <3>2. Holds(t)
      BY <1>1, <3>1 DEF Holds, Typed, Shaped, UserKinds, Inside
    <3>3. users' = users
      BY <1>1, <2>1, <3>2, Undisturbed
    <3> QED  BY <1>1, <3>1, <3>3 DEF UsersNotLost
  <2>2. CASE t = r
    <3>1. ReadUsers(r) /\ Goes(r, "writing")
      BY <1>1, <2>2, WritingAfterReading
    <3>2. op'[r] = Doing("writing", op[r].kind, op[r].email, op[r].as)
      BY <3>1, AfterGoes DEF ReadUsers, Idle, Typed
    <3>3. list'[r] = Changed(op[r], users) /\ users' = users
      BY <3>1, <3>2, AfterEnds DEF ReadUsers, Stores, Idle, Doing
    <3>4. op[r].kind \in {"approve", "put", "remove", "password"}
      BY <3>1 DEF ReadUsers, Typed, Shaped, UserKinds
    <3>5. Changed(op'[r], users) = Changed(op[r], users)
      BY <3>2, <3>4 DEF Changed, Doing
    <3> QED  BY <2>2, <3>3, <3>5
  <2> QED  BY <2>1, <2>2
<1>2. ASSUME NEW e \in Emails, NEW i \in Idps, Expire(e, i) PROVE UsersNotLost'
  BY <1>2 DEF Expire, UsersNotLost
<1>3. CASE Crash
  BY <1>3 DEF Crash, UsersNotLost, Idle
<1> QED  BY <1>1, <1>2, <1>3 DEF Next, UsersNotLost

(* The invariant is inductive, whatever fails.                               *)
LEMMA AloneInvariant == Spec => []AloneInv
<1>1. ASSUME AloneInv, Next PROVE AloneInv'
  BY <1>1, LockStep, StoresStep, UsersStep DEF AloneInv
<1>2. ASSUME AloneInv, UNCHANGED vars PROVE AloneInv'
  BY <1>2 DEF AloneInv, vars, Typed, Stores, LockIsHeldInside, UsersNotLost
<1> QED  BY AloneInit, <1>1, <1>2, PTL DEF Spec

(* The types hold for any users, providers, requests and failures.           *)
THEOREM IdentitiesTyped == Spec => []TypeOK
<1>1. AloneInv => TypeOK
  BY DEF AloneInv, Typed, Stores, TypeOK, Ops
<1> QED  BY <1>1, AloneInvariant, PTL

(* The lock is held by one handler at a time, and by none that has ended.    *)
THEOREM LockIsExclusive == Spec => []LockIsHeldInside
BY AloneInvariant, PTL DEF AloneInv

(* No handler undoes what another wrote in the users, whatever fails.        *)
THEOREM NoUserLost == Spec => []UsersNotLost
BY AloneInvariant, PTL DEF AloneInv

-----------------------------------------------------------------------------
(* What was checked still holds when it is used                              *)

(* What a sign-up, a rejection or an approval has seen, or has done, remains *)
(* so until it is over, since it holds the lock.                             *)
AskedByStranger(o) ==
    o.kind = "submit" /\ o.pc \in {"request", "room", "saving"} => users[o.email] = NoUser

AskedOnce(o) ==
    o.kind = "submit" /\ o.pc \in {"room", "saving"} => signups[o.email] = NoRequest

HasRoom(o) ==
    o.kind = "submit" /\ o.pc = "saving" => Cardinality(Pending(o.as)) < Cap

Rejects(o) ==
    o.kind = "reject" /\ o.pc = "saving" =>
      signups[o.email] # NoRequest /\ signups[o.email].idp = o.as

Checked(o) == AskedByStranger(o) /\ AskedOnce(o) /\ HasRoom(o) /\ Rejects(o)

ChecksStand == \A r \in Reqs : Checked(op[r])

(* An approval that removes its request has written its user.                *)
Approved(o) == o.kind = "approve" /\ o.pc = "clearing" => users[o.email] # NoUser

Approvals == \A r \in Reqs : Approved(op[r])

(* What is true of a request that is over, or waits, or holds no lock.       *)
LEMMA NothingChecked ==
    ASSUME NEW o, o.pc \in {"idle", "waiting", "user"} \/ o.kind = "callback"
    PROVE  Checked(o)' /\ Approved(o)'
BY DEF Checked, Approved, AskedByStranger, AskedOnce, HasRoom, Rejects

(* Pending requests can be counted.                                          *)
LEMMA PendingIsFinite ==
    ASSUME NEW i
    PROVE  IsFiniteSet(Pending(i)) /\ Cardinality(Pending(i)) \in Nat
<1>1. Pending(i) \in SUBSET Emails
  BY DEF Pending
<1> QED  BY <1>1, EmailsAssumption, FS_Subset, FS_CardinalityType

(* A check: what the handler itself sees is so, when reads do not fail.      *)
LEMMA CheckStep ==
    ASSUME "read" \notin Faults, AloneInv, ChecksStand, NEW r \in Reqs,
           Submit(r) \/ Callback(r) \/ Ask(r) \/ Acquire(r) \/ Step(r)
    PROVE  Checked(op[r])'
<1> USE DEF AloneInv
<1>1. op[r] \in Ops /\ Shaped(op[r]) /\ Checked(op[r])
  BY DEF Typed, ChecksStand
<1>2. CASE Ends(r)
  BY <1>2, AfterEnds, NothingChecked DEF Idle
<1>3. ASSUME NEW pc, op[r] # Idle, Goes(r, pc)
      PROVE  op'[r] = Doing(pc, op[r].kind, op[r].email, op[r].as)
  BY <1>3, AfterGoes DEF Typed
<1>4. CASE Submit(r) \/ Callback(r) \/ Ask(r)
  <2>1. \E pc \in {"waiting", "user"} : \E kind, e, as :
          op' = [op EXCEPT ![r] = Doing(pc, kind, e, as)]
    BY <1>4, AfterAsking
  <2> QED  BY <2>1, NothingChecked DEF Doing, Typed
<1>5. CASE Acquire(r)
  <2>1. op'[r] = Doing(First(op[r].kind), op[r].kind, op[r].email, op[r].as)
    BY <1>5, <1>3 DEF Acquire, Idle
  <2> QED
    BY <2>1 DEF Doing, First, UserKinds, Checked, AskedByStranger, AskedOnce, HasRoom, Rejects
<1>6. CASE Refuse(r) \/ Save(r) \/ Remove(r)
  BY <1>6, <1>2 DEF Refuse, Save, Remove
<1>7. CASE CheckUser(r)
  <2>1. CASE users[op[r].email] = NoUser /\ Goes(r, "request")
    <3>1. op'[r] = Doing("request", op[r].kind, op[r].email, op[r].as)
      BY <1>7, <2>1, <1>3 DEF CheckUser, Idle
    <3>2. users' = users
      BY <1>7 DEF CheckUser
    <3> QED
      BY <2>1, <3>1, <3>2 DEF Doing, Checked, AskedByStranger, AskedOnce, HasRoom, Rejects
  <2> QED  BY <1>7, <1>2, <2>1 DEF CheckUser, Answers
<1>8. CASE CheckRequest(r)
  <2>1. op[r] # Idle /\ UNCHANGED <<users, signups>> /\ op[r].pc = "request"
    BY <1>8 DEF CheckRequest, Idle
  <2>2. CASE signups[op[r].email] = NoRequest /\ Goes(r, "room")
    <3>1. op'[r] = Doing("room", op[r].kind, op[r].email, op[r].as)
      BY <2>1, <2>2, <1>3
    <3> QED
      BY <1>1, <2>1, <2>2, <3>1 DEF Doing, Checked, AskedByStranger, AskedOnce, HasRoom, Rejects
  <2>3. CASE op[r].kind \in AdminKinds /\ signups[op[r].email] # NoRequest
               /\ Deals(r, signups[op[r].email])
    <3>1. op'[r].email = op[r].email /\ op'[r].kind = op[r].kind
            /\ op'[r].as = signups[op[r].email].idp
      BY <2>3 DEF Deals, Doing, Typed
    <3> QED
      BY <2>1, <2>3, <3>1 DEF AdminKinds, UserKinds, Checked, AskedByStranger, AskedOnce, HasRoom,
                              Rejects
  <2>4. CASE Ends(r)
    BY <2>4, <1>2
  <2> QED  BY <1>8, <2>2, <2>3, <2>4 DEF CheckRequest, Answers
<1>9. CASE CheckRoom(r)
  <2>1. CASE Cardinality(Pending(op[r].as)) < Cap /\ Goes(r, "saving") /\ op[r].kind = "submit"
    <3>1. op'[r] = Doing("saving", op[r].kind, op[r].email, op[r].as)
      BY <1>9, <2>1, <1>3 DEF CheckRoom, Idle
    <3>2. UNCHANGED <<users, signups>> /\ op[r].pc = "room"
      BY <1>9 DEF CheckRoom
    <3>3. \A i : Pending(i)' = Pending(i)
      BY <3>2 DEF Pending
    <3>4. HasRoom(op[r])'
      BY <2>1, <3>1, <3>3 DEF Doing, HasRoom
    <3> QED
      BY <1>1, <2>1, <3>1, <3>2, <3>4 DEF Doing, Checked, AskedByStranger, AskedOnce, Rejects
  <2> QED  BY <1>9, <1>2, <2>1 DEF CheckRoom, Answers
<1>10. CASE ReadUsers(r)
  <2>1. CASE Goes(r, "writing")
    <3>1. op[r] # Idle
      BY <1>10 DEF ReadUsers, Idle
    <3>2. op'[r] = Doing("writing", op[r].kind, op[r].email, op[r].as)
      BY <2>1, <3>1, <1>3
    <3> QED  BY <3>2 DEF Doing, Checked, AskedByStranger, AskedOnce, HasRoom, Rejects
  <2> QED  BY <1>10, <1>2, <2>1 DEF ReadUsers
<1>11. CASE WriteUsers(r)
  <2>1. CASE Goes(r, "clearing")
    <3>1. op[r] # Idle
      BY <1>11 DEF WriteUsers, Idle
    <3>2. op'[r] = Doing("clearing", op[r].kind, op[r].email, op[r].as)
      BY <2>1, <3>1, <1>3
    <3> QED  BY <3>2 DEF Doing, Checked, AskedByStranger, AskedOnce, HasRoom, Rejects
  <2> QED  BY <1>11, <1>2, <2>1 DEF WriteUsers
<1> QED  BY <1>4, <1>5, <1>6, <1>7, <1>8, <1>9, <1>10, <1>11 DEF Step

(* No step of another handler undoes it.                                     *)
LEMMA ChecksStep ==
    ASSUME "read" \notin Faults, AloneInv, ChecksStand, Next
    PROVE  ChecksStand'
<1> USE DEF AloneInv
<1>1. ASSUME NEW r \in Reqs, Submit(r) \/ Callback(r) \/ Ask(r) \/ Acquire(r) \/ Step(r),
             NEW t \in Reqs
      PROVE  Checked(op[t])'
  <2>1. CASE t = r
    BY <1>1, <2>1, CheckStep
  <2>2. CASE t # r /\ Holds(t)
    <3>1. UNCHANGED <<users, signups>> /\ op'[t] = op[t]
      BY <1>1, <2>2, Undisturbed
    <3>2. \A i : Pending(i)' = Pending(i)
      BY <3>1 DEF Pending
    <3>3. Checked(op[t])
      BY DEF ChecksStand
    <3> QED  BY <3>1, <3>2, <3>3 DEF Checked, AskedByStranger, AskedOnce, HasRoom, Rejects
  <2>3. CASE t # r /\ ~ Holds(t)
    <3>1. op'[t] = op[t]
      BY <1>1, <2>3, OthersWait
    <3>2. op[t].pc \in {"idle", "waiting"} \/ op[t].kind = "callback"
      BY <2>3 DEF Holds, Typed, Ops, Idle
    <3> QED  BY <3>1, <3>2, NothingChecked
  <2> QED  BY <2>1, <2>2, <2>3
<1>2. ASSUME NEW e \in Emails, NEW i \in Idps, Expire(e, i) PROVE ChecksStand'
  <2>1. UNCHANGED <<users, signups, op>>
    BY <1>2 DEF Expire
  <2> QED
    BY <2>1 DEF ChecksStand, Checked, AskedByStranger, AskedOnce, HasRoom, Rejects, Pending
<1>3. CASE Crash
  <2>1. \A t \in Reqs : op'[t] = Idle
    BY <1>3 DEF Crash
  <2> QED  BY <2>1, NothingChecked DEF ChecksStand, Idle
<1> QED  BY <1>1, <1>2, <1>3 DEF Next, ChecksStand

(* Only a handler that holds the lock changes the requests, and how.         *)
LEMMA SignupsStep ==
    ASSUME AloneInv, Next, signups' # signups
    PROVE  \E r \in Reqs :
             /\ Holds(r)
             /\ \/ /\ op[r].kind = "submit" /\ op[r].pc = "saving"
                   /\ signups' = [signups EXCEPT ![op[r].email] = Request(op[r].as, "pending")]
                \/ /\ op[r].kind = "reject" /\ op[r].pc = "saving"
                   /\ signups' = [signups EXCEPT ![op[r].email] = Request(op[r].as, "rejected")]
                \/ /\ op[r].kind \in {"approve", "drop"} /\ op[r].pc = "clearing"
                   /\ signups' = [signups EXCEPT ![op[r].email] = NoRequest]
<1>1. PICK r \in Reqs : Save(r) \/ Remove(r)
  BY DEF Next, Step, Submit, Callback, Ask, Acquire, Refuse, CheckUser, CheckRequest, CheckRoom,
         ReadUsers, WriteUsers, Expire, Crash
<1>2. Shaped(op[r])
  BY DEF AloneInv, Typed
<1>3. CASE Save(r)
  <2>1. op[r].pc = "saving" /\ op[r].kind \in {"submit", "reject"}
    BY <1>2, <1>3 DEF Save, Shaped
  <2>2. signups' = [signups EXCEPT ![op[r].email] =
                      Request(op[r].as, IF op[r].kind = "submit" THEN "pending" ELSE "rejected")]
    BY <1>3 DEF Save
  <2>3. Holds(r)
    BY <2>1 DEF Holds, Inside
  <2> QED  BY <2>1, <2>2, <2>3
<1>4. CASE Remove(r)
  <2>1. op[r].pc = "clearing" /\ op[r].kind \in {"approve", "drop"}
    BY <1>2, <1>4 DEF Remove, Shaped
  <2>2. signups' = [signups EXCEPT ![op[r].email] = NoRequest]
    BY <1>4 DEF Remove
  <2>3. Holds(r)
    BY <2>1 DEF Holds, Inside
  <2> QED  BY <2>1, <2>2, <2>3
<1> QED  BY <1>1, <1>3, <1>4

(* Storing a request adds at most itself to what waits for its IdP.          *)
LEMMA CapStep ==
    ASSUME AloneInv, ChecksStand, CapHolds, Next
    PROVE  CapHolds'
<1>1. CASE signups' = signups
  BY <1>1 DEF CapHolds, Pending
<1>2. CASE signups' # signups
  <2>1. PICK r \in Reqs :
             \/ /\ op[r].kind = "submit" /\ op[r].pc = "saving"
                /\ signups' = [signups EXCEPT ![op[r].email] = Request(op[r].as, "pending")]
             \/ signups' = [signups EXCEPT ![op[r].email] = Request(op[r].as, "rejected")]
             \/ signups' = [signups EXCEPT ![op[r].email] = NoRequest]
    BY <1>2, SignupsStep
  <2>2. signups \in [Emails -> SignupRequests]
    BY DEF AloneInv, Stores
  <2> SUFFICES ASSUME NEW i \in Idps PROVE Cardinality(Pending(i)') <= Cap
    BY DEF CapHolds
  <2>3. Cardinality(Pending(i)) <= Cap /\ Cardinality(Pending(i)) \in Nat /\ IsFiniteSet(Pending(i))
    BY PendingIsFinite DEF CapHolds
  <2>4. CASE Pending(i)' \subseteq Pending(i)
    BY <2>3, <2>4, CapAssumption, PendingIsFinite, FS_Subset, FS_CardinalityType
  <2>5. CASE ~ (Pending(i)' \subseteq Pending(i))
    <3>1. PICK e \in Emails : /\ signups'[e] = Request(i, "pending")
                              /\ signups[e] # Request(i, "pending")
      BY <2>5 DEF Pending
    <3>2. op[r].kind = "submit" /\ op[r].pc = "saving" /\ e = op[r].email
            /\ signups' = [signups EXCEPT ![op[r].email] = Request(op[r].as, "pending")]
      BY <2>1, <2>2, <3>1 DEF Request, NoRequest
    <3>3. op[r].as = i
      BY <2>2, <3>1, <3>2 DEF Request
    <3>4. Cardinality(Pending(i)) < Cap
      BY <3>2, <3>3 DEF ChecksStand, Checked, HasRoom
    <3>5. Pending(i)' \subseteq Pending(i) \cup {e}
      BY <2>2, <3>2 DEF Pending
    <3>6. /\ IsFiniteSet(Pending(i) \cup {e})
          /\ Cardinality(Pending(i) \cup {e}) <= Cardinality(Pending(i)) + 1
      BY <2>3, FS_AddElement
    <3>7. Cardinality(Pending(i)') <= Cardinality(Pending(i) \cup {e})
      BY <3>5, <3>6, FS_Subset
    <3>8. Cardinality(Pending(i)') \in Nat /\ Cardinality(Pending(i) \cup {e}) \in Nat
      BY <3>5, <3>6, FS_Subset, FS_CardinalityType
    <3> QED  BY <2>3, <3>4, <3>6, <3>7, <3>8, CapAssumption
  <2> QED  BY <2>4, <2>5
<1> QED  BY <1>1, <1>2

CheckedInv == AloneInv /\ ChecksStand /\ CapHolds

(* What was checked stands, in every state.                                  *)
LEMMA CheckedInvariant ==
    ASSUME "read" \notin Faults
    PROVE  Spec => []CheckedInv
<1>1. Init => CheckedInv
  <2> SUFFICES ASSUME Init PROVE CheckedInv
    OBVIOUS
  <2>1. ChecksStand
    BY DEF Init, Idle, ChecksStand, Checked, AskedByStranger, AskedOnce, HasRoom, Rejects
  <2>2. \A i \in Idps : Pending(i) = {}
    BY DEF Init, Pending, Request, NoRequest
  <2>3. CapHolds
    BY <2>2, FS_EmptySet, CapAssumption DEF CapHolds
  <2> QED  BY <2>1, <2>3, AloneInit DEF CheckedInv
<1>2. ASSUME CheckedInv, Next PROVE CheckedInv'
  BY <1>2, LockStep, StoresStep, UsersStep, ChecksStep, CapStep DEF CheckedInv, AloneInv
<1>3. ASSUME CheckedInv, UNCHANGED vars PROVE CheckedInv'
  BY <1>3 DEF CheckedInv, AloneInv, vars, Typed, Stores, LockIsHeldInside, UsersNotLost, CapHolds,
              Pending, ChecksStand, Checked, AskedByStranger, AskedOnce, HasRoom, Rejects
<1> QED  BY <1>1, <1>2, <1>3, PTL DEF Spec

(* Who is about to remove the request of an approval has written the user.   *)
LEMMA ClearingAfterWriting ==
    ASSUME Typed, NEW r \in Reqs, op'[r].pc = "clearing", op'[r].kind = "approve",
           Submit(r) \/ Callback(r) \/ Ask(r) \/ Acquire(r) \/ Step(r)
    PROVE  WriteUsers(r)
<1>1. Idle.pc # "clearing"
  BY DEF Idle
<1>2. ~ Ends(r)
  BY <1>1, AfterEnds
<1>3. ASSUME NEW pc, pc # "clearing", op[r] # Idle PROVE ~ Goes(r, pc)
  BY <1>3, AfterGoes DEF Doing, Typed
<1>4. CASE Submit(r) \/ Callback(r) \/ Ask(r)
  BY <1>4, AfterAsking DEF Doing, Typed
<1>5. CASE Acquire(r)
  BY <1>5, <1>3 DEF Acquire, First, Idle
<1>6. CASE Refuse(r) \/ Save(r) \/ Remove(r)
  BY <1>6, <1>2 DEF Refuse, Save, Remove
<1>7. CASE CheckUser(r)
  BY <1>7, <1>2, <1>3 DEF CheckUser, Idle
<1>8. CASE CheckRequest(r)
  <2>1. op[r] # Idle
    BY <1>8 DEF CheckRequest, Idle
  <2>2. ASSUME NEW request, Deals(r, request) PROVE FALSE
    BY <2>2 DEF Deals, Doing, Typed
  <2> QED  BY <1>8, <1>2, <1>3, <2>1, <2>2 DEF CheckRequest
<1>9. CASE CheckRoom(r)
  BY <1>9, <1>2, <1>3 DEF CheckRoom, Idle
<1>10. CASE ReadUsers(r)
  <2>1. op[r] # Idle
    BY <1>10 DEF ReadUsers, Idle
  <2>2. Ends(r) \/ Goes(r, "writing")
    BY <1>10 DEF ReadUsers
  <2> QED  BY <1>2, <1>3, <2>1, <2>2
<1> QED  BY <1>4, <1>5, <1>6, <1>7, <1>8, <1>9, <1>10 DEF Step

(* An approval that is removing its request has written its user, when       *)
(* writes do not fail.                                                       *)
LEMMA ApprovalsStep ==
    ASSUME "write" \notin Faults, AloneInv, Approvals, Next
    PROVE  Approvals'
<1> USE DEF AloneInv
<1>1. ASSUME NEW r \in Reqs, Submit(r) \/ Callback(r) \/ Ask(r) \/ Acquire(r) \/ Step(r),
             NEW t \in Reqs
      PROVE  Approved(op[t])'
  <2>1. CASE t # r /\ Holds(t)
    <3>1. UNCHANGED <<users, signups>> /\ op'[t] = op[t]
      BY <1>1, <2>1, Undisturbed
    <3> QED  BY <3>1 DEF Approvals, Approved
  <2>2. CASE t # r /\ ~ Holds(t)
    <3>1. op'[t] = op[t]
      BY <1>1, <2>2, OthersWait
    <3>2. op[t].pc \in {"idle", "waiting"} \/ op[t].kind = "callback"
      BY <2>2 DEF Holds, Typed, Ops, Idle
    <3> QED  BY <3>1, <3>2, NothingChecked
  <2>3. CASE t = r /\ WriteUsers(r)
    <3>1. op[r] \in Ops /\ Shaped(op[r]) /\ op[r].pc = "writing" /\ op[r] # Idle
      BY <2>3 DEF WriteUsers, Typed, Idle
    <3>2. CASE Ends(r)
      BY <2>3, <3>2, AfterEnds, NothingChecked DEF Idle
    <3>3. CASE op[r].kind = "approve" /\ Goes(r, "clearing")
      <4>1. users' = Changed(op[r], users)
        BY <2>3, <3>1 DEF WriteUsers, MayBeStored, UsersNotLost
      <4>2. op[r].email \in Emails /\ op[r].as # NoUser
        BY <3>1, <3>3, IdpsAssumption DEF Ops, Shaped
      <4>3. users'[op[r].email] = op[r].as
        BY <3>3, <4>1, <4>2 DEF Changed, Stores
      <4>4. op'[r].email = op[r].email
        BY <3>1, <3>3, AfterGoes DEF Doing, Typed
      <4> QED  BY <2>3, <4>2, <4>3, <4>4 DEF Approved
    <3> QED  BY <2>3, <3>2, <3>3 DEF WriteUsers
  <2>4. CASE t = r /\ ~ WriteUsers(r)
    <3>1. ~ (op'[r].pc = "clearing" /\ op'[r].kind = "approve")
      BY <1>1, <2>4, ClearingAfterWriting
    <3> QED  BY <2>4, <3>1 DEF Approved
  <2> QED  BY <2>1, <2>2, <2>3, <2>4
<1>2. ASSUME NEW e \in Emails, NEW i \in Idps, Expire(e, i) PROVE Approvals'
  BY <1>2 DEF Expire, Approvals, Approved
<1>3. CASE Crash
  <2>1. \A t \in Reqs : op'[t] = Idle
    BY <1>3 DEF Crash
  <2> QED  BY <2>1, NothingChecked DEF Approvals, Idle
<1> QED  BY <1>1, <1>2, <1>3 DEF Next, Approvals

-----------------------------------------------------------------------------
(* What follows                                                              *)

(* No IdP has more requests waiting than its cap, for any number of emails,  *)
(* codes and requests at once, when reads do not fail.                       *)
THEOREM CapIsNeverExceeded ==
    ASSUME "read" \notin Faults
    PROVE  Spec => []CapHolds
BY CheckedInvariant, PTL DEF CheckedInv

(* A request stays with its IdP, and one that was rejected stays so.         *)
THEOREM DecisionsStand ==
    ASSUME "read" \notin Faults
    PROVE  Spec => RequestsAreNotOverwritten
<1>1. ASSUME CheckedInv, [Next]_vars
      PROVE  [\A e \in Emails :
                signups[e] # NoRequest /\ signups'[e] # NoRequest =>
                  /\ signups'[e].idp = signups[e].idp
                  /\ signups[e].status = "rejected" => signups'[e].status = "rejected"]_vars
  <2>1. CASE signups' = signups
    BY <2>1
  <2>2. CASE signups' # signups
    <3>1. Next
      BY <1>1, <2>2 DEF vars
    <3>2. signups \in [Emails -> SignupRequests]
      BY <1>1 DEF CheckedInv, AloneInv, Stores
    <3>3. PICK r \in Reqs :
             \/ /\ op[r].kind = "submit" /\ op[r].pc = "saving"
                /\ signups' = [signups EXCEPT ![op[r].email] = Request(op[r].as, "pending")]
             \/ /\ op[r].kind = "reject" /\ op[r].pc = "saving"
                /\ signups' = [signups EXCEPT ![op[r].email] = Request(op[r].as, "rejected")]
             \/ signups' = [signups EXCEPT ![op[r].email] = NoRequest]
      BY <1>1, <2>2, <3>1, SignupsStep DEF CheckedInv
    <3>4. AskedOnce(op[r]) /\ Rejects(op[r])
      BY <1>1 DEF CheckedInv, ChecksStand, Checked
    <3> QED  BY <3>2, <3>3, <3>4 DEF AskedOnce, Rejects, Request
  <2> QED  BY <2>1, <2>2
<1> QED  BY CheckedInvariant, <1>1, PTL DEF Spec, RequestsAreNotOverwritten

(* Nobody who is a user is left with a new request.                          *)
THEOREM NoUserAsks ==
    ASSUME "read" \notin Faults
    PROVE  Spec => OnlyStrangersAsk
<1>1. ASSUME CheckedInv, [Next]_vars
      PROVE  [\A e \in Emails :
                signups[e] = NoRequest /\ signups'[e] # NoRequest => users[e] = NoUser]_vars
  <2>1. CASE signups' = signups
    BY <2>1
  <2>2. CASE signups' # signups
    <3>1. Next
      BY <1>1, <2>2 DEF vars
    <3>2. signups \in [Emails -> SignupRequests]
      BY <1>1 DEF CheckedInv, AloneInv, Stores
    <3>3. PICK r \in Reqs :
             \/ /\ op[r].kind = "submit" /\ op[r].pc = "saving"
                /\ signups' = [signups EXCEPT ![op[r].email] = Request(op[r].as, "pending")]
             \/ /\ op[r].kind = "reject" /\ op[r].pc = "saving"
                /\ signups' = [signups EXCEPT ![op[r].email] = Request(op[r].as, "rejected")]
             \/ signups' = [signups EXCEPT ![op[r].email] = NoRequest]
      BY <1>1, <2>2, <3>1, SignupsStep DEF CheckedInv
    <3>4. AskedByStranger(op[r]) /\ Rejects(op[r])
      BY <1>1 DEF CheckedInv, ChecksStand, Checked
    <3> QED  BY <3>2, <3>3, <3>4 DEF AskedByStranger, Rejects
  <2> QED  BY <2>1, <2>2
<1> QED  BY CheckedInvariant, <1>1, PTL DEF Spec, OnlyStrangersAsk

(* A request is only lost to its user or to an administrator, wherever the   *)
(* core dies and whatever reads fail, when writes do not.                    *)
THEOREM ApprovalLeavesAUser ==
    ASSUME "write" \notin Faults
    PROVE  Spec => ApprovedIsAUser
<1>1. Init => Approvals
  BY DEF Init, Approvals, Approved, Idle
<1>2. ASSUME AloneInv, Approvals, [Next]_vars PROVE Approvals'
  <2>1. CASE Next
    BY <1>2, <2>1, ApprovalsStep
  <2>2. CASE UNCHANGED vars
    BY <1>2, <2>2 DEF vars, Approvals, Approved
  <2> QED  BY <1>2, <2>1, <2>2
<1>3. ASSUME AloneInv, Approvals, [Next]_vars
      PROVE  [\A e \in Emails :
                signups[e] # NoRequest /\ signups'[e] = NoRequest =>
                  \/ users[e] # NoUser
                  \/ \E r \in Reqs : op[r].kind = "drop" /\ op[r].email = e]_vars
  <2>1. CASE signups' = signups
    BY <2>1
  <2>2. CASE signups' # signups
    <3>1. Next
      BY <1>3, <2>2 DEF vars
    <3>2. signups \in [Emails -> SignupRequests]
      BY <1>3 DEF AloneInv, Stores
    <3>3. PICK r \in Reqs :
             \/ \E status \in {"pending", "rejected"} :
                  signups' = [signups EXCEPT ![op[r].email] = Request(op[r].as, status)]
             \/ /\ op[r].kind \in {"approve", "drop"} /\ op[r].pc = "clearing"
                /\ signups' = [signups EXCEPT ![op[r].email] = NoRequest]
      BY <1>3, <2>2, <3>1, SignupsStep
    <3>4. Approved(op[r])
      BY <1>3 DEF Approvals
    <3> QED  BY <3>2, <3>3, <3>4 DEF Approved, Request, NoRequest
  <2> QED  BY <2>1, <2>2
<1> QED  BY AloneInvariant, <1>1, <1>2, <1>3, PTL DEF Spec, ApprovedIsAUser

-----------------------------------------------------------------------------
(* The accounts are atomic                                                   *)

(* An approval goes on with a request that is there, of the IdP it is bound  *)
(* to, and is about to write somebody who is not a user.                     *)
Admits(o) ==
    o.kind = "approve" =>
      /\ o.pc \in {"users", "writing"} =>
           signups[o.email] # NoRequest /\ signups[o.email].idp = o.as
      /\ o.pc = "writing" => users[o.email] = NoUser

Admissions == \A r \in Reqs : Admits(op[r])

(* The step of the handler itself.                                           *)
LEMMA AdmitStep ==
    ASSUME "read" \notin Faults, AloneInv, NEW r \in Reqs, Admits(op[r]),
           Submit(r) \/ Callback(r) \/ Ask(r) \/ Acquire(r) \/ Step(r)
    PROVE  Admits(op[r])'
<1> USE DEF AloneInv
<1>1. op[r] \in Ops /\ Shaped(op[r])
  BY DEF Typed
<1>2. CASE Ends(r)
  BY <1>2, AfterEnds DEF Idle, Admits
<1>2a. ASSUME NEW pc, op[r] # Idle, Goes(r, pc)
      PROVE  op'[r] = Doing(pc, op[r].kind, op[r].email, op[r].as)
  BY <1>2a, AfterGoes DEF Typed
<1>3. ASSUME NEW pc, pc \notin {"users", "writing"}, op[r] # Idle, Goes(r, pc)
      PROVE  Admits(op[r])'
  <2>1. op'[r] = Doing(pc, op[r].kind, op[r].email, op[r].as)
    BY <1>3, <1>2a
  <2>2. op'[r].pc = pc
    BY <2>1 DEF Doing
  <2> QED  BY <1>3, <2>2 DEF Admits
<1>4. CASE Submit(r) \/ Callback(r) \/ Ask(r)
  <2>1. PICK pc \in {"waiting", "user"} : \E kind, e, as :
          op' = [op EXCEPT ![r] = Doing(pc, kind, e, as)]
    BY <1>4, AfterAsking
  <2>2. op'[r].pc = pc
    BY <2>1 DEF Doing, Typed
  <2> QED  BY <2>2 DEF Admits
<1>5. CASE Acquire(r)
  <2>1. op'[r] = Doing(First(op[r].kind), op[r].kind, op[r].email, op[r].as)
    BY <1>5, <1>2a DEF Acquire, Idle
  <2> QED  BY <2>1 DEF Doing, First, UserKinds, Admits
<1>6. CASE Refuse(r) \/ Save(r) \/ Remove(r)
  BY <1>6, <1>2 DEF Refuse, Save, Remove
<1>7. CASE CheckUser(r)
  BY <1>7, <1>2, <1>3 DEF CheckUser, Idle
<1>8. CASE CheckRequest(r)
  <2>1. op[r] # Idle /\ UNCHANGED <<users, signups>>
    BY <1>8 DEF CheckRequest, Idle
  <2>2. CASE op[r].kind \in AdminKinds /\ signups[op[r].email] # NoRequest
               /\ Deals(r, signups[op[r].email])
    <3>1. op[r].kind \in {"approve", "reject", "drop"}
      BY <1>1, <1>8, <2>2 DEF CheckRequest, Shaped, AdminKinds
    <3>2. \E pc \in {"users", "saving", "clearing"} :
            op'[r] = Doing(pc, op[r].kind, op[r].email, signups[op[r].email].idp)
      BY <2>2, <3>1 DEF Deals, Typed
    <3> QED  BY <2>1, <2>2, <3>2 DEF Doing, Admits
  <2> QED  BY <1>8, <1>2, <1>3, <2>1, <2>2 DEF CheckRequest, Answers
<1>9. CASE CheckRoom(r)
  BY <1>9, <1>2, <1>3 DEF CheckRoom, Idle
<1>10. CASE ReadUsers(r)
  <2>1. CASE Goes(r, "writing") /\ Applies(op[r], users)
    <3>1. UNCHANGED <<users, signups>> /\ op[r].pc = "users" /\ op[r] # Idle
      BY <1>10 DEF ReadUsers, Idle
    <3>2. op'[r] = Doing("writing", op[r].kind, op[r].email, op[r].as)
      BY <2>1, <3>1, <1>2a
    <3> QED  BY <2>1, <3>1, <3>2 DEF Doing, Applies, Admits
  <2> QED  BY <1>10, <1>2, <2>1 DEF ReadUsers
<1>11. CASE WriteUsers(r)
  BY <1>11, <1>2, <1>3 DEF WriteUsers, Idle
<1> QED  BY <1>4, <1>5, <1>6, <1>7, <1>8, <1>9, <1>10, <1>11 DEF Step

(* No step of another handler undoes it.                                     *)
LEMMA AdmissionsStep ==
    ASSUME "read" \notin Faults, AloneInv, Admissions, Next
    PROVE  Admissions'
<1> USE DEF AloneInv
<1>1. ASSUME NEW r \in Reqs, Submit(r) \/ Callback(r) \/ Ask(r) \/ Acquire(r) \/ Step(r),
             NEW t \in Reqs
      PROVE  Admits(op[t])'
  <2>1. CASE t = r
    BY <1>1, <2>1, AdmitStep DEF Admissions
  <2>2. CASE t # r /\ Holds(t)
    <3>1. UNCHANGED <<users, signups>> /\ op'[t] = op[t]
      BY <1>1, <2>2, Undisturbed
    <3> QED  BY <3>1 DEF Admissions, Admits
  <2>3. CASE t # r /\ ~ Holds(t)
    <3>1. op'[t] = op[t]
      BY <1>1, <2>3, OthersWait
    <3>2. op[t].pc \in {"idle", "waiting"} \/ op[t].kind = "callback"
      BY <2>3 DEF Holds, Typed, Ops, Idle
    <3> QED  BY <3>1, <3>2 DEF Admits
  <2> QED  BY <2>1, <2>2, <2>3
<1>2. ASSUME NEW e \in Emails, NEW i \in Idps, Expire(e, i) PROVE Admissions'
  BY <1>2 DEF Expire, Admissions, Admits
<1>3. CASE Crash
  BY <1>3 DEF Crash, Admissions, Admits, Idle
<1> QED  BY <1>1, <1>2, <1>3 DEF Next, Admissions

(* All that the handlers rely on, in every state.                            *)
AtomicInv == CheckedInv /\ Approvals /\ Admissions

LEMMA AtomicInvariant ==
    ASSUME "read" \notin Faults, "write" \notin Faults
    PROVE  Spec => []AtomicInv
<1>1. Init => Approvals /\ Admissions
  BY DEF Init, Approvals, Approved, Admissions, Admits, Idle
<1>2. ASSUME CheckedInv, Approvals, Admissions, [Next]_vars
      PROVE  Approvals' /\ Admissions'
  <2>1. CASE Next
    BY <1>2, <2>1, ApprovalsStep, AdmissionsStep DEF CheckedInv
  <2>2. CASE UNCHANGED vars
    BY <1>2, <2>2 DEF vars, Approvals, Approved, Admissions, Admits
  <2> QED  BY <1>2, <2>1, <2>2
<1> QED  BY CheckedInvariant, <1>1, <1>2, PTL DEF Spec, AtomicInv

LEMMA InitIsAtomic == Init => Atomic!Init
BY DEF Init, Atomic!Init, Atomic!Nothing, OrderOf, Idle

(* A handler that goes on is still asked for the same.                       *)
LEMMA SameOrder ==
    ASSUME Typed, NEW r \in Reqs, NEW pc, Goes(r, pc), op[r] # Idle
    PROVE  OrderOf(op'[r]) = OrderOf(op[r])
<1>1. op'[r] = Doing(pc, op[r].kind, op[r].email, op[r].as)
  BY AfterGoes DEF Typed
<1> QED  BY <1>1 DEF OrderOf, Doing

(* Each step of a handler is a step of the accounts, or changes nothing that *)
(* an administrator can see.                                                 *)
LEMMA HandlerIsAtomic ==
    ASSUME "write" \notin Faults, AtomicInv, NEW r \in Reqs,
           Submit(r) \/ Callback(r) \/ Ask(r) \/ Acquire(r) \/ Step(r)
    PROVE  [Atomic!Next]_(Atomic!vars)
<1> DEFINE orders == [q \in Reqs |-> OrderOf(op[q])]
<1> USE DEF AtomicInv, CheckedInv, AloneInv
<1>1. op \in [Reqs -> Ops] /\ op[r] \in Ops /\ Shaped(op[r])
  BY DEF Typed
<1>2. ASSUME NEW o, op' = [op EXCEPT ![r] = o]
      PROVE  orders' = [orders EXCEPT ![r] = OrderOf(o)]
  BY <1>1, <1>2
<1>3. ASSUME Ends(r)
      PROVE  Atomic!Close(r)
  <2>1. orders' = [orders EXCEPT ![r] = OrderOf(Idle)]
    BY <1>2, <1>3 DEF Ends
  <2> QED  BY <2>1 DEF OrderOf, Idle, Atomic!Close, Atomic!Nothing
<1>4. ASSUME Ends(r), UNCHANGED <<users, signups>>
      PROVE  Atomic!Next
  BY <1>3, <1>4 DEF Atomic!Refuse, Atomic!Next
(* What a handler does between its first check and its write is not seen.    *)
<1>5. ASSUME NEW o, op' = [op EXCEPT ![r] = o], OrderOf(o) = OrderOf(op[r]),
             UNCHANGED <<users, signups>>
      PROVE  UNCHANGED Atomic!vars
  <2>1. orders' = orders
    BY <1>2, <1>5
  <2> QED  BY <1>5, <2>1 DEF Atomic!vars
<1>6. ASSUME NEW pc, Goes(r, pc), op[r] # Idle
      PROVE  /\ op' = [op EXCEPT ![r] = Doing(pc, op[r].kind, op[r].email, op[r].as)]
             /\ OrderOf(Doing(pc, op[r].kind, op[r].email, op[r].as)) = OrderOf(op[r])
  BY <1>6, AfterGoes DEF OrderOf, Doing
<1>7. ASSUME NEW pc, Goes(r, pc), op[r] # Idle, UNCHANGED <<users, signups>>
      PROVE  UNCHANGED Atomic!vars
  BY <1>5, <1>6, <1>7
<1>8. CASE Submit(r)
  <2>1. PICK e \in Emails, i \in Idps :
          op' = [op EXCEPT ![r] = Doing("waiting", "submit", e, i)]
    BY <1>8 DEF Submit
  <2>2. OrderOf(Doing("waiting", "submit", e, i)) \in Atomic!Orders
    BY DEF OrderOf, Doing, Atomic!Orders
  <2>3. orders[r] = Atomic!Nothing /\ UNCHANGED <<users, signups>>
    BY <1>8 DEF Submit, OrderOf, Idle, Atomic!Nothing
  <2> QED  BY <1>2, <2>1, <2>2, <2>3 DEF Atomic!Order, Atomic!Next
<1>9. CASE Ask(r)
  <2>1. PICK kind \in AdminKinds, e \in Emails, as \in Accounts \cup {NoIdp} :
          /\ as # NoIdp <=> kind = "put"
          /\ op' = [op EXCEPT ![r] = Doing("waiting", kind, e, as)]
    BY <1>9, Zenon DEF Ask
  <2>2. OrderOf(Doing("waiting", kind, e, as)) \in Atomic!Orders
    BY <2>1 DEF OrderOf, Doing, Atomic!Orders, AdminKinds, UserKinds, Accounts
  <2>3. orders[r] = Atomic!Nothing /\ UNCHANGED <<users, signups>>
    BY <1>9 DEF Ask, OrderOf, Idle, Atomic!Nothing
  <2> QED  BY <1>2, <2>1, <2>2, <2>3 DEF Atomic!Order, Atomic!Next
<1>10. CASE Callback(r)
  <2>1. PICK e \in Emails, i \in Idps : op' = [op EXCEPT ![r] = Doing("user", "callback", e, i)]
    BY <1>10 DEF Callback
  <2>2. OrderOf(Doing("user", "callback", e, i)) = OrderOf(op[r])
    BY <1>10 DEF Callback, OrderOf, Doing, Idle
  <2> QED  BY <1>5, <1>10, <2>1, <2>2 DEF Callback
<1>11. CASE Acquire(r)
  BY <1>7, <1>11 DEF Acquire, Idle
<1>12. CASE Refuse(r)
  BY <1>4, <1>12 DEF Refuse
<1>13. CASE CheckUser(r)
  BY <1>4, <1>7, <1>13 DEF CheckUser, Idle
<1>14. CASE CheckRequest(r)
  <2>1. op[r] # Idle /\ UNCHANGED <<users, signups>>
    BY <1>14 DEF CheckRequest, Idle
  <2>2. ASSUME NEW request, op[r].kind \in AdminKinds, Deals(r, request)
        PROVE  UNCHANGED Atomic!vars
    <3>1. op[r].kind \in {"approve", "reject", "drop"}
      BY <1>1, <1>14, <2>2 DEF CheckRequest, Shaped, AdminKinds
    <3>2. PICK pc : op' = [op EXCEPT ![r] = Doing(pc, op[r].kind, op[r].email, request.idp)]
      BY <2>2 DEF Deals
    <3>3. OrderOf(Doing(pc, op[r].kind, op[r].email, request.idp)) = OrderOf(op[r])
      BY <3>1 DEF OrderOf, Doing
    <3> QED  BY <1>5, <2>1, <3>2, <3>3
  <2> QED  BY <1>4, <1>7, <1>14, <2>1, <2>2 DEF CheckRequest
<1>15. CASE CheckRoom(r)
  BY <1>4, <1>7, <1>15 DEF CheckRoom, Idle
<1>16. CASE ReadUsers(r)
  BY <1>4, <1>7, <1>16 DEF ReadUsers, Idle
<1>17. CASE Save(r)
  <2>1. /\ op[r].pc = "saving" /\ op[r].kind \in {"submit", "reject"}
        /\ signups' = [signups EXCEPT ![op[r].email] =
             Request(op[r].as, IF op[r].kind = "submit" THEN "pending" ELSE "rejected")]
        /\ users' = users /\ Atomic!Close(r)
    BY <1>1, <1>3, <1>17 DEF Save, MayBeStored, Shaped
  <2>2. /\ orders[r].kind = op[r].kind /\ orders[r].email = op[r].email
        /\ op[r].kind = "submit" => orders[r].as = op[r].as
    BY <2>1 DEF OrderOf
  <2>3. Checked(op[r])
    BY DEF ChecksStand
  <2>4. CASE op[r].kind = "submit"
    <3>1. users[op[r].email] = NoUser /\ signups[op[r].email] = NoRequest
      BY <2>1, <2>3, <2>4 DEF Checked, AskedByStranger, AskedOnce
    <3>2. Cardinality(Atomic!Waiting(op[r].as)) < Cap
      BY <2>1, <2>3, <2>4
         DEF Checked, HasRoom, Pending, Request, Atomic!Waiting, Atomic!Request
    <3>3. signups' = [signups EXCEPT ![op[r].email] = Atomic!Request(op[r].as, "pending")]
      BY <2>1, <2>4 DEF Request, Atomic!Request
    <3>4. orders[r].as = op[r].as /\ orders[r].kind = "submit" /\ orders[r].email = op[r].email
      BY <2>2, <2>4
    <3>5. \A S : Atomic!Cardinality(S) = Cardinality(S)
      BY Zenon DEF Cardinality, Atomic!Cardinality
    <3>6. Atomic!SignUp(r)
      BY <2>1, <3>1, <3>2, <3>3, <3>4, <3>5, Zenon DEF Atomic!SignUp
    <3> QED  BY <3>6 DEF Atomic!Next
  <2>5. CASE op[r].kind = "reject"
    <3>1. signups[op[r].email] # NoRequest /\ signups[op[r].email].idp = op[r].as
      BY <2>1, <2>3, <2>5 DEF Checked, Rejects
    <3>2. signups[op[r].email] \in [idp : Idps, status : {"pending", "rejected"}]
      BY <1>1, <2>1, <3>1 DEF Stores, SignupRequests, Ops, Idle
    <3>3. [signups[op[r].email] EXCEPT !.status = "rejected"] = Request(op[r].as, "rejected")
      BY <3>1, <3>2 DEF Request
    <3>4. signups' = [signups EXCEPT ![op[r].email].status = "rejected"]
      BY <2>1, <2>5, <3>3
    <3>6. Atomic!Reject(r)
      BY <2>1, <2>2, <2>5, <3>1, <3>4, Zenon DEF Atomic!Reject
    <3> QED  BY <3>6 DEF Atomic!Next
  <2> QED  BY <2>1, <2>4, <2>5
<1>18. CASE WriteUsers(r)
  <2>1. /\ op[r].pc = "writing" /\ op[r] # Idle /\ op[r].kind \in UserKinds \cup {"approve"}
        /\ users' = Changed(op[r], users) /\ signups' = signups
    BY <1>1, <1>18 DEF WriteUsers, MayBeStored, UsersNotLost, Shaped, Idle
  <2>2. /\ orders[r].kind = op[r].kind /\ orders[r].email = op[r].email
        /\ op[r].kind = "put" => orders[r].as = op[r].as
    BY <2>1 DEF OrderOf, UserKinds
  <2>3. CASE op[r].kind = "approve"
    <3>1. /\ signups[op[r].email] # NoRequest /\ signups[op[r].email].idp = op[r].as
          /\ users[op[r].email] = NoUser
      BY <2>1, <2>3 DEF Admissions, Admits
    <3>2. orders' = orders
      BY <1>2, <1>6, <1>18, <2>1, <2>3 DEF WriteUsers
    <3>3. users' = [users EXCEPT ![op[r].email] = signups[op[r].email].idp]
      BY <2>1, <2>3, <3>1 DEF Changed
    <3>6. Atomic!Admit(r)
      BY <2>1, <2>2, <2>3, <3>1, <3>2, <3>3, Zenon DEF Atomic!Admit
    <3> QED  BY <3>6 DEF Atomic!Next
  <2>4. CASE op[r].kind \in {"put", "remove"}
    <3>1. Atomic!Close(r)
      BY <1>3, <1>18, <2>4 DEF WriteUsers
    <3>2. users' = [users EXCEPT ![op[r].email] = IF op[r].kind = "put" THEN op[r].as ELSE NoUser]
      BY <2>1, <2>4 DEF Changed
    <3>6. Atomic!SetUser(r)
      BY <2>1, <2>2, <2>4, <3>1, <3>2, Zenon DEF Atomic!SetUser
    <3> QED  BY <3>6 DEF Atomic!Next
  <2>5. CASE op[r].kind = "password"
    BY <1>4, <1>18, <2>1, <2>5 DEF WriteUsers, Changed
  <2> QED  BY <2>1, <2>3, <2>4, <2>5 DEF UserKinds
<1>19. CASE Remove(r)
  <2>1. /\ op[r].pc = "clearing" /\ op[r].kind \in {"approve", "drop"}
        /\ signups' = [signups EXCEPT ![op[r].email] = NoRequest]
        /\ users' = users /\ Atomic!Close(r)
    BY <1>1, <1>3, <1>19 DEF Remove, MayBeStored, Shaped
  <2>2. orders[r].kind = op[r].kind /\ orders[r].email = op[r].email
    BY <2>1 DEF OrderOf
  <2>3. op[r].kind = "approve" => users[op[r].email] # NoUser
    BY <2>1 DEF Approvals, Approved
  <2>4. Atomic!Forget(r)
    BY <2>1, <2>2, <2>3, Zenon DEF Atomic!Forget
  <2> QED  BY <2>4 DEF Atomic!Next
<1> QED
  BY <1>8, <1>9, <1>10, <1>11, <1>12, <1>13, <1>14, <1>15, <1>16, <1>17, <1>18, <1>19 DEF Step

(* So is everything else that happens.                                       *)
LEMMA StepIsAtomic ==
    ASSUME "write" \notin Faults, AtomicInv, [Next]_vars
    PROVE  [Atomic!Next]_(Atomic!vars)
<1>1. ASSUME NEW e \in Emails, NEW i \in Idps, Expire(e, i) PROVE UNCHANGED Atomic!vars
  BY <1>1 DEF Expire, Atomic!vars
<1>2. CASE Crash
  <2>1. [q \in Reqs |-> OrderOf(op[q])]' = [q \in Reqs |-> Atomic!Nothing]
    BY <1>2 DEF Crash, OrderOf, Idle, Atomic!Nothing
  <2> QED  BY <1>2, <2>1 DEF Crash, Atomic!Crash, Atomic!Next
<1>3. CASE UNCHANGED vars
  BY <1>3 DEF vars, Atomic!vars
<1> QED  BY <1>1, <1>2, <1>3, HandlerIsAtomic DEF Next

(* When the Secrets can be read and written, the administrators may take     *)
(* each request for one atomic change of the accounts, of which it touches   *)
(* one, on top of all that others did before; an approval for two.           *)
THEOREM AccountsImplemented ==
    ASSUME "read" \notin Faults, "write" \notin Faults
    PROVE  Spec => AccountsAreAtomic
<1> QED
  BY InitIsAtomic, AtomicInvariant, StepIsAtomic, PTL DEF Spec, AccountsAreAtomic, Atomic!Spec
=============================================================================
