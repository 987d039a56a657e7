--------------------------- MODULE AccountsProofs ---------------------------
(***************************************************************************)
(* Accounts and tokens, for any number of accounts and requests: sessions  *)
(* come in pairs and only to active accounts, a token is used up only by   *)
(* its own activation, and no account is written over a newer version.     *)
(***************************************************************************)
EXTENDS Accounts, TLAPS

USE NoneAssumption

-----------------------------------------------------------------------------
(* The inductive invariant.  q is the record of a request. *)

\* What a request has claimed at each of its statements.
LoginAt(q) ==
    \/ /\ q.pc = "claim" /\ q.slots = {}
       /\ q.todo = <<"authorization", "refresh">>
    \/ /\ q.pc = "fk" /\ q.slots = {"authorization"}
       /\ q.todo = <<"authorization", "refresh">>
    \/ q.pc = "claim" /\ q.slots = {"authorization"} /\ q.todo = <<"refresh">>
    \/ /\ q.pc = "fk" /\ q.slots = {"authorization", "refresh"}
       /\ q.todo = <<"refresh">>
    \/ q.pc = "commit" /\ q.slots = {"authorization", "refresh"}

IssueAt(q) ==
    \/ q.pc = "claim" /\ q.slots = {} /\ q.todo = <<"activation">>
    \/ q.pc = "fk" /\ q.slots = {"activation"} /\ q.todo = <<"activation">>
    \/ q.pc = "commit" /\ q.slots = {"activation"}

ActivateAt(q) ==
    \/ q.pc \in {"user", "update", "delete"} /\ q.slots = {}
    \/ q.pc = "commit" /\ q.slots \subseteq {"activation"} /\ q.gone = q.slots

Shape(q) ==
    \/ q.pc = "idle" /\ q.op = "none" /\ q.slots = {}
    \/ /\ q.user \in Users /\ q.text \in Texts
       /\ \/ q.op = "login" /\ LoginAt(q)
          \/ q.op = "issue" /\ IssueAt(q)
          \/ q.op = "activate" /\ ActivateAt(q) /\ q.share = FALSE

Holds(q) == q.op = "activate" /\ q.pc \in {"delete", "commit"}

\* What a request knows of its account and of the token that it uses.
Knows(q) ==
    /\ q.op # "none" => user[q.user].state # "none"
    /\ q.op = "login" => user[q.user].state = "active"
    /\ Holds(q) => q.version = user[q.user].version
    /\ q.op = "activate" /\ "activation" \in q.slots =>
          token[q.user]["activation"] = q.text
    /\ q.pc = "fk" => token[q.user][Head(q.todo)] = None

\* Requests of one account do not hold the same rows.
Apart(p, q) ==
    p.user = q.user => p.slots \cap q.slots = {} /\ ~(Holds(p) /\ Holds(q))

\* No token without its account, which starts at version 0.
Tables ==
    \A u \in Users : user[u].state = "none" =>
        user[u].version = 0 /\ \A scope \in Scopes : token[u][scope] = None

IInv ==
    /\ TypeOK
    /\ Tables
    /\ SessionPair
    /\ SessionsOnlyForActive
    /\ \A r \in Requests : Shape(request[r]) /\ Knows(request[r])
    /\ \A r, q \in Requests : r # q => Apart(request[r], request[q])

-----------------------------------------------------------------------------
(* Steps *)

\* A step that only changes the record of one request.
LEMMA Moves ==
    ASSUME IInv, NEW r \in Requests, NEW q \in RequestRecords,
           request' = [request EXCEPT ![r] = q],
           user' = user, token' = token,
           drawn' \in SUBSET Texts, expired' \in SUBSET drawn',
           Shape(q), Knows(q),
           \A p \in Requests \ {r} : Apart(q, request[p])
    PROVE  IInv'
<1>1. request \in [Requests -> RequestRecords]
    BY DEF IInv, TypeOK
<1>2. request'[r] = q /\ \A p \in Requests \ {r} : request'[p] = request[p]
    BY <1>1
<1>3. TypeOK'
    BY <1>1 DEF IInv, TypeOK
<1>4. Tables' /\ SessionPair' /\ SessionsOnlyForActive'
    BY DEF IInv, Tables, SessionPair, SessionsOnlyForActive
<1>5. ASSUME NEW p \in Requests  PROVE Shape(request[p])' /\ Knows(request[p])'
    <2>1. CASE p = r
        BY <1>2, <2>1 DEF Shape, LoginAt, IssueAt, ActivateAt, Knows, Holds
    <2>2. CASE p # r
        <3>1. Shape(request[p]) /\ Knows(request[p])
            BY DEF IInv
        <3> QED
            BY <1>2, <2>2, <3>1
            DEF Shape, LoginAt, IssueAt, ActivateAt, Knows, Holds
    <2> QED
        BY <2>1, <2>2
<1>6. ASSUME NEW p \in Requests, NEW w \in Requests, p # w
      PROVE  Apart(request[p], request[w])'
    <2>1. CASE p = r \/ w = r
        BY <1>2, <1>6, <2>1 DEF Apart, Holds
    <2>2. CASE p # r /\ w # r
        <3>1. Apart(request[p], request[w])
            BY <1>6 DEF IInv
        <3> QED
            BY <1>2, <2>2, <3>1 DEF Apart, Holds
    <2> QED
        BY <2>1, <2>2
<1> QED
    BY <1>3, <1>4, <1>5, <1>6 DEF IInv

\* What the invariant says of a request and of its relation to another.
LEMMA Known ==
    ASSUME IInv, NEW r \in Requests
    PROVE  /\ request[r] \in RequestRecords
           /\ Shape(request[r]) /\ Knows(request[r])
           /\ \A p \in Requests \ {r} : Apart(request[r], request[p])
BY DEF IInv, TypeOK

\* A request that is over holds and knows nothing.
LEMMA IdleRecord ==
    /\ Idle \in RequestRecords /\ Shape(Idle) /\ Knows(Idle)
    /\ \A q : Apart(Idle, q) /\ Apart(q, Idle)
<1>1. Idle \in RequestRecords
    BY DEF Idle, RequestRecords
<1>2. Shape(Idle) /\ Knows(Idle)
    BY DEF Idle, Shape, Knows, Holds
<1>3. \A q : Apart(Idle, q) /\ Apart(q, Idle)
    BY DEF Idle, Apart, Holds
<1> QED
    BY <1>1, <1>2, <1>3

\* A request that ends without effect holds nothing.
LEMMA FinishStep ==
    ASSUME IInv, NEW r \in Requests, Finish(r),
           UNCHANGED <<user, token, drawn, expired>>
    PROVE  IInv'
<1>1. drawn' \in SUBSET Texts /\ expired' \in SUBSET drawn'
    BY DEF IInv, TypeOK
<1>2. request' = [request EXCEPT ![r] = Idle] /\ user' = user /\ token' = token
    BY DEF Finish
<1> QED
    BY <1>1, <1>2, IdleRecord, Moves

\* A step of a request that goes on with its account and its text.
LEMMA GoesOn ==
    ASSUME IInv, NEW r \in Requests, NEW q \in RequestRecords,
           request' = [request EXCEPT ![r] = q],
           UNCHANGED <<user, token, drawn, expired>>,
           Shape(q), Knows(q), q.user = request[r].user,
           \A p \in Requests \ {r} : request[p].user = q.user =>
              /\ (q.slots \ request[r].slots) \cap request[p].slots = {}
              /\ Holds(q) => Holds(request[r]) \/ ~Holds(request[p])
    PROVE  IInv'
<1>1. drawn' \in SUBSET Texts /\ expired' \in SUBSET drawn'
    BY DEF IInv, TypeOK
<1>2. \A p \in Requests \ {r} : Apart(q, request[p])
    BY Known DEF Apart
<1> QED
    BY <1>1, <1>2, Moves

\* An activation starts with the token that was found.
LEMMA ActivateStartStep ==
    ASSUME IInv, NEW r \in Requests, NEW u \in Users, NEW t \in Texts,
           ActivateStart(r, u, t)
    PROVE  IInv'
<1> DEFINE q == [Idle EXCEPT !.pc = "user", !.op = "activate", !.user = u,
                             !.text = t]
<1>1. q \in RequestRecords
    <2>1. <<>> \in Seq(Scopes)
        OBVIOUS
    <2> QED
        BY <2>1 DEF Idle, RequestRecords
<1>2. user[u].state # "none"
    BY DEF IInv, Tables, ActivateStart, Scopes
<1>3. Shape(q) /\ Knows(q)
    BY <1>2 DEF Idle, Shape, ActivateAt, Knows, Holds
<1>4. \A p \in Requests \ {r} : Apart(q, request[p])
    BY DEF Idle, Apart, Holds
<1>5. /\ request' = [request EXCEPT ![r] = q] /\ user' = user /\ token' = token
      /\ drawn' \in SUBSET Texts /\ expired' \in SUBSET drawn'
    BY DEF ActivateStart, IInv, TypeOK
<1> HIDE DEF q
<1> QED
    BY <1>1, <1>3, <1>4, <1>5, Moves

\* A new token or a login starts.
LEMMA UpsertStartStep ==
    ASSUME IInv, NEW r \in Requests, NEW u \in Users, NEW t \in Texts,
           IssueStart(r, u, t) \/ LoginStart(r, u, t)
    PROVE  IInv'
<1>1. PICK op \in {"issue", "login"}, todo \in Seq(Scopes) :
        /\ UpsertStart(r, op, u, t, todo)
        /\ op = "issue" => todo = <<"activation">> /\ user[u].state = "inactive"
        /\ op = "login" => /\ todo = <<"authorization", "refresh">>
                           /\ user[u].state = "active"
    <2>1. /\ <<"activation">> \in Seq(Scopes)
          /\ <<"authorization", "refresh">> \in Seq(Scopes)
        BY DEF Scopes
    <2> QED
        BY <2>1 DEF IssueStart, LoginStart
<1> DEFINE q == [Idle EXCEPT !.pc = "claim", !.op = op, !.user = u, !.text = t,
                             !.todo = todo]
<1>2. q \in RequestRecords
    BY DEF Idle, RequestRecords
<1>3. Shape(q) /\ Knows(q)
    BY <1>1 DEF Idle, Shape, IssueAt, LoginAt, Knows, Holds
<1>4. \A p \in Requests \ {r} : Apart(q, request[p])
    BY DEF Idle, Apart, Holds
<1>5. /\ request' = [request EXCEPT ![r] = q] /\ user' = user /\ token' = token
      /\ drawn' \in SUBSET Texts /\ expired' \in SUBSET drawn'
    BY <1>1 DEF UpsertStart, IInv, TypeOK
<1> HIDE DEF q
<1> QED
    BY <1>2, <1>3, <1>4, <1>5, Moves

\* The statements of an activation.
LEMMA GetUserByIDStep ==
    ASSUME IInv, NEW r \in Requests, GetUserByID(r)
    PROVE  IInv'
<1> DEFINE q == [request[r] EXCEPT !.pc = "update",
                                   !.version = user[request[r].user].version]
<1>1. /\ request[r] \in RequestRecords /\ Shape(request[r])
      /\ Knows(request[r]) /\ request[r].op = "activate"
      /\ request[r].pc = "user"
    BY Known DEF GetUserByID, At
<1>2. q \in RequestRecords
    <2>1. request[r].user \in Users
        BY <1>1 DEF Shape
    <2>2. user[request[r].user].version \in Nat
        BY <2>1 DEF IInv, TypeOK, UserRows
    <2> QED
        BY <1>1, <2>2 DEF RequestRecords
<1>3. Shape(q) /\ Knows(q)
    BY <1>1 DEF RequestRecords, Shape, ActivateAt, Knows, Holds
<1>4. /\ request' = [request EXCEPT ![r] = q]
      /\ UNCHANGED <<user, token, drawn, expired>>
    BY DEF GetUserByID
<1>5. q.user = request[r].user /\ q.slots = request[r].slots /\ ~Holds(q)
    BY <1>1 DEF RequestRecords, Holds
<1> HIDE DEF q
<1> QED
    BY <1>2, <1>3, <1>4, <1>5, GoesOn

\* The UPDATE gets the account if nobody shares it, in the version read.
LEMMA UpdateUserStep ==
    ASSUME IInv, NEW r \in Requests, UpdateUser(r)
    PROVE  IInv'
<1> DEFINE q == [request[r] EXCEPT !.pc = "delete"]
<1>1. /\ request[r] \in RequestRecords /\ Shape(request[r])
      /\ Knows(request[r]) /\ request[r].op = "activate"
      /\ request[r].pc = "update"
    BY Known DEF UpdateUser, At
<1>2. CASE Finish(r)
    BY <1>2, FinishStep DEF UpdateUser
<1>3. CASE Step(r, "delete") /\ user[request[r].user].version = request[r].version
    <2>1. q \in RequestRecords
        BY <1>1 DEF RequestRecords
    <2>2. Shape(q) /\ Knows(q)
        BY <1>1, <1>3 DEF RequestRecords, Shape, ActivateAt, Knows, Holds
    <2>3. /\ request' = [request EXCEPT ![r] = q]
          /\ UNCHANGED <<user, token, drawn, expired>>
        BY <1>3 DEF UpdateUser, Step
    <2>4. q.user = request[r].user /\ q.slots = request[r].slots
        BY <1>1 DEF RequestRecords
    <2>5. \A p \in Requests \ {r} : request[p].user = request[r].user =>
            ~Holds(request[p])
        <3>1. \A p \in Others(r) : ~HoldsUser(p)
            BY <1>1 DEF UpdateUser, Blockers
        <3> QED
            BY <3>1 DEF Others, HoldsUser, Holds
    <2> HIDE DEF q
    <2> QED
        BY <2>1, <2>2, <2>3, <2>4, <2>5, GoesOn
<1> QED
    BY <1>2, <1>3 DEF UpdateUser

\* The DELETE takes the slot of the token that is used, if it is there.
LEMMA DeleteTokenByHashStep ==
    ASSUME IInv, NEW r \in Requests, DeleteTokenByHash(r)
    PROVE  IInv'
<1> DEFINE hit == {scope \in {"activation"} :
                      token[request[r].user][scope] = request[r].text}
           q == [request[r] EXCEPT !.pc = "commit", !.slots = hit, !.gone = hit]
<1>1. /\ request[r] \in RequestRecords /\ Shape(request[r])
      /\ Knows(request[r]) /\ request[r].op = "activate"
      /\ request[r].pc = "delete"
    BY Known DEF DeleteTokenByHash, At
<1>2. /\ request' = [request EXCEPT ![r] = q]
      /\ UNCHANGED <<user, token, drawn, expired>>
    BY DEF DeleteTokenByHash
<1>3. /\ hit \subseteq {"activation"} /\ hit \in SUBSET Scopes
      /\ "activation" \in hit =>
            token[request[r].user]["activation"] = request[r].text
    BY DEF Scopes
<1>4. \A p \in Requests \ {r} : request[p].user = request[r].user =>
        hit \cap request[p].slots = {}
    <2>1. ASSUME "activation" \in hit
          PROVE  SlotHolders(r, "activation") = {}
        BY <1>1, <1>3, <2>1 DEF DeleteTokenByHash, Blockers
    <2> HIDE DEF hit
    <2> QED
        BY <1>3, <2>1 DEF SlotHolders, Others
<1> HIDE DEF hit
<1>5. q \in RequestRecords
    BY <1>1, <1>3 DEF RequestRecords
<1>6. Shape(q) /\ Knows(q)
    BY <1>1, <1>3 DEF RequestRecords, Shape, ActivateAt, Knows, Holds
<1>7. q.user = request[r].user /\ q.slots = hit /\ Holds(request[r])
    BY <1>1 DEF RequestRecords, Holds
<1> HIDE DEF q
<1> QED
    BY <1>2, <1>4, <1>5, <1>6, <1>7, GoesOn

\* The statements of the upserts: what one of them has written.
LEMMA WrittenRecord ==
    ASSUME NEW me \in RequestRecords, Shape(me), me.pc \in {"claim", "fk"}
    PROVE  /\ Written(me) \in RequestRecords /\ Shape(Written(me))
           /\ Written(me).op = me.op /\ Written(me).user = me.user
           /\ Written(me).slots = me.slots \cup {Head(me.todo)}
           /\ me.op \in {"issue", "login"} /\ Head(me.todo) \in Scopes
           /\ me.pc = "fk" => Head(me.todo) \in me.slots
           /\ Written(me).pc # "fk"
<1> DEFINE A == "authorization"
           R == "refresh"
           w == Written(me)
<1>1. /\ me.op \in {"issue", "login"} /\ me.user \in Users /\ me.text \in Texts
      /\ me.op = "login" => LoginAt(me)
      /\ me.op = "issue" => IssueAt(me)
    BY DEF Shape, ActivateAt
<1>2. me.todo \in {<<A, R>>, <<R>>, <<"activation">>}
    BY <1>1 DEF LoginAt, IssueAt
<1>3. /\ Head(me.todo) \in Scopes /\ Tail(me.todo) \in Seq(Scopes)
      /\ me.todo = <<A, R>> =>
            Head(me.todo) = A /\ Tail(me.todo) = <<R>> /\ Len(me.todo) = 2
      /\ me.todo = <<R>> => Head(me.todo) = R /\ Len(me.todo) = 1
      /\ me.todo = <<"activation">> =>
            Head(me.todo) = "activation" /\ Len(me.todo) = 1
    <2>1. CASE me.todo = <<A, R>>
        BY <2>1 DEF Scopes
    <2>2. CASE me.todo = <<R>>
        BY <2>2 DEF Scopes
    <2>3. CASE me.todo = <<"activation">>
        BY <2>3 DEF Scopes
    <2> QED
        BY <1>2, <2>1, <2>2, <2>3
<1>4. w \in RequestRecords
    BY <1>3 DEF Written, RequestRecords
<1>5. /\ w.op = me.op /\ w.user = me.user /\ w.text = me.text
      /\ w.slots = me.slots \cup {Head(me.todo)} /\ w.todo = Tail(me.todo)
      /\ w.pc = IF Len(me.todo) = 1 THEN "commit" ELSE "claim"
    BY DEF Written, RequestRecords
<1> HIDE DEF w
<1>6. CASE me.op = "login"
    <2>1. /\ me.todo \in {<<A, R>>, <<R>>}
          /\ me.pc = "fk" => Head(me.todo) \in me.slots
        BY <1>1, <1>3, <1>6 DEF LoginAt
    <2>2. CASE me.todo = <<A, R>>
        <3>1. <<A, R>> # <<R>>
            OBVIOUS
        <3>2. me.slots \subseteq {A}
            BY <1>1, <1>6, <2>2, <3>1 DEF LoginAt
        <3>3. w.pc = "claim" /\ w.slots = {A} /\ w.todo = <<R>>
            BY <1>3, <1>5, <2>2, <3>2
        <3> QED
            BY <1>1, <1>3, <1>4, <1>5, <1>6, <2>1, <3>3 DEF Shape, LoginAt, w
    <2>3. CASE me.todo = <<R>>
        <3>1. <<A, R>> # <<R>>
            OBVIOUS
        <3>2. me.slots \in {{A}, {A, R}}
            BY <1>1, <1>6, <2>3, <3>1 DEF LoginAt
        <3>3. w.pc = "commit" /\ w.slots = {A, R}
            BY <1>3, <1>5, <2>3, <3>2
        <3> QED
            BY <1>1, <1>3, <1>4, <1>5, <1>6, <2>1, <3>3 DEF Shape, LoginAt, w
    <2> QED
        BY <2>1, <2>2, <2>3
<1>7. CASE me.op = "issue"
    <2>1. /\ me.todo = <<"activation">> /\ me.slots \subseteq {"activation"}
          /\ me.pc = "fk" => Head(me.todo) \in me.slots
        BY <1>1, <1>3, <1>7 DEF IssueAt
    <2>2. w.pc = "commit" /\ w.slots = {"activation"}
        BY <1>3, <1>5, <2>1
    <2> QED
        BY <1>1, <1>3, <1>4, <1>5, <1>7, <2>1, <2>2 DEF Shape, IssueAt, w
<1> QED
    BY <1>1, <1>6, <1>7

\* The INSERT of a token row waits for a slot and takes it.
LEMMA ClaimSlotStep ==
    ASSUME IInv, NEW r \in Requests, ClaimSlot(r)
    PROVE  IInv'
<1> DEFINE me == request[r]
           q == [me EXCEPT !.pc = "fk", !.slots = me.slots \cup {Head(me.todo)}]
<1>1. /\ me \in RequestRecords /\ Shape(me) /\ Knows(me) /\ me.pc = "claim"
    BY Known DEF ClaimSlot
<1>2. \A p \in Requests \ {r} : request[p].user = me.user =>
        {Head(me.todo)} \cap request[p].slots = {}
    <2>1. SlotHolders(r, Head(me.todo)) = {}
        BY <1>1 DEF ClaimSlot, Blockers
    <2> QED
        BY <2>1 DEF SlotHolders, Others
<1>3. UNCHANGED <<user, token, drawn, expired>>
    BY DEF ClaimSlot
<1>4. CASE request' = [request EXCEPT ![r] = Written(me)]
    <2> DEFINE w == Written(me)
    <2>1. /\ w \in RequestRecords /\ Shape(w)
          /\ w.op = me.op /\ w.user = me.user
          /\ w.slots = me.slots \cup {Head(me.todo)}
          /\ me.op \in {"issue", "login"} /\ w.pc # "fk"
        BY <1>1, WrittenRecord
    <2>2. request' = [request EXCEPT ![r] = w]
        BY <1>4
    <2> HIDE DEF w
    <2>3. Knows(w) /\ ~Holds(w)
        BY <1>1, <2>1 DEF Knows, Holds
    <2>4. \A p \in Requests \ {r} : request[p].user = w.user =>
            (w.slots \ request[r].slots) \cap request[p].slots = {}
        BY <1>2, <2>1
    <2> QED
        BY <1>3, <2>1, <2>2, <2>3, <2>4, GoesOn
<1>5. CASE /\ request' = [request EXCEPT ![r] = q]
           /\ token[me.user][Head(me.todo)] = None
    <2>1. /\ me.op \in {"issue", "login"} /\ Head(me.todo) \in Scopes
        BY <1>1, WrittenRecord
    <2>2. q \in RequestRecords
        BY <1>1, <2>1 DEF RequestRecords
    <2>3. /\ q.op = me.op /\ q.user = me.user /\ q.text = me.text
          /\ q.todo = me.todo /\ q.pc = "fk"
          /\ q.slots = me.slots \cup {Head(me.todo)}
        BY <1>1 DEF RequestRecords
    <2> HIDE DEF q
    <2>4. Shape(q)
        <3>1. /\ Head(<<"authorization", "refresh">>) = "authorization"
              /\ Head(<<"refresh">>) = "refresh"
              /\ Head(<<"activation">>) = "activation"
            OBVIOUS
        <3> HIDE DEF me
        <3>2. ASSUME me.op = "login"  PROVE LoginAt(q)
            <4>1. LoginAt(me)
                BY <1>1, <3>2 DEF Shape
            <4> QED
                BY <1>1, <2>3, <3>1, <4>1 DEF LoginAt
        <3>3. ASSUME me.op = "issue"  PROVE IssueAt(q)
            <4>1. IssueAt(me)
                BY <1>1, <3>3 DEF Shape
            <4> QED
                BY <1>1, <2>3, <3>1, <4>1 DEF IssueAt
        <3> QED
            BY <1>1, <2>1, <2>3, <3>2, <3>3 DEF Shape
    <2>5. Knows(q) /\ ~Holds(q)
        BY <1>1, <1>5, <2>1, <2>3 DEF Knows, Holds
    <2>6. \A p \in Requests \ {r} : request[p].user = q.user =>
            (q.slots \ request[r].slots) \cap request[p].slots = {}
        BY <1>2, <2>3
    <2> QED
        BY <1>3, <1>5, <2>2, <2>3, <2>4, <2>5, <2>6, GoesOn
<1> QED
    BY <1>4, <1>5 DEF ClaimSlot

\* The foreign key locks the account against an exclusive lock.
LEMMA CheckForeignKeyStep ==
    ASSUME IInv, NEW r \in Requests, CheckForeignKey(r)
    PROVE  IInv'
<1> DEFINE w == Written(request[r])
           q == [w EXCEPT !.share = TRUE]
<1>1. /\ request[r] \in RequestRecords /\ Shape(request[r])
      /\ Knows(request[r]) /\ request[r].pc = "fk"
    BY Known DEF CheckForeignKey
<1>2. /\ w \in RequestRecords /\ Shape(w) /\ w.op = request[r].op
      /\ w.user = request[r].user /\ w.slots = request[r].slots
      /\ w.op \in {"issue", "login"} /\ w.pc # "fk"
    <2>1. /\ w \in RequestRecords /\ Shape(w) /\ w.op = request[r].op
          /\ w.user = request[r].user /\ w.op \in {"issue", "login"}
          /\ w.pc # "fk"
          /\ w.slots = request[r].slots \cup {Head(request[r].todo)}
          /\ Head(request[r].todo) \in request[r].slots
        BY <1>1, WrittenRecord
    <2> HIDE DEF w
    <2> QED
        BY <2>1
<1>3. request' = [request EXCEPT ![r] = q]
      /\ UNCHANGED <<user, token, drawn, expired>>
    BY DEF CheckForeignKey
<1> HIDE DEF w
<1>4. q \in RequestRecords
    BY <1>2 DEF RequestRecords
<1>5. Shape(q) /\ Knows(q) /\ ~Holds(q)
    BY <1>1, <1>2 DEF RequestRecords, Shape, LoginAt, IssueAt, Knows, Holds
<1>6. q.user = request[r].user /\ q.slots = request[r].slots
    BY <1>2 DEF RequestRecords
<1> HIDE DEF q
<1> QED
    BY <1>3, <1>4, <1>5, <1>6, GoesOn

-----------------------------------------------------------------------------
(* Steps that write the tables *)

\* A token of one account changes, and the writer of it is done.
LEMMA UpsertCommitStep ==
    ASSUME IInv, NEW r \in Requests, UpsertCommit(r)
    PROVE  IInv'
<1>1. /\ request[r] \in RequestRecords /\ Shape(request[r])
      /\ Knows(request[r]) /\ request[r].pc = "commit"
      /\ request[r].op \in {"issue", "login"}
      /\ request[r].user \in Users /\ request[r].text \in Texts
    BY Known DEF UpsertCommit, Shape
<1> DEFINE u == request[r].user
           row == [scope \in Scopes |-> IF scope \in request[r].slots
                                        THEN request[r].text
                                        ELSE token[u][scope]]
<1>2. /\ user' = user /\ drawn' = drawn /\ expired' = expired
      /\ request' = [request EXCEPT ![r] = Idle]
      /\ token' = [token EXCEPT ![u] = row]
    BY DEF UpsertCommit, Finish
<1>3. /\ user \in [Users -> UserRows] /\ drawn \in SUBSET Texts
      /\ expired \in SUBSET drawn /\ request \in [Requests -> RequestRecords]
      /\ token \in [Users -> [Scopes -> Texts \cup {None}]]
    BY DEF IInv, TypeOK
<1>4. row \in [Scopes -> Texts \cup {None}]
    BY <1>1, <1>3
<1>5. /\ request'[r] = Idle
      /\ \A p \in Requests \ {r} : request'[p] = request[p]
      /\ token'[u] = row /\ \A v \in Users \ {u} : token'[v] = token[v]
    BY <1>1, <1>2, <1>3
<1>6. \A scope \in Scopes : row[scope] = IF scope \in request[r].slots
                                         THEN request[r].text
                                         ELSE token[u][scope]
    OBVIOUS
<1> HIDE DEF row, u
<1>7. u \in Users /\ u = request[r].user
    BY <1>1 DEF u
<1>8. TypeOK'
    BY <1>2, <1>3, <1>4, <1>7, IdleRecord DEF TypeOK
<1>9. Tables'
    <2>1. user[u].state # "none"
        BY <1>1, <1>7 DEF Knows
    <2> QED
        BY <1>2, <1>5, <2>1 DEF IInv, Tables
<1>10. SessionPair' /\ SessionsOnlyForActive'
    <2>1. /\ row["authorization"] = row["refresh"]
          /\ row["authorization"] # None => user[u].state = "active"
        <3>1. "authorization" \in Scopes /\ "refresh" \in Scopes
            BY DEF Scopes
        <3>2. CASE request[r].op = "login"
            <4>1. request[r].slots = {"authorization", "refresh"}
                BY <1>1, <3>2 DEF Shape, LoginAt
            <4> QED
                BY <1>1, <1>6, <1>7, <3>1, <3>2, <4>1 DEF Knows
        <3>3. CASE request[r].op = "issue"
            <4>1. request[r].slots = {"activation"}
                BY <1>1, <3>3 DEF Shape, IssueAt
            <4>2. /\ row["authorization"] = token[u]["authorization"]
                  /\ row["refresh"] = token[u]["refresh"]
                BY <1>6, <3>1, <4>1
            <4> QED
                BY <1>7, <4>2 DEF IInv, SessionPair, SessionsOnlyForActive
        <3> QED
            BY <1>1, <3>2, <3>3
    <2> QED
        BY <1>2, <1>5, <1>7, <2>1 DEF IInv, SessionPair, SessionsOnlyForActive
<1>11. ASSUME NEW p \in Requests
       PROVE  Shape(request[p])' /\ Knows(request[p])'
    <2>1. CASE p = r
        BY <1>5, <2>1 DEF Idle, Shape, Knows, Holds
    <2>2. CASE p # r
        <3>1. Shape(request[p]) /\ Knows(request[p]) /\ Apart(request[r], request[p])
            BY <2>2, Known
        <3>2. Shape(request[p])'
            BY <1>5, <2>2, <3>1 DEF Shape, LoginAt, IssueAt, ActivateAt
        <3>3. request[p].op = "activate" /\ "activation" \in request[p].slots =>
                token'[request[p].user]["activation"] = request[p].text
            <4>1. SUFFICES ASSUME request[p].op = "activate",
                                  "activation" \in request[p].slots
                  PROVE  token'[request[p].user]["activation"] = request[p].text
                OBVIOUS
            <4>2. request[p].user \in Users
                  /\ token[request[p].user]["activation"] = request[p].text
                BY <3>1, <4>1 DEF Shape, Knows
            <4>3. CASE request[p].user = u
                <5>1. "activation" \notin request[r].slots
                    BY <1>7, <3>1, <4>1, <4>3 DEF Apart
                <5>2. "activation" \in Scopes
                    BY DEF Scopes
                <5> QED
                    BY <1>5, <1>6, <4>2, <4>3, <5>1, <5>2
            <4>4. CASE request[p].user # u
                BY <1>5, <4>2, <4>4
            <4> QED
                BY <4>3, <4>4
        <3>4. request[p].pc = "fk" =>
                token'[request[p].user][Head(request[p].todo)] = None
            <4>1. SUFFICES ASSUME request[p].pc = "fk"
                  PROVE  token'[request[p].user][Head(request[p].todo)] = None
                OBVIOUS
            <4>2. /\ Head(request[p].todo) \in Scopes
                  /\ Head(request[p].todo) \in request[p].slots
                BY <3>1, <4>1, Known, WrittenRecord
            <4>3. request[p].user \in Users
                  /\ token[request[p].user][Head(request[p].todo)] = None
                BY <3>1, <4>1 DEF Shape, Knows
            <4>4. CASE request[p].user = u
                <5>1. Head(request[p].todo) \notin request[r].slots
                    BY <1>7, <3>1, <4>2, <4>4 DEF Apart
                <5> QED
                    BY <1>5, <1>6, <4>2, <4>3, <4>4, <5>1
            <4>5. CASE request[p].user # u
                BY <1>5, <4>3, <4>5
            <4> QED
                BY <4>4, <4>5
        <3> QED
            BY <1>2, <1>5, <2>2, <3>1, <3>2, <3>3, <3>4 DEF Knows, Holds
    <2> QED
        BY <2>1, <2>2
<1>12. ASSUME NEW p \in Requests, NEW w \in Requests, p # w
       PROVE  Apart(request[p], request[w])'
    <2>1. CASE p = r \/ w = r
        BY <1>5, <1>12, <2>1 DEF Apart, Idle, Holds
    <2>2. CASE p # r /\ w # r
        <3>1. Apart(request[p], request[w])
            BY <1>12 DEF IInv
        <3> QED
            BY <1>5, <2>2, <3>1 DEF Apart, Holds
    <2> QED
        BY <2>1, <2>2
<1> QED
    BY <1>8, <1>9, <1>10, <1>11, <1>12 DEF IInv

\* The account is written over the version that was read.
LEMMA ActivateCommitStep ==
    ASSUME IInv, NEW r \in Requests, ActivateCommit(r)
    PROVE  IInv'
<1>1. /\ request[r] \in RequestRecords /\ Shape(request[r])
      /\ Knows(request[r]) /\ request[r].pc = "commit"
      /\ request[r].op = "activate" /\ request[r].user \in Users
      /\ request[r].gone \subseteq {"activation"}
      /\ request[r].gone = request[r].slots /\ Holds(request[r])
    BY Known DEF ActivateCommit, At, Shape, ActivateAt, Holds
<1> DEFINE u == request[r].user
           row == [scope \in Scopes |-> IF scope \in request[r].gone
                                        THEN None ELSE token[u][scope]]
<1>2. /\ user' = [user EXCEPT ![u] = Activated(user[u])]
      /\ drawn' = drawn /\ expired' = expired
      /\ request' = [request EXCEPT ![r] = Idle]
      /\ token' = [token EXCEPT ![u] = row]
    BY DEF ActivateCommit, Finish
<1>3. /\ user \in [Users -> UserRows] /\ drawn \in SUBSET Texts
      /\ expired \in SUBSET drawn /\ request \in [Requests -> RequestRecords]
      /\ token \in [Users -> [Scopes -> Texts \cup {None}]]
    BY DEF IInv, TypeOK
<1>4. row \in [Scopes -> Texts \cup {None}]
    BY <1>1, <1>3
<1>5. /\ request'[r] = Idle
      /\ \A p \in Requests \ {r} : request'[p] = request[p]
      /\ token'[u] = row /\ \A v \in Users \ {u} : token'[v] = token[v]
      /\ user'[u] = Activated(user[u])
      /\ \A v \in Users \ {u} : user'[v] = user[v]
    BY <1>1, <1>2, <1>3
<1>6. \A scope \in Scopes : row[scope] = IF scope \in request[r].gone
                                         THEN None ELSE token[u][scope]
    OBVIOUS
<1> HIDE DEF row, u
<1>7. u \in Users /\ u = request[r].user
    BY <1>1 DEF u
<1>8. Activated(user[u]) \in UserRows /\ user'[u].state = "active"
    BY <1>3, <1>5, <1>7 DEF Activated, UserRows
<1>9. TypeOK'
    BY <1>2, <1>3, <1>4, <1>7, <1>8, IdleRecord DEF TypeOK
<1>10. Tables'
    BY <1>5, <1>8 DEF IInv, Tables
<1>11. SessionPair' /\ SessionsOnlyForActive'
    <2>1. "authorization" \in Scopes /\ "refresh" \in Scopes
        BY DEF Scopes
    <2>2. row["authorization"] = row["refresh"]
        BY <1>1, <1>6, <1>7, <2>1 DEF IInv, SessionPair
    <2> QED
        BY <1>5, <1>8, <2>2 DEF IInv, SessionPair, SessionsOnlyForActive
<1>12. ASSUME NEW p \in Requests
       PROVE  Shape(request[p])' /\ Knows(request[p])'
    <2>1. CASE p = r
        BY <1>5, <2>1 DEF Idle, Shape, Knows, Holds
    <2>2. CASE p # r
        <3>1. Shape(request[p]) /\ Knows(request[p]) /\ Apart(request[r], request[p])
            BY <2>2, Known
        <3>2. Shape(request[p])'
            BY <1>5, <2>2, <3>1 DEF Shape, LoginAt, IssueAt, ActivateAt
        <3>3. CASE request[p].user = u
            <4>1. ~Holds(request[p])
                BY <1>1, <1>7, <3>1, <3>3 DEF Apart
            <4>2. ~(request[p].op = "activate" /\ "activation" \in request[p].slots)
                BY <3>1, <4>1 DEF Shape, ActivateAt, Holds
            <4>3. request[p].pc = "fk" =>
                    token'[u][Head(request[p].todo)] = None
                <5>1. SUFFICES ASSUME request[p].pc = "fk"
                               PROVE  token'[u][Head(request[p].todo)] = None
                    OBVIOUS
                <5>2. Head(request[p].todo) \in Scopes
                    BY <3>1, <5>1, Known, WrittenRecord
                <5>3. token[u][Head(request[p].todo)] = None
                    BY <3>1, <3>3, <5>1 DEF Knows
                <5> QED
                    BY <1>5, <1>6, <5>2, <5>3
            <4> QED
                BY <1>5, <1>8, <2>2, <3>1, <3>2, <3>3, <4>1, <4>2, <4>3
                DEF Knows, Holds
        <3>4. CASE request[p].user # u
            <4>1. /\ request[p].op # "none" => request[p].user \in Users
                  /\ request[p].pc = "fk" => request[p].op # "none"
                BY <3>1 DEF Shape
            <4> QED
                BY <1>5, <2>2, <3>1, <3>2, <3>4, <4>1 DEF Knows, Holds
        <3> QED
            BY <3>3, <3>4
    <2> QED
        BY <2>1, <2>2
<1>13. ASSUME NEW p \in Requests, NEW w \in Requests, p # w
       PROVE  Apart(request[p], request[w])'
    <2>1. CASE p = r \/ w = r
        BY <1>5, <1>13, <2>1 DEF Apart, Idle, Holds
    <2>2. CASE p # r /\ w # r
        <3>1. Apart(request[p], request[w])
            BY <1>13 DEF IInv
        <3> QED
            BY <1>5, <2>2, <3>1 DEF Apart, Holds
    <2> QED
        BY <2>1, <2>2
<1> QED
    BY <1>9, <1>10, <1>11, <1>12, <1>13 DEF IInv

\* Nobody knows an account before it is registered.
LEMMA RegisterStep ==
    ASSUME IInv, NEW u \in Users, NEW t \in Texts, Register(u, t)
    PROVE  IInv'
<1>1. /\ user \in [Users -> UserRows] /\ drawn \in SUBSET Texts
      /\ expired \in SUBSET drawn /\ request \in [Requests -> RequestRecords]
      /\ token \in [Users -> [Scopes -> Texts \cup {None}]]
    BY DEF IInv, TypeOK
<1>2. /\ user[u].state = "none" /\ user' = [user EXCEPT ![u] = NewUser]
      /\ drawn' = drawn \cup {t} /\ expired' = expired /\ request' = request
      /\ token' = [token EXCEPT ![u]["activation"] = t]
    BY DEF Register
<1>3. /\ user'[u] = NewUser /\ \A v \in Users \ {u} : user'[v] = user[v]
      /\ \A v \in Users \ {u} : token'[v] = token[v]
      /\ \A scope \in Scopes \ {"activation"} : token'[u][scope] = token[u][scope]
      /\ token' \in [Users -> [Scopes -> Texts \cup {None}]]
    BY <1>1, <1>2
<1>4. NewUser.state = "inactive" /\ NewUser.version = 0 /\ NewUser \in UserRows
    BY DEF NewUser, UserRows
<1>5. TypeOK'
    BY <1>1, <1>2, <1>3, <1>4 DEF TypeOK
<1>6. Tables'
    BY <1>3, <1>4 DEF IInv, Tables
<1>7. SessionPair' /\ SessionsOnlyForActive'
    <2>1. "authorization" \in Scopes /\ "refresh" \in Scopes
        BY DEF Scopes
    <2>2. token[u]["authorization"] = None /\ token[u]["refresh"] = None
        BY <1>2, <2>1 DEF IInv, Tables
    <2> QED
        BY <1>3, <2>1, <2>2 DEF IInv, SessionPair, SessionsOnlyForActive
<1>8. ASSUME NEW p \in Requests
      PROVE  Shape(request[p])' /\ Knows(request[p])'
    <2>1. Shape(request[p]) /\ Knows(request[p])
        BY Known
    <2>2. Shape(request[p])'
        BY <1>2, <2>1 DEF Shape, LoginAt, IssueAt, ActivateAt
    <2>3. /\ request[p].op # "none" => request[p].user \in Users \ {u}
          /\ request[p].pc = "fk" => request[p].op # "none"
        BY <1>2, <2>1 DEF Shape, Knows
    <2> QED
        BY <1>2, <1>3, <2>1, <2>2, <2>3 DEF Knows, Holds
<1>9. ASSUME NEW p \in Requests, NEW w \in Requests, p # w
      PROVE  Apart(request[p], request[w])'
    BY <1>2, <1>9 DEF IInv, Apart, Holds
<1> QED
    BY <1>5, <1>6, <1>7, <1>8, <1>9 DEF IInv

\* No accounts, no tokens, no requests at first.
LEMMA AtStart ==
    Init => IInv
<1> SUFFICES ASSUME Init  PROVE IInv
    OBVIOUS
<1>1. TypeOK
    BY IdleRecord DEF Init, TypeOK, UserRows
<1>2. Tables /\ SessionPair /\ SessionsOnlyForActive
    BY DEF Init, Tables, SessionPair, SessionsOnlyForActive, Scopes
<1>3. \A r \in Requests : request[r] = Idle
    BY DEF Init
<1> QED
    BY <1>1, <1>2, <1>3, IdleRecord DEF IInv

\* Every step keeps the invariant.
LEMMA NextStep ==
    IInv /\ [Next]_vars => IInv'
<1> SUFFICES ASSUME IInv, [Next]_vars  PROVE IInv'
    OBVIOUS
<1>1. CASE UNCHANGED vars
    BY <1>1 DEF vars, IInv, TypeOK, Tables, SessionPair, SessionsOnlyForActive,
       Shape, LoginAt, IssueAt, ActivateAt, Knows, Holds, Apart
<1>2. ASSUME NEW t \in Texts, ExpireToken(t)  PROVE IInv'
    BY <1>2 DEF ExpireToken, IInv, TypeOK, Tables, SessionPair,
       SessionsOnlyForActive, Shape, LoginAt, IssueAt, ActivateAt, Knows,
       Holds, Apart
<1>3. ASSUME NEW r \in Requests, Rollback(r)  PROVE IInv'
    BY <1>3, FinishStep DEF Rollback
<1>4. CASE Next
    BY <1>2, <1>3, <1>4, RegisterStep, ActivateStartStep, UpsertStartStep,
       GetUserByIDStep, UpdateUserStep, DeleteTokenByHashStep,
       ActivateCommitStep, ClaimSlotStep, CheckForeignKeyStep, UpsertCommitStep
       DEF Next
<1> QED
    BY <1>1, <1>4

-----------------------------------------------------------------------------
(* Waiting *)

\* How far a request is from one that waits for nobody.
Rank(p) ==
    LET me == request[p] IN
    CASE me.pc = "update"                         -> 5
      [] me.pc = "claim" /\ "authorization" \notin me.slots -> 4
      [] me.pc = "claim" /\ "authorization" \in me.slots    -> 3
      [] me.pc = "fk"                             -> 2
      [] me.pc = "delete"                         -> 1
      [] OTHER                                    -> 0

\* Each request waits for one that is further on.
LEMMA RankFalls ==
    ASSUME IInv, NEW p \in Requests, NEW q \in Requests, q \in Blockers(p)
    PROVE  Rank(q) < Rank(p)
<1>1. /\ Shape(request[p]) /\ Knows(request[p]) /\ Shape(request[q])
      /\ Knows(request[q]) /\ request[q].user = request[p].user
      /\ request[p] \in RequestRecords /\ request[q] \in RequestRecords
    BY Known DEF Blockers, Others, SlotHolders
<1>2. CASE request[p].pc = "update"
    <2>1. HoldsUser(q) \/ request[q].share
        BY <1>2 DEF Blockers
    <2>2. request[q].pc # "update"
        BY <1>1, <2>1 DEF HoldsUser, Shape, LoginAt, IssueAt
    <2> QED
        BY <1>2, <2>2 DEF Rank
<1>3. CASE request[p].pc = "fk"
    <2>1. HoldsUser(q)
        BY <1>3 DEF Blockers
    <2> QED
        BY <1>3, <2>1 DEF Rank, HoldsUser
<1>4. CASE request[p].pc = "claim"
    <2>1. Head(request[p].todo) \in request[q].slots
        BY <1>4 DEF Blockers, SlotHolders
    <2>2. Head(<<"authorization", "refresh">>) = "authorization"
          /\ Head(<<"refresh">>) = "refresh"
          /\ Head(<<"activation">>) = "activation"
        OBVIOUS
    <2>3. CASE request[p].op = "login"
        BY <1>1, <1>4, <2>1, <2>2, <2>3
        DEF Rank, Shape, LoginAt, IssueAt, ActivateAt
    <2>4. CASE request[p].op = "issue"
        BY <1>1, <1>4, <2>1, <2>2, <2>4
        DEF Rank, Shape, LoginAt, IssueAt, ActivateAt
    <2> QED
        BY <1>1, <1>4, <2>3, <2>4 DEF Shape, ActivateAt
<1>5. CASE request[p].pc = "delete"
    <2>1. /\ request[p].op = "activate" /\ request[p].text \in Texts
          /\ token[request[p].user]["activation"] = request[p].text
          /\ "activation" \in request[q].slots
        BY <1>1, <1>5 DEF Blockers, SlotHolders, Shape, LoginAt, IssueAt
    <2>2. Head(<<"activation">>) = "activation"
        OBVIOUS
    <2>3. request[q].pc = "commit"
        BY <1>1, <2>1, <2>2 DEF Shape, LoginAt, IssueAt, ActivateAt, Knows
    <2> QED
        BY <1>5, <2>3 DEF Rank
<1> QED
    BY <1>2, <1>3, <1>4, <1>5 DEF Blockers

-----------------------------------------------------------------------------
(* Theorems *)

\* What requests hold and know of the tables is true at any time.
THEOREM LocksHold == Spec => []IInv
BY AtStart, NextStep, PTL DEF Spec

\* The tables and the requests always have their types.
THEOREM TypesHold == Spec => []TypeOK
<1>1. IInv => TypeOK
    BY DEF IInv
<1> QED
    BY <1>1, LocksHold, PTL

\* The two tokens of a session come from one login.
THEOREM SessionsPaired == Spec => []SessionPair
<1>1. IInv => SessionPair
    BY DEF IInv
<1> QED
    BY <1>1, LocksHold, PTL

\* Nobody has a session without an activation.
THEOREM SessionsActive == Spec => []SessionsOnlyForActive
<1>1. IInv => SessionsOnlyForActive
    BY DEF IInv
<1> QED
    BY <1>1, LocksHold, PTL

\* A token row is removed only by the activation that used it.
THEOREM TokensUsed == Spec => OnlyUsedTokenDeleted
<1> DEFINE Used(u, scope) ==
             token[u][scope] # None /\ token'[u][scope] = None =>
                \E r \in Requests : /\ At(r, "activate", "commit")
                                    /\ request[r].user = u
                                    /\ request[r].text = token[u][scope]
<1>1. ASSUME IInv, [Next]_vars, NEW u \in Users, NEW scope \in Scopes
      PROVE  Used(u, scope)
    <2>1. token \in [Users -> [Scopes -> Texts \cup {None}]]
        BY <1>1 DEF IInv, TypeOK
    <2>2. CASE token' = token
        BY <2>2
    <2>3. ASSUME NEW v \in Users, NEW t \in Texts, Register(v, t)
          PROVE  Used(u, scope)
        BY <2>1, <2>3 DEF Register
    <2>4. ASSUME NEW r \in Requests, UpsertCommit(r)  PROVE Used(u, scope)
        <3>1. request[r].user \in Users /\ request[r].text \in Texts
            BY <1>1, <2>4, Known DEF UpsertCommit, Shape
        <3> QED
            BY <2>1, <2>4, <3>1 DEF UpsertCommit
    <2>5. ASSUME NEW r \in Requests, ActivateCommit(r)  PROVE Used(u, scope)
        <3>1. /\ At(r, "activate", "commit") /\ request[r].user \in Users
              /\ request[r].gone \subseteq {"activation"}
              /\ "activation" \in request[r].gone =>
                    token[request[r].user]["activation"] = request[r].text
            BY <1>1, <2>5, Known
            DEF ActivateCommit, At, Shape, ActivateAt, Knows
        <3> QED
            BY <2>1, <2>5, <3>1 DEF ActivateCommit
    <2> HIDE DEF Used
    <2> QED
        BY <1>1, <2>2, <2>3, <2>4, <2>5 DEF Next, vars, ExpireToken,
           ActivateStart, IssueStart, LoginStart, UpsertStart, GetUserByID,
           UpdateUser, DeleteTokenByHash, ClaimSlot, CheckForeignKey, Rollback
<1>2. IInv /\ [Next]_vars => \A u \in Users, scope \in Scopes : Used(u, scope)
    BY <1>1
<1>3. IInv /\ [Next]_vars =>
        [\A u \in Users, scope \in Scopes : Used(u, scope)]_vars
    BY <1>2
<1> QED
    BY <1>3, LocksHold, PTL DEF Spec, OnlyUsedTokenDeleted

\* An account is written back only over the version that was read.
THEOREM WritesFresh == Spec => WriteIsFresh
<1> DEFINE Fresh(u) ==
             user'[u].version # user[u].version =>
                \E r \in Requests : /\ At(r, "activate", "commit")
                                    /\ request[r].user = u
                                    /\ request[r].version = user[u].version
<1>1. ASSUME IInv, [Next]_vars, NEW u \in Users
      PROVE  Fresh(u)
    <2>1. user \in [Users -> UserRows]
        BY <1>1 DEF IInv, TypeOK
    <2>2. CASE user' = user
        BY <2>2
    <2>3. ASSUME NEW v \in Users, NEW t \in Texts, Register(v, t)
          PROVE  Fresh(u)
        BY <1>1, <2>1, <2>3 DEF Register, NewUser, IInv, Tables
    <2>4. ASSUME NEW r \in Requests, ActivateCommit(r)  PROVE Fresh(u)
        <3>1. /\ At(r, "activate", "commit") /\ request[r].user \in Users
              /\ request[r].version = user[request[r].user].version
            BY <1>1, <2>4, Known DEF ActivateCommit, At, Shape, Knows, Holds
        <3> QED
            BY <2>1, <2>4, <3>1 DEF ActivateCommit
    <2> HIDE DEF Fresh
    <2> QED
        BY <1>1, <2>2, <2>3, <2>4 DEF Next, vars, ExpireToken,
           ActivateStart, IssueStart, LoginStart, UpsertStart, GetUserByID,
           UpdateUser, DeleteTokenByHash, ClaimSlot, CheckForeignKey,
           UpsertCommit, Rollback
<1>2. IInv /\ [Next]_vars => [\A u \in Users : Fresh(u)]_vars
    BY <1>1
<1> QED
    BY <1>2, LocksHold, PTL DEF Spec, WriteIsFresh

\* Whatever requests meet on an account, they never wait in a circle.
THEOREM NoDeadlock == Spec => []NoCircularWait
<1>1. ASSUME IInv, NEW n \in 2..Cardinality(Requests),
             NEW c \in [1..n -> Requests],
             \A i \in 1..n : c[(i % n) + 1] \in Blockers(c[i])
      PROVE  FALSE
    <2> DEFINE next(i) == (i % n) + 1
               k(i) == Rank(c[i])
    <2>1. \A i \in 1..n : next(i) \in 1..n
        OBVIOUS
    <2>2. \A i \in 1..n : k(i) \in 0..5
        BY DEF Rank
    <2>3. \A i \in 1..n : k(next(i)) < k(i)
        BY <1>1, <2>1, RankFalls
    <2>4. 1 \in 1..n
        OBVIOUS
    <2> HIDE DEF next, k
    <2> DEFINE i2 == next(1)
               i3 == next(i2)
               i4 == next(i3)
               i5 == next(i4)
               i6 == next(i5)
               i7 == next(i6)
    <2>5. i2 \in 1..n /\ k(i2) < k(1)
        BY <2>1, <2>3, <2>4
    <2>6. i3 \in 1..n /\ k(i3) < k(i2)
        BY <2>1, <2>3, <2>5
    <2>7. i4 \in 1..n /\ k(i4) < k(i3)
        BY <2>1, <2>3, <2>6
    <2>8. i5 \in 1..n /\ k(i5) < k(i4)
        BY <2>1, <2>3, <2>7
    <2>9. i6 \in 1..n /\ k(i6) < k(i5)
        BY <2>1, <2>3, <2>8
    <2>10. i7 \in 1..n /\ k(i7) < k(i6)
        BY <2>1, <2>3, <2>9
    <2> HIDE DEF i2, i3, i4, i5, i6, i7
    <2> QED
        BY <2>2, <2>4, <2>5, <2>6, <2>7, <2>8, <2>9, <2>10
<1>2. IInv => NoCircularWait
    BY <1>1 DEF NoCircularWait
<1> QED
    BY <1>2, LocksHold, PTL

-----------------------------------------------------------------------------
(* When an activation is atomic *)

\* While an account is being activated it is not activated once more and gets
\* no new activation token.
ActivationsAlone ==
    \A r, q \in Requests :
        /\ r # q /\ request[r].op = "activate"
        /\ request[q].user = request[r].user
        => request[q].op = "login"

\* The token that an activation has found is still there.
TokenKept ==
    \A r \in Requests : request[r].op = "activate" =>
        token[request[r].user]["activation"] = request[r].text

\* A step that leaves the activation tokens alone and starts no activation.
LEMMA KeptOn ==
    ASSUME IInv, TokenKept, NEW r \in Requests,
           \A p \in Requests \ {r} : request'[p] = request[p],
           \/ request'[r].op # "activate"
           \/ /\ request[r].op = "activate"
              /\ request'[r].user = request[r].user
              /\ request'[r].text = request[r].text,
           \A p \in Requests : request'[p].op = "activate" =>
              token'[request'[p].user]["activation"] =
                 token[request'[p].user]["activation"]
    PROVE  TokenKept'
BY DEF TokenKept

\* Only an upsert of the activation token and an activation touch that token.
LEMMA KeptStep ==
    IInv /\ TokenKept /\ ActivationsAlone /\ [Next]_vars => TokenKept'
<1> SUFFICES ASSUME IInv, TokenKept, ActivationsAlone, [Next]_vars
             PROVE  TokenKept'
    OBVIOUS
<1>1. /\ request \in [Requests -> RequestRecords]
      /\ token \in [Users -> [Scopes -> Texts \cup {None}]]
    BY DEF IInv, TypeOK
<1>2. Idle.op = "none"
    BY DEF Idle
<1>3. ASSUME request' = request, token' = token  PROVE TokenKept'
    BY <1>3 DEF TokenKept
<1>4. ASSUME NEW u \in Users, NEW t \in Texts, Register(u, t)
      PROVE  TokenKept'
    <2>1. ASSUME NEW r \in Requests, request[r].op = "activate"
          PROVE  request[r].user \in Users \ {u}
        BY <1>4, <2>1, Known DEF Register, Shape, Knows
    <2>2. \A v \in Users \ {u} : token'[v] = token[v]
        BY <1>1, <1>4 DEF Register
    <2> QED
        BY <1>4, <2>1, <2>2 DEF Register, TokenKept
<1>5. ASSUME NEW r \in Requests, NEW u \in Users, NEW t \in Texts,
             ActivateStart(r, u, t)
      PROVE  TokenKept'
    <2> DEFINE q == [Idle EXCEPT !.pc = "user", !.op = "activate", !.user = u,
                                 !.text = t]
    <2>1. q.user = u /\ q.text = t
        BY DEF Idle
    <2>2. request'[r] = q /\ \A p \in Requests \ {r} : request'[p] = request[p]
        BY <1>1, <1>5 DEF ActivateStart
    <2> HIDE DEF q
    <2> QED
        BY <1>5, <2>1, <2>2 DEF ActivateStart, TokenKept
<1>6. ASSUME NEW r \in Requests, NEW u \in Users, NEW t \in Texts,
             IssueStart(r, u, t) \/ LoginStart(r, u, t)
      PROVE  TokenKept'
    <2>1. PICK op \in {"issue", "login"}, scopes \in Seq(Scopes) :
              UpsertStart(r, op, u, t, scopes)
        <3>1. /\ <<"activation">> \in Seq(Scopes)
              /\ <<"authorization", "refresh">> \in Seq(Scopes)
            BY DEF Scopes
        <3> QED
            BY <1>6, <3>1 DEF IssueStart, LoginStart
    <2> DEFINE q == [Idle EXCEPT !.pc = "claim", !.op = op, !.user = u,
                                 !.text = t, !.todo = scopes]
    <2>2. q.op # "activate"
        BY <2>1 DEF Idle
    <2>3. /\ request'[r] = q /\ token' = token
          /\ \A p \in Requests \ {r} : request'[p] = request[p]
        BY <1>1, <2>1 DEF UpsertStart
    <2> HIDE DEF q
    <2> QED
        BY <2>2, <2>3, KeptOn
<1>7. ASSUME NEW r \in Requests,
             \/ GetUserByID(r) \/ UpdateUser(r) \/ DeleteTokenByHash(r)
             \/ ClaimSlot(r) \/ CheckForeignKey(r) \/ Rollback(r)
      PROVE  TokenKept'
    <2>1. token' = token /\ \A p \in Requests \ {r} : request'[p] = request[p]
        BY <1>1, <1>7 DEF GetUserByID, UpdateUser, DeleteTokenByHash, ClaimSlot,
           CheckForeignKey, Rollback, Step, Finish
    <2>2. \/ request'[r].op # "activate"
          \/ /\ request[r].op = "activate"
             /\ request'[r].user = request[r].user
             /\ request'[r].text = request[r].text
        <3>1. request[r] \in RequestRecords
            BY <1>1
        <3>2. ASSUME Finish(r)  PROVE request'[r].op # "activate"
            BY <1>1, <1>2, <3>2 DEF Finish
        <3>3. ASSUME NEW q, request' = [request EXCEPT ![r] = q],
                     q.op = request[r].op, q.user = request[r].user,
                     q.text = request[r].text
              PROVE  /\ request'[r].op = request[r].op
                     /\ request'[r].user = request[r].user
                     /\ request'[r].text = request[r].text
            BY <1>1, <3>3
        <3>4. CASE GetUserByID(r)
            <4> DEFINE q == [request[r] EXCEPT !.pc = "update",
                                  !.version = user[request[r].user].version]
            <4>1. request' = [request EXCEPT ![r] = q]
                BY <3>4 DEF GetUserByID
            <4>2. /\ q.op = request[r].op /\ q.user = request[r].user
                  /\ q.text = request[r].text
                BY <3>1 DEF RequestRecords
            <4> HIDE DEF q
            <4> QED
                BY <3>3, <4>1, <4>2
        <3>5. CASE UpdateUser(r)
            <4> DEFINE q == [request[r] EXCEPT !.pc = "delete"]
            <4>1. Finish(r) \/ request' = [request EXCEPT ![r] = q]
                BY <3>5 DEF UpdateUser, Step
            <4>2. /\ q.op = request[r].op /\ q.user = request[r].user
                  /\ q.text = request[r].text
                BY <3>1 DEF RequestRecords
            <4> HIDE DEF q
            <4> QED
                BY <3>2, <3>3, <4>1, <4>2
        <3>6. CASE DeleteTokenByHash(r)
            <4>1. PICK hit : request' = [request EXCEPT ![r] =
                      [request[r] EXCEPT !.pc = "commit", !.slots = hit,
                                         !.gone = hit]]
                BY <3>6 DEF DeleteTokenByHash
            <4> DEFINE q == [request[r] EXCEPT !.pc = "commit", !.slots = hit,
                                               !.gone = hit]
            <4>2. /\ q.op = request[r].op /\ q.user = request[r].user
                  /\ q.text = request[r].text
                BY <3>1 DEF RequestRecords
            <4>3. request' = [request EXCEPT ![r] = q]
                BY <4>1
            <4> HIDE DEF q
            <4> QED
                BY <3>3, <4>2, <4>3
        <3>7. CASE ClaimSlot(r) \/ CheckForeignKey(r)
            <4>1. request[r].pc \in {"claim", "fk"}
                BY <3>7 DEF ClaimSlot, CheckForeignKey
            <4>2. request[r].op # "activate"
                BY <4>1, Known DEF Shape, ActivateAt
            <4>3. Written(request[r]).op = request[r].op
                BY <3>1 DEF Written, RequestRecords
            <4>4. [Written(request[r]) EXCEPT !.share = TRUE].op
                     = request[r].op
                BY <3>1, <4>3 DEF Written, RequestRecords
            <4>5. CASE ClaimSlot(r)
                BY <1>1, <3>1, <4>2, <4>3, <4>5 DEF ClaimSlot, RequestRecords
            <4>6. CASE CheckForeignKey(r)
                BY <1>1, <4>2, <4>4, <4>6 DEF CheckForeignKey
            <4> QED
                BY <3>7, <4>5, <4>6
        <3>8. CASE Rollback(r)
            BY <3>2, <3>8 DEF Rollback
        <3> QED
            BY <1>7, <3>4, <3>5, <3>6, <3>7, <3>8
    <2> QED
        BY <2>1, <2>2, KeptOn
<1>8. ASSUME NEW r \in Requests, ActivateCommit(r) \/ UpsertCommit(r)
      PROVE  TokenKept'
    <2>1. /\ request'[r] = Idle /\ request[r].user \in Users
          /\ \A p \in Requests \ {r} : request'[p] = request[p]
          /\ \A v \in Users \ {request[r].user} : token'[v] = token[v]
        BY <1>1, <1>8, Known
        DEF ActivateCommit, UpsertCommit, At, Finish, Shape
    <2>2. ASSUME NEW p \in Requests \ {r}, request[p].op = "activate",
                 request[p].user = request[r].user
          PROVE  token'[request[r].user]["activation"] =
                    token[request[r].user]["activation"]
        <3>1. request[r].op = "login"
            BY <2>2 DEF ActivationsAlone
        <3>2. UpsertCommit(r) /\ request[r].pc = "commit"
            BY <1>8, <3>1 DEF ActivateCommit, UpsertCommit, At
        <3>3. request[r].slots = {"authorization", "refresh"}
            BY <3>1, <3>2, Known DEF Shape, LoginAt
        <3> QED
            BY <1>1, <2>1, <3>2, <3>3 DEF UpsertCommit, Scopes
    <2>3. ASSUME NEW p \in Requests, request'[p].op = "activate"
          PROVE  token'[request'[p].user]["activation"] =
                    token[request'[p].user]["activation"]
        <3>1. p # r /\ request'[p] = request[p]
            BY <1>2, <2>1, <2>3
        <3>2. request[p].user \in Users
            BY <2>3, <3>1, Known DEF Shape
        <3> QED
            BY <2>1, <2>2, <2>3, <3>1, <3>2
    <2> QED
        BY <1>2, <2>1, <2>3, KeptOn
<1> QED
    BY <1>3, <1>4, <1>5, <1>6, <1>7, <1>8 DEF Next, vars, ExpireToken

\* What the comment on ActivateUser promises holds for accounts that are not
\* activated twice at a time and get no new activation token meanwhile: the
\* overlap is the only way to an activation with a token that is gone.
THEOREM AtomicIfAlone == Spec /\ []ActivationsAlone => ActivationAtomic
<1> DEFINE Valid(r) ==
             At(r, "activate", "commit") /\ user' # user /\ request'[r] = Idle =>
                token[request[r].user]["activation"] = request[r].text
<1>1. Init => TokenKept
    BY DEF Init, TokenKept, Idle
<1>2. TokenKept => \A r \in Requests : Valid(r)
    BY DEF TokenKept, At
<1> QED
    BY <1>1, <1>2, KeptStep, LocksHold, PTL DEF Spec, ActivationAtomic
=============================================================================
