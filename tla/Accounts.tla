------------------------------ MODULE Accounts ------------------------------
(***************************************************************************)
(* Accounts and their tokens: registration, activation, new activation     *)
(* tokens and login, on the tables user_account and token.                 *)
(*                                                                         *)
(* The four operations of the store run at READ COMMITTED.  A transaction  *)
(* is the sequence of its statements: what it reads may be stale at the    *)
(* next one, what it wrote is locked, and all of it is visible to others   *)
(* when it commits.  A row of token is identified by its account and its   *)
(* scope (unique_user_scope_token), so an upsert waits for that slot.      *)
(*                                                                         *)
(* UpdateUser has the unique column email in its SET list and runs under   *)
(* a BEFORE UPDATE trigger: it locks the account against the FOR KEY SHARE *)
(* that the foreign key of an inserted token needs.                        *)
(***************************************************************************)
EXTENDS Naturals, FiniteSets, Sequences

CONSTANTS
    Users,      \* accounts, one for each e-mail address
    Texts,      \* the random texts of newToken; a login draws one for its pair
    Requests,   \* HTTP requests that can be in flight together
    None

ASSUME NoneAssumption == None \notin Users \cup Texts

VARIABLES
    user,       \* table user_account; version stands for updated_at
    token,      \* table token: the text in each slot, None without a row
    drawn,      \* texts that newToken has returned
    expired,    \* texts whose expires_at has passed
    request     \* per request: its transaction and what it has read

vars == <<user, token, drawn, expired, request>>

Scopes == {"activation", "authorization", "refresh"}
UserRows == [state : {"none", "inactive", "active"}, version : Nat]
NewUser == [state |-> "inactive", version |-> 0]
\* FAULT: a clock that goes back.
ActivatedBack(row) == [state |-> "active", version |-> row.version - 1]
Activated(row) == [state |-> "active", version |-> row.version + 1]

\* todo: scopes still to upsert; slots: token rows that the transaction has
\* locked; share: FOR KEY SHARE on the account; gone: slots it has deleted.
RequestRecords ==
    [pc : {"idle", "user", "update", "delete", "claim", "fk", "commit"},
     op : {"none", "activate", "issue", "login"},
     user : Users \cup {None}, text : Texts \cup {None}, version : Nat,
     todo : Seq(Scopes), slots : SUBSET Scopes, gone : SUBSET Scopes,
     share : BOOLEAN]
Idle == [pc |-> "idle", op |-> "none", user |-> None, text |-> None,
         version |-> 0, todo |-> <<>>, slots |-> {}, gone |-> {},
         share |-> FALSE]

TypeOK ==
    /\ user \in [Users -> UserRows]
    /\ token \in [Users -> [Scopes -> Texts \cup {None}]]
    /\ drawn \in SUBSET Texts
    /\ expired \in SUBSET drawn
    /\ request \in [Requests -> RequestRecords]

Init ==
    /\ user = [u \in Users |-> [state |-> "none", version |-> 0]]
    /\ token = [u \in Users |-> [scope \in Scopes |-> None]]
    /\ drawn = {}
    /\ expired = {}
    /\ request = [r \in Requests |-> Idle]

-----------------------------------------------------------------------------
(* Locks *)

Others(r) == {q \in Requests \ {r} : request[q].user = request[r].user}
HoldsUser(r) == request[r].op = "activate" /\ request[r].pc \in {"delete", "commit"}
SlotHolders(r, scope) == {q \in Others(r) : scope \in request[q].slots}

\* The requests whose transactions r has to wait for.  The DELETE looks for
\* the hash: a slot that holds another text does not stop it.
Blockers(r) ==
    LET me == request[r] IN
    CASE me.pc = "update" -> {q \in Others(r) : HoldsUser(q) \/ request[q].share}
      [] me.pc = "fk"     -> {q \in Others(r) : HoldsUser(q)}
      [] me.pc = "claim"  -> SlotHolders(r, Head(me.todo))
      [] me.pc = "delete" /\ token[me.user]["activation"] = me.text
                          -> SlotHolders(r, "activation")
      [] OTHER            -> {}

At(r, op, pc) == request[r].op = op /\ request[r].pc = pc
Step(r, pc) == request' = [request EXCEPT ![r].pc = pc]
Finish(r) == request' = [request EXCEPT ![r] = Idle]

-----------------------------------------------------------------------------
(* Registration: both rows are new, so no other transaction can come in      *)
(* between; a second one with the same address waits and is a duplicate.     *)

Register(u, t) ==
    /\ user[u].state = "none"
    /\ t \notin drawn
    /\ drawn' = drawn \cup {t}
    /\ user' = [user EXCEPT ![u] = NewUser]
    /\ token' = [token EXCEPT ![u]["activation"] = t]
    /\ UNCHANGED <<expired, request>>

ExpireToken(t) ==
    /\ t \in drawn \ expired
    /\ expired' = expired \cup {t}
    /\ UNCHANGED <<user, token, drawn, request>>

-----------------------------------------------------------------------------
(* PUT /user/activate *)

\* GetTokenByHash: found, not expired, of the scope activation.
ActivateStart(r, u, t) ==
    /\ request[r].pc = "idle"
    /\ token[u]["activation"] = t
    /\ t \notin expired
    /\ request' = [request EXCEPT ![r] =
         [Idle EXCEPT !.pc = "user", !.op = "activate", !.user = u, !.text = t]]
    /\ UNCHANGED <<user, token, drawn, expired>>

GetUserByID(r) ==
    /\ At(r, "activate", "user")
    /\ request' = [request EXCEPT ![r] =
         [@ EXCEPT !.pc = "update",
                   !.version = user[request[r].user].version]]
    /\ UNCHANGED <<user, token, drawn, expired>>

\* FAULT: the version is compared before the wait for the lock.
UpdateUserUnlocked(r) ==
    /\ At(r, "activate", "update")
    /\ \/ user[request[r].user].version = request[r].version /\ Step(r, "delete")
       \/ user[request[r].user].version # request[r].version /\ Finish(r)
    /\ UNCHANGED <<user, token, drawn, expired>>

\* WHERE id = $5 AND updated_at = $6, on the newest version after the wait; no
\* row is pgx.ErrNoRows, which the handler answers like an unknown token.
UpdateUser(r) ==
    /\ At(r, "activate", "update")
    /\ Blockers(r) = {}
    /\ \/ user[request[r].user].version = request[r].version /\ Step(r, "delete")
       \/ user[request[r].user].version # request[r].version /\ Finish(r)
    /\ UNCHANGED <<user, token, drawn, expired>>

\* FAULT: DeleteUserTokens in its place.
DeleteAllTokens(r) ==
    /\ At(r, "activate", "delete")
    /\ Blockers(r) = {}
    /\ request' = [request EXCEPT ![r] =
         [@ EXCEPT !.pc = "commit", !.slots = Scopes, !.gone = Scopes]]
    /\ UNCHANGED <<user, token, drawn, expired>>

DeleteTokenByHash(r) ==
    LET hit == {scope \in {"activation"} :
                   token[request[r].user][scope] = request[r].text}
    IN  /\ At(r, "activate", "delete")
        /\ Blockers(r) = {}
        /\ request' = [request EXCEPT ![r] =
             [@ EXCEPT !.pc = "commit", !.slots = hit, !.gone = hit]]
        /\ UNCHANGED <<user, token, drawn, expired>>

ActivateCommit(r) ==
    LET u == request[r].user
    IN  /\ At(r, "activate", "commit")
        /\ user' = [user EXCEPT ![u] = Activated(user[u])]
        /\ token' = [token EXCEPT ![u] =
             [scope \in Scopes |-> IF scope \in request[r].gone
                                   THEN None ELSE token[u][scope]]]
        /\ Finish(r)
        /\ UNCHANGED <<drawn, expired>>

-----------------------------------------------------------------------------
(* POST /token/activation and POST /user/auth: read the account, check the   *)
(* password and the state, then upsert one token or, in one transaction, two. *)

UpsertStart(r, op, u, t, scopes) ==
    /\ request[r].pc = "idle"
    /\ t \notin drawn
    /\ drawn' = drawn \cup {t}
    /\ request' = [request EXCEPT ![r] =
         [Idle EXCEPT !.pc = "claim", !.op = op, !.user = u, !.text = t,
                      !.todo = scopes]]
    /\ UNCHANGED <<user, token, expired>>

IssueStart(r, u, t) ==
    /\ user[u].state = "inactive"
    /\ UpsertStart(r, "issue", u, t, <<"activation">>)

\* FAULT: an account that is not active logs in; and: the order of the upserts
\* is left open.
LoginStartAnyone(r, u, t) ==
    /\ user[u].state # "none"
    /\ UpsertStart(r, "login", u, t, <<"authorization", "refresh">>)

LoginStartAnyOrder(r, u, t) ==
    /\ user[u].state = "active"
    /\ \/ UpsertStart(r, "login", u, t, <<"authorization", "refresh">>)
       \/ UpsertStart(r, "login", u, t, <<"refresh", "authorization">>)

LoginStart(r, u, t) ==
    /\ user[u].state = "active"
    /\ UpsertStart(r, "login", u, t, <<"authorization", "refresh">>)

\* The statement has written its row: on to the next one or to COMMIT.
Written(me) ==
    [me EXCEPT !.pc = IF Len(me.todo) = 1 THEN "commit" ELSE "claim",
               !.todo = Tail(me.todo),
               !.slots = me.slots \cup {Head(me.todo)}]

\* FAULT: no transaction around the upserts, each of them is visible at once.
ClaimSlotAutocommit(r) ==
    LET me == request[r]
        scope == Head(me.todo)
    IN  /\ me.pc = "claim"
        /\ Blockers(r) = {}
        /\ request' = [request EXCEPT ![r] = [Written(me) EXCEPT !.slots = {}]]
        /\ token' = [token EXCEPT ![me.user][scope] = me.text]
        /\ UNCHANGED <<user, drawn, expired>>

\* ON CONFLICT DO UPDATE of a row that exists; an INSERT has a foreign key to
\* check before it is done, with its slot taken.
ClaimSlot(r) ==
    LET me == request[r]
        scope == Head(me.todo)
    IN  /\ me.pc = "claim"
        /\ Blockers(r) = {}
        /\ request' = [request EXCEPT ![r] =
             IF token[me.user][scope] # None
             THEN Written(me)
             ELSE [me EXCEPT !.pc = "fk", !.slots = me.slots \cup {scope}]]
        /\ UNCHANGED <<user, token, drawn, expired>>

CheckForeignKey(r) ==
    /\ request[r].pc = "fk"
    /\ Blockers(r) = {}
    /\ request' = [request EXCEPT ![r] =
         [Written(request[r]) EXCEPT !.share = TRUE]]
    /\ UNCHANGED <<user, token, drawn, expired>>

UpsertCommit(r) ==
    LET me == request[r]
    IN  /\ me.op \in {"issue", "login"} /\ me.pc = "commit"
        /\ token' = [token EXCEPT ![me.user] =
             [scope \in Scopes |-> IF scope \in me.slots
                                   THEN me.text ELSE token[me.user][scope]]]
        /\ Finish(r)
        /\ UNCHANGED <<user, drawn, expired>>

\* An error, a cancelled request or a crash: the transaction is rolled back.
Rollback(r) ==
    /\ request[r].pc # "idle"
    /\ Finish(r)
    /\ UNCHANGED <<user, token, drawn, expired>>

-----------------------------------------------------------------------------
Next ==
    \/ \E u \in Users, t \in Texts : Register(u, t)
    \/ \E t \in Texts : ExpireToken(t)
    \/ \E r \in Requests, u \in Users, t \in Texts :
          \/ ActivateStart(r, u, t)
          \/ IssueStart(r, u, t)
          \/ LoginStart(r, u, t)
    \/ \E r \in Requests :
          \/ GetUserByID(r)
          \/ UpdateUser(r)
          \/ DeleteTokenByHash(r)
          \/ ActivateCommit(r)
          \/ ClaimSlot(r)
          \/ CheckForeignKey(r)
          \/ UpsertCommit(r)
          \/ Rollback(r)

Spec == Init /\ [][Next]_vars

-----------------------------------------------------------------------------
(* Properties *)

\* The authorization and the refresh token of an account always come from one
\* login, however logins overlap and fail: UpsertAuthTokens is atomic.
SessionPair ==
    \A u \in Users : token[u]["authorization"] = token[u]["refresh"]

\* A session exists only for an account that has been activated, although
\* authUser looks at Activated some statements before it writes the tokens.
SessionsOnlyForActive ==
    \A u \in Users : token[u]["authorization"] # None =>
        user[u].state = "active"

\* A token row goes away only by an activation with that very token.  A new
\* token that was issued while the old one was being used survives.
OnlyUsedTokenDeleted ==
    [][\A u \in Users, scope \in Scopes :
          token[u][scope] # None /\ token'[u][scope] = None =>
             \E r \in Requests : /\ At(r, "activate", "commit")
                                 /\ request[r].user = u
                                 /\ request[r].text = token[u][scope]]_vars

\* UpdateUser writes the whole account back as it was read some statements ago:
\* it never does so over a row that has changed since.
WriteIsFresh ==
    [][\A u \in Users : user'[u].version # user[u].version =>
          \E r \in Requests : /\ At(r, "activate", "commit")
                              /\ request[r].user = u
                              /\ request[r].version = user[u].version]_vars

\* Activations, new tokens and logins take the rows of user_account and token
\* in orders that never let them wait for each other in a circle.
NoCircularWait ==
    \A n \in 2..Cardinality(Requests) : \A c \in [1..n -> Requests] :
        \E i \in 1..n : c[(i % n) + 1] \notin Blockers(c[i])

-----------------------------------------------------------------------------
(* What a comment says and the code does not do; see the README. *)

\* store.go:144: ActivateUser "atomically validates an activation token and
\* marks the user as active", so the token is still there when it does.
ActivationAtomic ==
    [][\A r \in Requests :
          At(r, "activate", "commit") /\ user' # user /\ request'[r] = Idle =>
             token[request[r].user]["activation"] = request[r].text]_vars
=============================================================================
