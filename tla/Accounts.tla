------------------------------ MODULE Accounts ------------------------------
(***************************************************************************)
(* Accounts and their sign-in sessions: AuthService, JwtStrategy and       *)
(* IdentityService over one PostgreSQL database at READ COMMITTED.         *)
(*                                                                         *)
(* Every handler reads first and writes in a transaction later, and other  *)
(* handlers commit in between.  A bulk updateMany works on the rows its    *)
(* statement saw and rechecks each row's condition when it gets to it;    *)
(* a row committed after the statement began is not touched.               *)
(***************************************************************************)
EXTENDS Integers, Sequences, FiniteSets

CONSTANTS
    Account,     \* the users modelled
    Elsewhere,   \* active developers among the other users
    Clerk,       \* requests the API serves side by side
    MaxSession,  \* bound: AuthSession rows
    MaxVersion   \* bound: User.sessionVersion

ASSUME AccountsAssumption == {Elsewhere, MaxSession, MaxVersion} \subseteq Nat

VARIABLES
    user,   \* the User rows
    sess,   \* the AuthSession rows, oldest first
    clerk   \* what each request has read and is about to write

accountsVars == <<user, sess, clerk>>

Standing == {"none", "on", "off", "gone"}
User     == [is : Standing, dev : BOOLEAN, archived : BOOLEAN, version : 0 .. MaxVersion]
\* A token family is named by its first row.
Session  == [user : Account, family : 1 .. MaxSession, version : 0 .. MaxVersion,
             is : {"open", "expired", "revoked"}]

\* What an identity transaction changes.
Change == {"password", "slips", "on", "off", "promote", "demote",
           "import", "importReset", "archive"}

Idle == [op |-> "idle"]
Job  ==
    {Idle}
    \cup [op : {"login"}, user : Account, version : 0 .. MaxVersion]
    \cup [op : {"rotate"}, row : 1 .. MaxSession, version : 0 .. MaxVersion]
    \cup [op : {"reuse"}, row : 1 .. MaxSession]
    \cup [op : {"sweep"}, rows : SUBSET (1 .. MaxSession)]
    \cup [op : {"asked"}, user : Account, change : Change]
    \cup [op : {"change"}, user : Account, change : Change,
          rows : SUBSET (1 .. MaxSession)]
    \cup [op : {"delete"}, user : Account]

AccountsTypeOK ==
    /\ user \in [Account -> User]
    /\ sess \in Seq(Session)
    /\ clerk \in [Clerk -> Job]

Exists(a)  == user[a].is \in {"on", "off"}
Active(a)  == user[a].is = "on"
Family(f)  == {r \in DOMAIN sess : sess[r].family = f}
Unrevoked(rows) == {r \in rows : sess[r].is # "revoked"}   \* revokedAt: null
RowsOf(a)  == {r \in DOMAIN sess : sess[r].user = a}
\* The active developers, as user.count counts them.
Developers == Elsewhere + Cardinality({a \in Account : Active(a) /\ user[a].dev})

\* JwtStrategy.validate: the access token minted with row r is accepted.
Honoured(r) ==
    /\ Active(sess[r].user)
    /\ user[sess[r].user].version = sess[r].version
    /\ sess[r].is = "open"

\* Mutant: the rows get a status nobody reads.
RevokeRowsClosed(s, rows) ==
    [r \in DOMAIN s |-> IF r \in rows THEN [s[r] EXCEPT !.is = "closed"] ELSE s[r]]
RevokeRows(s, rows) ==
    [r \in DOMAIN s |-> IF r \in rows THEN [s[r] EXCEPT !.is = "revoked"] ELSE s[r]]
NewSession(a, f, v) ==
    [user |-> a, family |-> f, version |-> v, is |-> "open"]

Begin(c, j) == clerk[c] = Idle /\ clerk' = [clerk EXCEPT ![c] = j]
End(c)      == clerk' = [clerk EXCEPT ![c] = Idle]

AccountsInit ==
    /\ user \in [Account -> [is : {"none", "on"}, dev : BOOLEAN,
                             archived : {FALSE}, version : {0}]]
    /\ Developers > 0
    /\ \A a \in Account : ~Active(a) => ~user[a].dev
    /\ sess = <<>>
    /\ clerk = [c \in Clerk |-> Idle]

-----------------------------------------------------------------------------
(* Signing in and out.                                                     *)

\* login: the password was right for the row read here.
Login(c, a) ==
    /\ Active(a)
    /\ Len(sess) < MaxSession
    /\ Begin(c, [op |-> "login", user |-> a, version |-> user[a].version])
    /\ UNCHANGED <<user, sess>>

\* issueSessionTokens: a session of a family of its own, with the version
\* read at the start.
OpenSession(c) ==
    /\ clerk[c].op = "login"
    /\ Len(sess) < MaxSession
    /\ LET a == clerk[c].user IN
       sess' = IF user[a].is = "gone" THEN sess      \* the foreign key refuses
               ELSE Append(sess, NewSession(a, Len(sess) + 1, clerk[c].version))
    /\ End(c)
    /\ UNCHANGED user

\* refresh: the session of the presented token and its user are read.
Refresh(c, r) ==
    /\ Active(sess[r].user)
    /\ IF sess[r].is # "open"
       THEN Begin(c, [op |-> "reuse", row |-> r])
       ELSE Begin(c, [op |-> "rotate", row |-> r,
                      version |-> user[sess[r].user].version])
    /\ UNCHANGED <<user, sess>>

\* Mutant: a rotation that does not look whether the row is still open.
RotateBlind(c) ==
    /\ clerk[c].op = "rotate"
    /\ Len(sess) < MaxSession
    /\ LET r == clerk[c].row IN
       sess' = Append(RevokeRows(sess, {r}),
                      NewSession(sess[r].user, sess[r].family, clerk[c].version))
    /\ End(c)
    /\ UNCHANGED user

\* Mutant: the new row is created, the presented one is left open when the
\* transaction loses the race.
RotateKeeps(c) ==
    /\ clerk[c].op = "rotate"
    /\ Len(sess) < MaxSession
    /\ LET r == clerk[c].row IN
       sess' = IF sess[r].is = "revoked" THEN sess
               ELSE Append(sess, NewSession(sess[r].user, sess[r].family, clerk[c].version))
    /\ End(c)
    /\ UNCHANGED user

\* The rotation: the row is revoked and its successor created, or, when the
\* row is no longer open, nothing at all.
Rotate(c) ==
    /\ clerk[c].op = "rotate"
    /\ Len(sess) < MaxSession
    /\ LET r == clerk[c].row
           s == sess[r] IN
       sess' = IF s.is = "revoked" \/ user[s.user].is = "gone" THEN sess
               ELSE Append(RevokeRows(sess, {r}),
                           NewSession(s.user, s.family, clerk[c].version))
    /\ End(c)
    /\ UNCHANGED user

\* A dead token was presented: the family's open rows are to be revoked.
ReuseFound(c) ==
    /\ clerk[c].op = "reuse"
    /\ clerk' = [clerk EXCEPT ![c] =
           [op |-> "sweep", rows |-> Unrevoked(Family(sess[clerk[c].row].family))]]
    /\ UNCHANGED <<user, sess>>

\* logout: one row; logoutAll and revokeUserSessions: every open row.
Logout(c, r) ==
    /\ sess[r].is # "revoked"
    /\ Begin(c, [op |-> "sweep", rows |-> {r}])
    /\ UNCHANGED <<user, sess>>

LogoutAll(c, a) ==
    /\ Unrevoked(RowsOf(a)) # {}
    /\ Begin(c, [op |-> "sweep", rows |-> Unrevoked(RowsOf(a))])
    /\ UNCHANGED <<user, sess>>

Sweep(c) ==
    /\ clerk[c].op = "sweep"
    /\ sess' = RevokeRows(sess, clerk[c].rows)
    /\ End(c)
    /\ UNCHANGED user

Expire(r) ==
    /\ sess[r].is = "open"
    /\ sess' = [sess EXCEPT ![r].is = "expired"]
    /\ UNCHANGED <<user, clerk>>

-----------------------------------------------------------------------------
(* Identity.                                                               *)

\* The reads before an identity transaction.  "password" is changePassword, or
\* account slips that revoke the sessions ("slips" are the ones that do not);
\* updateUser counts the developers before it deactivates one, and only then;
\* the school import refuses an archived account.
MayChange(a, change) ==
    CASE change = "password" -> Active(a)
      [] change = "slips"    -> Active(a) /\ ~user[a].dev
      [] change = "on"       -> user[a].is = "off"
      [] change = "promote"  -> Exists(a) /\ ~user[a].dev
      [] change = "demote"   -> Exists(a) /\ user[a].dev
      [] change = "off"      -> Exists(a) /\ (user[a].dev => Developers > 1)
      [] change \in {"import", "importReset"} -> Exists(a) /\ ~user[a].archived
      [] change = "archive"                -> FALSE     \* see AskDelete

Ask(c, a, change) ==
    /\ MayChange(a, change)
    /\ user[a].version < MaxVersion \/ change = "import"
    /\ Begin(c, [op |-> "asked", user |-> a, change |-> change])
    /\ UNCHANGED <<user, sess>>

\* deleteAccounts: an account with any history is archived, as is any account
\* when the clerk says so; one without is deleted.
AskDelete(c, a) ==
    /\ Exists(a) /\ ~user[a].dev /\ ~user[a].archived
    /\ \/ Begin(c, [op |-> "asked", user |-> a, change |-> "archive"])
       \/ RowsOf(a) = {} /\ Begin(c, [op |-> "delete", user |-> a])
    /\ UNCHANGED <<user, sess>>

\* deleteUserPermanently, by a developer.
AskDeletePermanently(c, a) ==
    /\ Exists(a)
    /\ user[a].dev => Developers > 1
    /\ RowsOf(a) = {}
    /\ Begin(c, [op |-> "delete", user |-> a])
    /\ UNCHANGED <<user, sess>>

\* user.update takes the row of the user for the rest of the transaction.
Held(a) == \E d \in Clerk : clerk[d].op = "change" /\ clerk[d].user = a

Sweeps(change)   == change \notin {"slips", "import", "importReset"}

\* The transaction takes the user's row, and its updateMany sees the
\* sessions not yet revoked.
BeginChange(c) ==
    /\ clerk[c].op = "asked"
    /\ LET a == clerk[c].user
           change == clerk[c].change IN
       /\ ~Held(a)
       /\ clerk' = [clerk EXCEPT ![c] =
              IF ~Exists(a) THEN Idle                 \* user.update throws
              ELSE [op |-> "change", user |-> a, change |-> change,
                    rows |-> IF Sweeps(change) THEN Unrevoked(RowsOf(a)) ELSE {}]]
    /\ UNCHANGED <<user, sess>>

\* Mutant: a deactivation leaves the version alone.
ChangedSameVersion(u, change) ==
    [u EXCEPT
        !.is      = CASE change \in {"off", "archive"} -> "off"
                      [] change \in {"on", "import", "importReset"} -> "on"
                      [] OTHER -> @,
        !.version = IF change \in {"import", "off"} THEN @ ELSE @ + 1]

\* What user.update writes.  Every change but a plain import increments
\* sessionVersion; an import gives a role that is never DEVELOPER.
Changed(u, change) ==
    [u EXCEPT
        !.is       = CASE change \in {"off", "archive"} -> "off"
                       [] change \in {"on", "import", "importReset"} -> "on"
                       [] OTHER -> @,
        !.dev      = CASE change = "promote" -> TRUE
                       [] change \in {"demote", "import", "importReset"} -> FALSE
                       [] OTHER -> @,
        !.archived = @ \/ change = "archive",
        !.version  = IF change = "import" THEN @ ELSE @ + 1]

CommitChange(c) ==
    /\ clerk[c].op = "change"
    /\ LET j == clerk[c] IN
       /\ user[j.user].version < MaxVersion \/ j.change = "import"
       /\ user' = [user EXCEPT ![j.user] = Changed(@, j.change)]
       /\ sess' = RevokeRows(sess, j.rows)
    /\ End(c)

\* user.delete, and the cascade to the rows that refer to the user.
Delete(c) ==
    /\ clerk[c].op = "delete"
    /\ ~Held(clerk[c].user)
    /\ LET a == clerk[c].user IN
       /\ user' = [user EXCEPT ![a].is = IF Exists(a) THEN "gone" ELSE @]
       /\ sess' = RevokeRows(sess, RowsOf(a))
    /\ End(c)

\* createUser, and the rows an import creates.
CreateUser(a, dev) ==
    /\ user[a].is = "none"
    /\ user' = [user EXCEPT ![a].is = "on", ![a].dev = dev]
    /\ UNCHANGED <<sess, clerk>>

-----------------------------------------------------------------------------

Requests(c) ==
    \/ \E a \in Account :
          \/ Login(c, a) \/ LogoutAll(c, a)
          \/ AskDelete(c, a) \/ AskDeletePermanently(c, a)
          \/ \E change \in Change : Ask(c, a, change)
    \/ \E r \in DOMAIN sess : Refresh(c, r) \/ Logout(c, r)

Continues(c) ==
    \/ OpenSession(c) \/ Rotate(c) \/ ReuseFound(c) \/ Sweep(c)
    \/ BeginChange(c) \/ CommitChange(c) \/ Delete(c)

AccountsNext ==
    \/ \E c \in Clerk : Requests(c) \/ Continues(c)
    \/ \E r \in DOMAIN sess : Expire(r)
    \/ \E a \in Account, dev \in BOOLEAN : CreateUser(a, dev)

AccountsSpec == AccountsInit /\ [][AccountsNext]_accountsVars

-----------------------------------------------------------------------------
(* Properties.                                                             *)

\* However refreshes, sign-outs and changes overlap, one sign-in has at most
\* one open session: two tabs that refresh with the same token do not both
\* get a successor (the updateMany with revokedAt null at auth.service.ts:187).
OneOpenPerFamily ==
    \A f \in DOMAIN sess : Cardinality(Unrevoked(Family(f))) <= 1

\* A sign-in whose sessions are all revoked stays out: a refresh that was
\* under way does not bring it back.
DeadFamilyStaysDead ==
    [][\A f \in DOMAIN sess :
          Family(f) # {} /\ Unrevoked(Family(f)) = {} => Unrevoked(Family(f))' = {}]_accountsVars

\* An access token that was refused once is never accepted again, although an
\* import switches a deactivated account back on without a new version and a
\* sign-in under way opens its session after the deactivation revoked them.
RefusedForGood ==
    [][\A r \in DOMAIN sess : ~Honoured(r) => ~Honoured(r)']_accountsVars

\* There is always an active developer account (identity.service.ts:421 and
\* :819 refuse to take the last one away).
DeveloperRemains == Developers > 0
=============================================================================
