---------------------------- MODULE OfficeProofs ----------------------------
(***************************************************************************)
(* Theorems about three desks of the office: Accounts, for any accounts,   *)
(* requests and bounds, ReaderDevices, for any readers, requests and       *)
(* limits, and Enrolment, for any rows, classes, days and requests.  None  *)
(* reads or writes what another keeps.                                     *)
(***************************************************************************)
EXTENDS MCOffice, TimetableProofs, FiniteSetTheorems, TLAPS

-----------------------------------------------------------------------------
(* Accounts and their sessions.                                             *)

\* A token that is being presented is in the table: rows are never deleted
\* while a request looks at them, they are marked.
RowsThere == \A c \in Clerk :
    clerk[c].op \in {"rotate", "reuse"} => clerk[c].row \in DOMAIN sess

\* A family is named by a row that is there, its first one.
FamiliesNamed == \A r \in DOMAIN sess : sess[r].family \in 1 .. r

\* OneOpenPerFamily without counting.
OneOpen == \A r, q \in DOMAIN sess :
    /\ sess[r].family = sess[q].family
    /\ sess[r].is # "revoked" /\ sess[q].is # "revoked"
    => r = q

\* The table keeps its bound, and with it the jobs that name a row.
TableFits == Len(sess) <= MaxSession

FamilyInv == RowsThere /\ FamiliesNamed /\ OneOpen

\* Requests that will open a session, and whose.
Signing(c) == clerk[c].op \in {"login", "rotate"}
UserOf(c)  == IF clerk[c].op = "rotate" THEN sess[clerk[c].row].user ELSE clerk[c].user

\* No session, open or about to be, carries a version its user has not reached.
NoVersionAhead ==
    /\ \A r \in DOMAIN sess : sess[r].version <= user[sess[r].user].version
    /\ \A c \in Clerk : Signing(c) => clerk[c].version <= user[UserOf(c)].version

\* Whoever carries the version of today belongs to an account that is active:
\* what deactivates an account gives it a new version.
CurrentMeansActive ==
    /\ \A r \in DOMAIN sess :
          sess[r].is = "open" /\ sess[r].version = user[sess[r].user].version
          => Active(sess[r].user)
    /\ \A c \in Clerk :
          Signing(c) /\ clerk[c].version = user[UserOf(c)].version
          => Active(UserOf(c)) \/ user[UserOf(c)].is = "gone"

\* Nobody deletes an account whose row a transaction holds.
ChangesExist == \A c \in Clerk : clerk[c].op = "change" => Exists(clerk[c].user)

HonourInv == NoVersionAhead /\ CurrentMeansActive /\ ChangesExist

AccountsInv == AccountsTypeOK /\ TableFits /\ FamilyInv /\ HonourInv

-----------------------------------------------------------------------------
(* Sessions and jobs.                                                       *)

\* What a bulk updateMany does to the table.
LEMMA RevokeFacts ==
    ASSUME NEW s \in Seq(Session), NEW rows
    PROVE  /\ RevokeRows(s, rows) \in Seq(Session)
           /\ DOMAIN RevokeRows(s, rows) = DOMAIN s
           /\ Len(RevokeRows(s, rows)) = Len(s)
           /\ \A r \in DOMAIN s :
                /\ RevokeRows(s, rows)[r].user = s[r].user
                /\ RevokeRows(s, rows)[r].family = s[r].family
                /\ RevokeRows(s, rows)[r].version = s[r].version
                /\ RevokeRows(s, rows)[r].is = IF r \in rows THEN "revoked" ELSE s[r].is
<1> DEFINE t == RevokeRows(s, rows)
<1>1. \A r \in DOMAIN s : s[r] \in Session
  OBVIOUS
<1>2. \A r \in DOMAIN s :
        /\ t[r] \in Session
        /\ t[r].user = s[r].user /\ t[r].family = s[r].family
        /\ t[r].version = s[r].version
        /\ t[r].is = IF r \in rows THEN "revoked" ELSE s[r].is
  BY <1>1 DEF RevokeRows, Session
<1>3. t = [r \in 1 .. Len(s) |-> t[r]]
  BY DEF RevokeRows
<1>4. DOMAIN t = 1 .. Len(s) /\ Len(s) \in Nat
  BY DEF RevokeRows
<1>5. \A r \in 1 .. Len(s) : t[r] \in Session
  BY <1>2
<1> HIDE DEF t
<1>6. t \in [1 .. Len(s) -> Session]
  BY <1>3, <1>5
<1>7. t \in Seq(Session) /\ Len(t) = Len(s)
  BY <1>4, <1>6
<1> QED
  BY <1>2, <1>4, <1>7 DEF t

\* The jobs a request may have, field by field.
LEMMA ClerkFields ==
    ASSUME clerk \in [Clerk -> Job], NEW c \in Clerk
    PROVE  /\ clerk[c].op = "login" =>
                clerk[c].user \in Account /\ clerk[c].version \in 0 .. MaxVersion
           /\ clerk[c].op = "rotate" =>
                clerk[c].row \in 1 .. MaxSession /\ clerk[c].version \in 0 .. MaxVersion
           /\ clerk[c].op = "reuse" => clerk[c].row \in 1 .. MaxSession
           /\ clerk[c].op = "asked" => clerk[c].user \in Account /\ clerk[c].change \in Change
           /\ clerk[c].op = "change" => clerk[c].user \in Account /\ clerk[c].change \in Change
           /\ clerk[c].op = "delete" => clerk[c].user \in Account
<1>1. clerk[c] \in Job
  OBVIOUS
<1> QED
  BY <1>1 DEF Job, Idle

\* A request that begins or ends.
LEMMA ClerkTypes ==
    ASSUME clerk \in [Clerk -> Job], NEW c \in Clerk
    PROVE  /\ End(c) => clerk' \in [Clerk -> Job]
           /\ \A j \in Job : Begin(c, j) => clerk' \in [Clerk -> Job]
           /\ Idle \in Job
BY DEF Begin, End, Job

-----------------------------------------------------------------------------
(* What a step may do to the table of sessions.                             *)

\* Rows keep whose and of which sign-in they are, and are only closed.
RowsKept == \A r \in DOMAIN sess :
    /\ r \in DOMAIN sess'
    /\ sess'[r].user = sess[r].user
    /\ sess'[r].family = sess[r].family
    /\ sess'[r].version = sess[r].version
    /\ sess[r].is = "revoked" => sess'[r].is = "revoked"
    /\ sess'[r].is = "open" => sess[r].is = "open"

Closes == RowsKept /\ DOMAIN sess' = DOMAIN sess

\* One row more.
Opens(a, f, v) ==
    LET n == Len(sess) + 1 IN
    /\ RowsKept
    /\ DOMAIN sess' = DOMAIN sess \cup {n}
    /\ sess'[n].user = a /\ sess'[n].family = f
    /\ sess'[n].version = v /\ sess'[n].is = "open"

LEMMA SweepCloses ==
    ASSUME AccountsTypeOK, NEW rows, sess' = RevokeRows(sess, rows)
    PROVE  /\ Closes /\ sess' \in Seq(Session)
           /\ \A r \in DOMAIN sess \cap rows : sess'[r].is = "revoked"
<1>1. sess \in Seq(Session)
  BY DEF AccountsTypeOK
<1> QED
  BY <1>1, RevokeFacts DEF Closes, RowsKept

LEMMA StayingCloses ==
    ASSUME sess' = sess
    PROVE  Closes
BY DEF Closes, RowsKept

LEMMA ExpireCloses ==
    ASSUME AccountsTypeOK, NEW r \in DOMAIN sess, Expire(r)
    PROVE  Closes /\ sess' \in Seq(Session)
<1>1. sess \in Seq(Session) /\ \A q \in DOMAIN sess : sess[q] \in Session
  BY DEF AccountsTypeOK
<1>2. [sess[r] EXCEPT !.is = "expired"] \in Session
  BY <1>1 DEF Session
<1>3. sess' = [sess EXCEPT ![r] = [sess[r] EXCEPT !.is = "expired"]]
  BY DEF Expire
<1>4. sess' \in Seq(Session) /\ DOMAIN sess' = DOMAIN sess
  BY <1>1, <1>2, <1>3
<1>5. \A q \in DOMAIN sess : sess'[q] = IF q = r THEN [sess[r] EXCEPT !.is = "expired"] ELSE sess[q]
  BY <1>3
<1>6. RowsKept
  BY <1>1, <1>4, <1>5 DEF RowsKept, Expire, Session
<1> QED
  BY <1>4, <1>6 DEF Closes

\* A session is opened: the rows before it stay as `old` has them.
LEMMA AppendOpens ==
    ASSUME AccountsTypeOK, NEW old \in Seq(Session), Len(old) = Len(sess),
           NEW a \in Account, NEW f \in 1 .. MaxSession, NEW v \in 0 .. MaxVersion,
           \A r \in DOMAIN sess :
              /\ old[r].user = sess[r].user /\ old[r].family = sess[r].family
              /\ old[r].version = sess[r].version
              /\ old[r].is \in {sess[r].is, "revoked"},
           sess' = Append(old, NewSession(a, f, v))
    PROVE  /\ Opens(a, f, v) /\ sess' \in Seq(Session)
           /\ \A r \in DOMAIN sess : sess'[r] = old[r]
<1>1. sess \in Seq(Session)
  BY DEF AccountsTypeOK
<1>2. NewSession(a, f, v) \in Session
  BY DEF NewSession, Session
<1>3. /\ sess' \in Seq(Session)
      /\ Len(sess') = Len(sess) + 1
      /\ sess'[Len(sess) + 1] = NewSession(a, f, v)
      /\ \A r \in 1 .. Len(sess) : sess'[r] = old[r]
  BY <1>1, <1>2
<1>4. DOMAIN sess = 1 .. Len(sess) /\ DOMAIN sess' = 1 .. (Len(sess) + 1) /\ Len(sess) \in Nat
  BY <1>1, <1>3
<1>5. RowsKept
  BY <1>3, <1>4 DEF RowsKept
<1>6. /\ DOMAIN sess' = DOMAIN sess \cup {Len(sess) + 1}
      /\ NewSession(a, f, v).user = a /\ NewSession(a, f, v).family = f
      /\ NewSession(a, f, v).version = v /\ NewSession(a, f, v).is = "open"
  BY <1>4 DEF NewSession
<1> QED
  BY <1>3, <1>4, <1>5, <1>6 DEF Opens

\* Every step closes sessions, or opens one: at a sign-in, of a family of its
\* own, and in a rotation, of the family of the row it revokes.
SignInOpens(c) ==
    /\ clerk[c].op = "login"
    /\ user[clerk[c].user].is # "gone"
    /\ UNCHANGED user
    /\ Opens(clerk[c].user, Len(sess) + 1, clerk[c].version)

RotationOpens(c) ==
    LET r == clerk[c].row IN
    /\ clerk[c].op = "rotate"
    /\ sess[r].is # "revoked" /\ sess'[r].is = "revoked"
    /\ user[sess[r].user].is # "gone"
    /\ UNCHANGED user
    /\ Opens(sess[r].user, sess[r].family, clerk[c].version)

LEMMA SignInStep ==
    ASSUME AccountsTypeOK, NEW c \in Clerk, OpenSession(c)
    PROVE  /\ Closes \/ (SignInOpens(c) /\ Len(sess) < MaxSession)
           /\ sess' \in Seq(Session)
<1>1. CASE user[clerk[c].user].is = "gone"
  BY <1>1, StayingCloses DEF OpenSession, AccountsTypeOK
<1>2. CASE user[clerk[c].user].is # "gone"
  <2>1. clerk[c].user \in Account /\ clerk[c].version \in 0 .. MaxVersion
    BY ClerkFields DEF OpenSession, AccountsTypeOK
  <2>2. sess \in Seq(Session) /\ Len(sess) + 1 \in 1 .. MaxSession
    BY AccountsAssumption DEF OpenSession, AccountsTypeOK
  <2>3. sess' = Append(sess, NewSession(clerk[c].user, Len(sess) + 1, clerk[c].version))
    BY <1>2 DEF OpenSession
  <2>4. Opens(clerk[c].user, Len(sess) + 1, clerk[c].version) /\ sess' \in Seq(Session)
    BY <2>1, <2>2, <2>3, AppendOpens
  <2> QED
    BY <1>2, <2>4 DEF SignInOpens, OpenSession
<1> QED
  BY <1>1, <1>2

LEMMA RotationStep ==
    ASSUME AccountsTypeOK, RowsThere, NEW c \in Clerk, Rotate(c)
    PROVE  /\ Closes \/ (RotationOpens(c) /\ Len(sess) < MaxSession)
           /\ sess' \in Seq(Session)
<1> DEFINE r == clerk[c].row
           old == RevokeRows(sess, {r})
<1>1. CASE sess[r].is = "revoked" \/ user[sess[r].user].is = "gone"
  BY <1>1, StayingCloses DEF Rotate, AccountsTypeOK
<1>2. CASE ~(sess[r].is = "revoked" \/ user[sess[r].user].is = "gone")
  <2>1. r \in DOMAIN sess /\ clerk[c].version \in 0 .. MaxVersion
    BY ClerkFields DEF Rotate, RowsThere, AccountsTypeOK
  <2>2. sess \in Seq(Session) /\ sess[r] \in Session
    BY <2>1 DEF AccountsTypeOK
  <2>3. sess[r].user \in Account /\ sess[r].family \in 1 .. MaxSession
    BY <2>2 DEF Session
  <2>4. /\ old \in Seq(Session) /\ Len(old) = Len(sess)
        /\ \A q \in DOMAIN sess :
             /\ old[q].user = sess[q].user /\ old[q].family = sess[q].family
             /\ old[q].version = sess[q].version
             /\ old[q].is = IF q \in {r} THEN "revoked" ELSE sess[q].is
    BY <2>2, RevokeFacts
  <2>5. sess' = Append(old, NewSession(sess[r].user, sess[r].family, clerk[c].version))
    BY <1>2 DEF Rotate
  <2> HIDE DEF old
  <2>6. /\ Opens(sess[r].user, sess[r].family, clerk[c].version)
        /\ sess' \in Seq(Session) /\ \A q \in DOMAIN sess : sess'[q] = old[q]
    BY <2>1, <2>3, <2>4, <2>5, AppendOpens
  <2>7. sess'[r].is = "revoked"
    BY <2>1, <2>4, <2>6
  <2> QED
    BY <1>2, <2>6, <2>7 DEF RotationOpens, Rotate
<1> QED
  BY <1>1, <1>2

LEMMA SessionStep ==
    ASSUME AccountsTypeOK, RowsThere, [AccountsNext]_accountsVars
    PROVE  /\ sess' \in Seq(Session)
           /\ \/ Closes
              \/ /\ Len(sess) < MaxSession
                 /\ \E c \in Clerk : SignInOpens(c) \/ RotationOpens(c)
<1>1. sess \in Seq(Session)
  BY DEF AccountsTypeOK
<1>2. CASE UNCHANGED accountsVars
  BY <1>1, <1>2, StayingCloses DEF accountsVars
<1>3. ASSUME NEW c \in Clerk, Requests(c)
      PROVE  sess' = sess
  BY <1>3 DEF Requests, Login, LogoutAll, AskDelete, AskDeletePermanently, Ask, Refresh, Logout
<1>4. ASSUME NEW c \in Clerk, ReuseFound(c) \/ BeginChange(c)
      PROVE  sess' = sess
  BY <1>4 DEF ReuseFound, BeginChange
<1>5. ASSUME NEW c \in Clerk, Sweep(c) \/ CommitChange(c) \/ Delete(c)
      PROVE  Closes /\ sess' \in Seq(Session)
  <2>1. PICK rows : sess' = RevokeRows(sess, rows)
    BY <1>5 DEF Sweep, CommitChange, Delete
  <2> QED
    BY <2>1, SweepCloses
<1>6. ASSUME NEW a \in Account, NEW dev \in BOOLEAN, CreateUser(a, dev)
      PROVE  sess' = sess
  BY <1>6 DEF CreateUser
<1> QED
  BY <1>1, <1>2, <1>3, <1>4, <1>5, <1>6, SignInStep, RotationStep, ExpireCloses, StayingCloses
     DEF AccountsNext, Continues

-----------------------------------------------------------------------------
(* What a step may do to the accounts and to the requests.                  *)

\* What user.update makes of a row.
LEMMA ChangedFacts ==
    ASSUME NEW u \in User, NEW change \in Change,
           u.version < MaxVersion \/ change = "import"
    PROVE  /\ Changed(u, change) \in User
           /\ change # "import" => Changed(u, change).version = u.version + 1
           /\ change = "import" => /\ Changed(u, change).version = u.version
                                   /\ Changed(u, change).is = "on"
           /\ Changed(u, change).is \in {"on", "off", u.is}
<1> DEFINE is == CASE change \in {"off", "archive"} -> "off"
                   [] change \in {"on", "import", "importReset"} -> "on"
                   [] OTHER -> u.is
           dev == CASE change = "promote" -> TRUE
                    [] change \in {"demote", "import", "importReset"} -> FALSE
                    [] OTHER -> u.dev
           archived == u.archived \/ change = "archive"
           version == IF change = "import" THEN u.version ELSE u.version + 1
<1>1. /\ u.is \in Standing /\ u.dev \in BOOLEAN /\ u.archived \in BOOLEAN
      /\ u.version \in 0 .. MaxVersion
  BY DEF User
<1>2. is \in Standing /\ is \in {"on", "off", u.is} /\ (change = "import" => is = "on")
  BY <1>1 DEF Standing
<1>3. dev \in BOOLEAN /\ archived \in BOOLEAN
  BY <1>1
<1>4. version \in 0 .. MaxVersion
  BY <1>1, AccountsAssumption
<1>5. Changed(u, change) =
        [u EXCEPT !.is = is, !.dev = dev, !.archived = archived, !.version = version]
  BY DEF Changed
<1> HIDE DEF is, dev, archived, version
<1>6. /\ Changed(u, change) \in User
      /\ Changed(u, change).is = is /\ Changed(u, change).version = version
  BY <1>2, <1>3, <1>4, <1>5 DEF User
<1> QED
  BY <1>2, <1>6 DEF version

\* Versions never go back; who is switched off or on gets a new one, but for an
\* import, which switches on; nobody comes back who is gone, and nobody is gone
\* whose row is held.
UserAges(a) ==
    /\ user'[a].version >= user[a].version
    /\ user'[a].version = user[a].version /\ user'[a].is # user[a].is =>
          \/ user'[a].is = "on"
          \/ user'[a].is = "gone" /\ \A r \in DOMAIN sess : sess[r].user = a => sess'[r].is = "revoked"
    /\ user[a].is = "gone" => user'[a].is = "gone"
    /\ Exists(a) /\ Held(a) => user'[a].is \in {"on", "off"}

LEMMA UserStep ==
    ASSUME AccountsTypeOK, ChangesExist, [AccountsNext]_accountsVars
    PROVE  user' \in [Account -> User] /\ \A a \in Account : UserAges(a)
<1>1. /\ user \in [Account -> User]
      /\ \A a \in Account : user[a] \in User /\ user[a].version \in Nat /\ user[a].is \in Standing
  BY AccountsAssumption DEF AccountsTypeOK, User
<1>2. ASSUME user' = user
      PROVE  user' \in [Account -> User] /\ \A a \in Account : UserAges(a)
  BY <1>1, <1>2 DEF UserAges, Exists
<1>3. ASSUME NEW c \in Clerk, Requests(c)
      PROVE  user' = user
  BY <1>3 DEF Requests, Login, LogoutAll, AskDelete, AskDeletePermanently, Ask, Refresh, Logout
<1>4. ASSUME NEW c \in Clerk,
             OpenSession(c) \/ Rotate(c) \/ ReuseFound(c) \/ Sweep(c) \/ BeginChange(c)
      PROVE  user' = user
  BY <1>4 DEF OpenSession, Rotate, ReuseFound, Sweep, BeginChange
<1>5. ASSUME NEW r \in DOMAIN sess, Expire(r)
      PROVE  user' = user
  BY <1>5 DEF Expire
<1>6. ASSUME NEW c \in Clerk, CommitChange(c)
      PROVE  user' \in [Account -> User] /\ \A a \in Account : UserAges(a)
  <2> DEFINE b == clerk[c].user
             new == Changed(user[b], clerk[c].change)
  <2>1. b \in Account /\ clerk[c].change \in Change
    BY <1>6, ClerkFields DEF CommitChange, AccountsTypeOK
  <2>2. user' = [user EXCEPT ![b] = new]
    BY <1>6 DEF CommitChange
  <2>3. /\ new \in User
        /\ new.version = user[b].version \/ new.version = user[b].version + 1
        /\ new.version = user[b].version => new.is = "on"
        /\ new.is \in {"on", "off", user[b].is}
    BY <1>1, <1>6, <2>1, ChangedFacts DEF CommitChange
  <2>4. user[b].is \in {"on", "off"}
    BY <1>6, <2>1 DEF ChangesExist, CommitChange, Exists
  <2> HIDE DEF b, new
  <2> QED
    BY <1>1, <2>1, <2>2, <2>3, <2>4 DEF UserAges, Exists
<1>7. ASSUME NEW c \in Clerk, Delete(c)
      PROVE  user' \in [Account -> User] /\ \A a \in Account : UserAges(a)
  <2> DEFINE b == clerk[c].user
             is == IF Exists(b) THEN "gone" ELSE user[b].is
  <2>1. b \in Account
    BY <1>7, ClerkFields DEF Delete, AccountsTypeOK
  <2>2. user' = [user EXCEPT ![b].is = is]
    BY <1>7 DEF Delete
  <2>3. \A r \in DOMAIN sess : sess[r].user = b => sess'[r].is = "revoked"
    <3>1. \A r \in DOMAIN sess : r \in RowsOf(b) <=> sess[r].user = b
      BY DEF RowsOf
    <3>2. sess' = RevokeRows(sess, RowsOf(b))
      BY <1>7 DEF Delete
    <3>3. sess \in Seq(Session)
      BY DEF AccountsTypeOK
    <3> HIDE DEF b
    <3> QED
      BY <3>1, <3>2, <3>3, RevokeFacts
  <2>4. is \in Standing /\ is \in {user[b].is, "gone"} /\ ~Held(b)
    BY <1>1, <1>7, <2>1 DEF Standing, Delete
  <2> HIDE DEF b, is
  <2>5. user' \in [Account -> User]
    BY <1>1, <2>1, <2>2, <2>4 DEF User
  <2>6. \A a \in Account : /\ user'[a].version = user[a].version
                           /\ a # b => user'[a].is = user[a].is
                           /\ a = b => user'[a].is \in {user[a].is, "gone"}
    BY <1>1, <2>1, <2>2, <2>4 DEF User
  <2> QED
    BY <1>1, <2>3, <2>4, <2>5, <2>6 DEF UserAges, Exists
<1>8. ASSUME NEW b \in Account, NEW dev \in BOOLEAN, CreateUser(b, dev)
      PROVE  user' \in [Account -> User] /\ \A a \in Account : UserAges(a)
  <2>1. user' \in [Account -> User]
    BY <1>1, <1>8 DEF CreateUser, User, Standing
  <2>2. \A a \in Account : /\ user'[a].version = user[a].version
                           /\ user'[a].is = IF a = b THEN "on" ELSE user[a].is
    BY <1>1, <1>8 DEF CreateUser, User
  <2>3. user[b].is # "gone"
    BY <1>8 DEF CreateUser
  <2> QED
    BY <1>1, <2>1, <2>2, <2>3 DEF UserAges, Exists
<1>9. CASE UNCHANGED accountsVars
  BY <1>2, <1>9 DEF accountsVars
<1> QED
  BY <1>2, <1>3, <1>4, <1>5, <1>6, <1>7, <1>8, <1>9 DEF AccountsNext, Continues

\* A job that a request did not have before was made from what is in the tables.
Fresh(d) ==
    LET j == clerk'[d] IN
    \/ j.op \in {"idle", "sweep", "asked", "delete"}
    \/ /\ j.op = "login" /\ UNCHANGED <<user, sess>>
       /\ Active(j.user) /\ j.version = user[j.user].version
    \/ /\ j.op = "rotate" /\ UNCHANGED <<user, sess>>
       /\ j.row \in DOMAIN sess
       /\ Active(sess[j.row].user) /\ j.version = user[sess[j.row].user].version
    \/ /\ j.op = "reuse" /\ UNCHANGED <<user, sess>>
       /\ j.row \in DOMAIN sess
    \/ /\ j.op = "change" /\ UNCHANGED <<user, sess>>
       /\ Exists(j.user)

LEMMA JobStep ==
    ASSUME AccountsTypeOK, TableFits, RowsThere, [AccountsNext]_accountsVars
    PROVE  /\ clerk' \in [Clerk -> Job]
           /\ \A d \in Clerk : clerk'[d] = clerk[d] \/ Fresh(d)
<1>1. /\ clerk \in [Clerk -> Job] /\ user \in [Account -> User]
      /\ sess \in Seq(Session)
  BY DEF AccountsTypeOK
<1>2. \A a \in Account : user[a].version \in 0 .. MaxVersion
  BY <1>1 DEF User
<1>3. \A r \in DOMAIN sess : sess[r].user \in Account
  <2>1. \A r \in DOMAIN sess : sess[r] \in Session
    BY <1>1
  <2> QED
    BY <2>1 DEF Session
<1>4. ASSUME NEW c \in Clerk, End(c)
      PROVE  /\ clerk' \in [Clerk -> Job]
             /\ \A d \in Clerk : clerk'[d] = clerk[d] \/ Fresh(d)
  <2>1. clerk'[c] = Idle /\ \A d \in Clerk \ {c} : clerk'[d] = clerk[d]
    BY <1>1, <1>4 DEF End
  <2>2. Fresh(c)
    BY <2>1 DEF Fresh, Idle
  <2> QED
    BY <1>1, <1>4, <2>1, <2>2, ClerkTypes
<1>5. ASSUME NEW c \in Clerk, NEW j \in Job, clerk' = [clerk EXCEPT ![c] = j], 
             clerk'[c] = j => Fresh(c)
      PROVE  /\ clerk' \in [Clerk -> Job]
             /\ \A d \in Clerk : clerk'[d] = clerk[d] \/ Fresh(d)
  BY <1>1, <1>5
<1>6. ASSUME NEW c \in Clerk, NEW a \in Account, Login(c, a)
      PROVE  /\ clerk' \in [Clerk -> Job]
             /\ \A d \in Clerk : clerk'[d] = clerk[d] \/ Fresh(d)
  <2> DEFINE j == [op |-> "login", user |-> a, version |-> user[a].version]
  <2>1. j \in Job
    BY <1>2 DEF Job
  <2>2. clerk'[c] = j => Fresh(c)
    BY <1>6 DEF Login, Fresh
  <2> QED
    BY <1>5, <1>6, <2>1, <2>2 DEF Login, Begin
<1>7. ASSUME NEW c \in Clerk, NEW r \in DOMAIN sess, Refresh(c, r)
      PROVE  /\ clerk' \in [Clerk -> Job]
             /\ \A d \in Clerk : clerk'[d] = clerk[d] \/ Fresh(d)
  <2> DEFINE reuse  == [op |-> "reuse", row |-> r]
             rotate == [op |-> "rotate", row |-> r, version |-> user[sess[r].user].version]
  <2>1. r \in 1 .. MaxSession /\ sess[r].user \in Account
    BY <1>1, <1>3, <1>7, AccountsAssumption DEF TableFits
  <2>2. reuse \in Job /\ rotate \in Job
    BY <1>2, <2>1 DEF Job
  <2>3. (clerk'[c] = rotate => Fresh(c)) /\ (clerk'[c] = reuse => Fresh(c))
    BY <1>7 DEF Refresh, Fresh
  <2>4. clerk' = [clerk EXCEPT ![c] = rotate] \/ clerk' = [clerk EXCEPT ![c] = reuse]
    BY <1>7 DEF Refresh, Begin
  <2> HIDE DEF reuse, rotate
  <2> QED
    BY <1>5, <2>2, <2>3, <2>4
<1>8. ASSUME NEW c \in Clerk, NEW rows \in SUBSET DOMAIN sess,
             clerk' = [clerk EXCEPT ![c] = [op |-> "sweep", rows |-> rows]]
      PROVE  /\ clerk' \in [Clerk -> Job]
             /\ \A d \in Clerk : clerk'[d] = clerk[d] \/ Fresh(d)
  <2> DEFINE j == [op |-> "sweep", rows |-> rows]
  <2>1. rows \in SUBSET (1 .. MaxSession)
    BY <1>1, AccountsAssumption DEF TableFits
  <2>2. j \in Job
    BY <2>1 DEF Job
  <2>3. clerk'[c] = j => Fresh(c)
    BY DEF Fresh
  <2> HIDE DEF j
  <2> QED
    BY <1>5, <1>8, <2>2, <2>3 DEF j
<1>9. ASSUME NEW c \in Clerk, NEW a \in Account, NEW change \in Change,
             Begin(c, [op |-> "asked", user |-> a, change |-> change])
      PROVE  /\ clerk' \in [Clerk -> Job]
             /\ \A d \in Clerk : clerk'[d] = clerk[d] \/ Fresh(d)
  <2> DEFINE j == [op |-> "asked", user |-> a, change |-> change]
  <2>1. j \in Job
    BY DEF Job
  <2>2. clerk'[c] = j => Fresh(c)
    BY DEF Fresh
  <2>3. clerk' = [clerk EXCEPT ![c] = j]
    BY <1>9 DEF Begin
  <2> HIDE DEF j
  <2> QED
    BY <1>5, <2>1, <2>2, <2>3
<1>10. ASSUME NEW c \in Clerk, NEW a \in Account, Begin(c, [op |-> "delete", user |-> a])
       PROVE  /\ clerk' \in [Clerk -> Job]
              /\ \A d \in Clerk : clerk'[d] = clerk[d] \/ Fresh(d)
  <2> DEFINE j == [op |-> "delete", user |-> a]
  <2>1. j \in Job
    BY DEF Job
  <2>2. clerk'[c] = j => Fresh(c)
    BY DEF Fresh
  <2>3. clerk' = [clerk EXCEPT ![c] = j]
    BY <1>10 DEF Begin
  <2> HIDE DEF j
  <2> QED
    BY <1>5, <2>1, <2>2, <2>3
<1>11. ASSUME NEW c \in Clerk, Requests(c)
       PROVE  /\ clerk' \in [Clerk -> Job]
              /\ \A d \in Clerk : clerk'[d] = clerk[d] \/ Fresh(d)
  <2>1. ASSUME NEW a \in Account, LogoutAll(c, a)
        PROVE  /\ clerk' \in [Clerk -> Job]
               /\ \A d \in Clerk : clerk'[d] = clerk[d] \/ Fresh(d)
    <3>1. Unrevoked(RowsOf(a)) \in SUBSET DOMAIN sess
      BY DEF Unrevoked, RowsOf
    <3>2. clerk' = [clerk EXCEPT ![c] = [op |-> "sweep", rows |-> Unrevoked(RowsOf(a))]]
      BY <2>1 DEF LogoutAll, Begin
    <3> QED
      BY <1>8, <3>1, <3>2
  <2>2. ASSUME NEW r \in DOMAIN sess, Logout(c, r)
        PROVE  /\ clerk' \in [Clerk -> Job]
               /\ \A d \in Clerk : clerk'[d] = clerk[d] \/ Fresh(d)
    <3>1. clerk' = [clerk EXCEPT ![c] = [op |-> "sweep", rows |-> {r}]]
      BY <2>2 DEF Logout, Begin
    <3>2. {r} \in SUBSET DOMAIN sess
      OBVIOUS
    <3> QED
      BY <1>8, <3>1, <3>2
  <2>3. ASSUME NEW a \in Account, AskDelete(c, a) \/ AskDeletePermanently(c, a)
        PROVE  /\ clerk' \in [Clerk -> Job]
               /\ \A d \in Clerk : clerk'[d] = clerk[d] \/ Fresh(d)
    <3>1. \/ Begin(c, [op |-> "asked", user |-> a, change |-> "archive"])
          \/ Begin(c, [op |-> "delete", user |-> a])
      BY <2>3 DEF AskDelete, AskDeletePermanently
    <3>2. "archive" \in Change
      BY DEF Change
    <3> QED
      BY <1>9, <1>10, <3>1, <3>2
  <2>4. ASSUME NEW a \in Account, NEW change \in Change, Ask(c, a, change)
        PROVE  /\ clerk' \in [Clerk -> Job]
               /\ \A d \in Clerk : clerk'[d] = clerk[d] \/ Fresh(d)
    BY <1>9, <2>4 DEF Ask
  <2> QED
    BY <1>6, <1>7, <1>11, <2>1, <2>2, <2>3, <2>4 DEF Requests
<1>12. ASSUME NEW c \in Clerk, ReuseFound(c)
       PROVE  /\ clerk' \in [Clerk -> Job]
              /\ \A d \in Clerk : clerk'[d] = clerk[d] \/ Fresh(d)
  <2> DEFINE rows == Unrevoked(Family(sess[clerk[c].row].family))
  <2>1. rows \in SUBSET DOMAIN sess
    BY DEF Unrevoked, Family
  <2>2. clerk' = [clerk EXCEPT ![c] = [op |-> "sweep", rows |-> rows]]
    BY <1>12 DEF ReuseFound
  <2> HIDE DEF rows
  <2> QED
    BY <1>8, <2>1, <2>2
<1>13. ASSUME NEW c \in Clerk, BeginChange(c)
       PROVE  /\ clerk' \in [Clerk -> Job]
              /\ \A d \in Clerk : clerk'[d] = clerk[d] \/ Fresh(d)
  <2> DEFINE a == clerk[c].user
             change == clerk[c].change
             rows == IF Sweeps(change) THEN Unrevoked(RowsOf(a)) ELSE {}
             j == [op |-> "change", user |-> a, change |-> change, rows |-> rows]
  <2>1. a \in Account /\ change \in Change
    BY <1>1, <1>13, ClerkFields DEF BeginChange
  <2>2. rows \in SUBSET (1 .. MaxSession)
    BY <1>1, AccountsAssumption DEF TableFits, Unrevoked, RowsOf
  <2>3. CASE ~Exists(a)
    BY <1>4, <1>13, <2>3 DEF BeginChange, End
  <2>4. CASE Exists(a)
    <3>1. clerk' = [clerk EXCEPT ![c] = j] /\ UNCHANGED <<user, sess>>
      BY <1>13, <2>4 DEF BeginChange
    <3> HIDE DEF a, change, rows
    <3>2. j \in Job
      BY <2>1, <2>2 DEF Job
    <3>3. clerk'[c] = j => Fresh(c)
      BY <2>4, <3>1 DEF Fresh
    <3> HIDE DEF j
    <3> QED
      BY <1>5, <3>1, <3>2, <3>3
  <2> QED
    BY <2>3, <2>4
<1>14. ASSUME NEW c \in Clerk,
              OpenSession(c) \/ Rotate(c) \/ Sweep(c) \/ CommitChange(c) \/ Delete(c)
       PROVE  End(c)
  BY <1>14 DEF OpenSession, Rotate, Sweep, CommitChange, Delete
<1>15. ASSUME clerk' = clerk
       PROVE  /\ clerk' \in [Clerk -> Job]
              /\ \A d \in Clerk : clerk'[d] = clerk[d] \/ Fresh(d)
  BY <1>1, <1>15
<1>16. ASSUME NEW a \in Account, NEW dev \in BOOLEAN, CreateUser(a, dev)
       PROVE  clerk' = clerk
  BY <1>16 DEF CreateUser
<1>17. ASSUME NEW r \in DOMAIN sess, Expire(r)
       PROVE  clerk' = clerk
  BY <1>17 DEF Expire
<1> QED
  BY <1>4, <1>11, <1>12, <1>13, <1>14, <1>15, <1>16, <1>17
     DEF AccountsNext, Continues, accountsVars

-----------------------------------------------------------------------------
(* The invariant holds at first, and every step keeps each part of it.      *)

LEMMA AccountsInvAtFirst == AccountsInit => AccountsInv
<1> SUFFICES ASSUME AccountsInit PROVE AccountsInv
  OBVIOUS
<1>1. AccountsTypeOK
  <2>1. user \in [Account -> User]
    <3>1. 0 \in 0 .. MaxVersion
      BY AccountsAssumption
    <3>2. [is : {"none", "on"}, dev : BOOLEAN, archived : {FALSE}, version : {0}] \subseteq User
      BY <3>1 DEF User, Standing
    <3> QED
      BY <3>2 DEF AccountsInit
  <2>2. clerk \in [Clerk -> Job]
    BY DEF AccountsInit, Job
  <2> QED
    BY <2>1, <2>2 DEF AccountsInit, AccountsTypeOK
<1>2. \A c \in Clerk : clerk[c].op = "idle"
  BY DEF AccountsInit, Idle
<1>3. DOMAIN sess = {} /\ TableFits
  BY AccountsAssumption DEF AccountsInit, TableFits
<1> QED
  BY <1>1, <1>2, <1>3
     DEF AccountsInv, FamilyInv, RowsThere, FamiliesNamed, OneOpen,
         HonourInv, NoVersionAhead, CurrentMeansActive, ChangesExist, Signing

LEMMA AccountsStepType ==
    ASSUME AccountsInv, [AccountsNext]_accountsVars
    PROVE  AccountsTypeOK' /\ TableFits'
<1>1. AccountsTypeOK'
  BY UserStep, SessionStep, JobStep DEF AccountsInv, FamilyInv, HonourInv, AccountsTypeOK
<1>2. sess \in Seq(Session) /\ sess' \in Seq(Session) /\ MaxSession \in Nat
  BY <1>1, AccountsAssumption DEF AccountsInv, AccountsTypeOK
<1>3. ASSUME Closes PROVE TableFits'
  <2>1. 1 .. Len(sess') = 1 .. Len(sess)
    BY <1>2, <1>3 DEF Closes
  <2> QED
    BY <1>2, <2>1 DEF AccountsInv, TableFits
<1>4. ASSUME Len(sess) < MaxSession, \E c \in Clerk : SignInOpens(c) \/ RotationOpens(c)
      PROVE  TableFits'
  <2>1. DOMAIN sess' = DOMAIN sess \cup {Len(sess) + 1}
    BY <1>4 DEF SignInOpens, RotationOpens, Opens
  <2>2. Len(sess') = Len(sess) + 1
    <3>1. 1 .. Len(sess') = 1 .. (Len(sess) + 1)
      BY <1>2, <2>1
    <3> QED
      BY <1>2, <3>1
  <2> QED
    BY <1>2, <1>4, <2>2 DEF TableFits
<1> QED
  BY <1>1, <1>3, <1>4, SessionStep DEF AccountsInv, FamilyInv

\* A family gets a row only at its sign-in, or in the stead of its open one.
LEMMA AccountsStepFamily ==
    ASSUME AccountsInv, [AccountsNext]_accountsVars
    PROVE  FamilyInv'
<1> USE DEF AccountsInv, FamilyInv
<1>1. /\ sess \in Seq(Session) /\ DOMAIN sess = 1 .. Len(sess) /\ Len(sess) \in Nat
      /\ Len(sess) + 1 \notin DOMAIN sess
  BY DEF AccountsTypeOK
<1>2. DOMAIN sess \subseteq DOMAIN sess'
  BY SessionStep DEF Closes, SignInOpens, RotationOpens, Opens
<1>3. RowsThere'
  <2> SUFFICES ASSUME NEW c \in Clerk, clerk'[c].op \in {"rotate", "reuse"}
               PROVE  clerk'[c].row \in DOMAIN sess'
    BY DEF RowsThere
  <2>1. CASE clerk'[c] = clerk[c]
    BY <1>2, <2>1 DEF RowsThere
  <2>2. CASE Fresh(c)
    BY <1>2, <2>2 DEF Fresh
  <2> QED
    BY <2>1, <2>2, JobStep
<1>4. CASE Closes
  <2>1. FamiliesNamed'
    BY <1>4 DEF Closes, RowsKept, FamiliesNamed
  <2>2. OneOpen'
    BY <1>4 DEF Closes, RowsKept, OneOpen
  <2> QED
    BY <1>3, <2>1, <2>2
<1>5. ASSUME NEW c \in Clerk, SignInOpens(c)
      PROVE  FamilyInv'
  <2>1. Opens(clerk[c].user, Len(sess) + 1, clerk[c].version)
    BY <1>5 DEF SignInOpens
  <2>2. FamiliesNamed'
    BY <1>1, <2>1 DEF Opens, RowsKept, FamiliesNamed
  <2>3. \A r \in DOMAIN sess : sess[r].family # Len(sess) + 1
    BY <1>1 DEF FamiliesNamed
  <2>4. OneOpen'
    BY <1>1, <2>1, <2>3 DEF Opens, RowsKept, OneOpen
  <2> QED
    BY <1>3, <2>2, <2>4
<1>6. ASSUME NEW c \in Clerk, RotationOpens(c)
      PROVE  FamilyInv'
  <2> DEFINE r == clerk[c].row
  <2>1. /\ r \in DOMAIN sess
        /\ Opens(sess[r].user, sess[r].family, clerk[c].version)
        /\ sess[r].is # "revoked" /\ sess'[r].is = "revoked"
    BY <1>6 DEF RotationOpens, RowsThere
  <2> HIDE DEF r
  <2>2. FamiliesNamed'
    BY <1>1, <2>1 DEF Opens, RowsKept, FamiliesNamed
  <2>3. \A q \in DOMAIN sess : sess[q].family = sess[r].family => sess'[q].is = "revoked"
    BY <2>1 DEF Opens, RowsKept, OneOpen
  <2>4. OneOpen'
    BY <1>1, <2>1, <2>3 DEF Opens, RowsKept, OneOpen
  <2> QED
    BY <1>3, <2>2, <2>4
<1> QED
  BY <1>4, <1>5, <1>6, SessionStep

\* No request opens a session that an account's later state would accept
\* although the state between refused it.
LEMMA AccountsStepHonour ==
    ASSUME AccountsInv, [AccountsNext]_accountsVars
    PROVE  HonourInv'
<1> USE DEF AccountsInv, FamilyInv, HonourInv
<1>1. \A a \in Account : /\ UserAges(a)
                         /\ user[a].version \in Nat /\ user'[a].version \in Nat
  <2>1. /\ user \in [Account -> User] /\ user' \in [Account -> User]
        /\ \A a \in Account : UserAges(a)
    BY UserStep DEF AccountsTypeOK
  <2> QED
    BY <2>1, AccountsAssumption DEF User
<1>2. \A r \in DOMAIN sess : sess[r].user \in Account /\ sess[r].version \in Nat
  <2>1. \A r \in DOMAIN sess : sess[r] \in Session
    BY DEF AccountsTypeOK
  <2> QED
    BY <2>1, AccountsAssumption DEF Session
<1>3. \A c \in Clerk : Signing(c) => UserOf(c) \in Account /\ clerk[c].version \in Nat
  <2>1. \A c \in Clerk : Signing(c) => clerk[c].version \in Nat
    BY ClerkFields, AccountsAssumption DEF AccountsTypeOK, Signing
  <2>2. \A c \in Clerk : Signing(c) => UserOf(c) \in Account
    BY <1>2, ClerkFields DEF AccountsTypeOK, Signing, UserOf, RowsThere
  <2> QED
    BY <2>1, <2>2
<1>4. RowsKept
  BY SessionStep DEF Closes, SignInOpens, RotationOpens, Opens
<1>5. ASSUME NEW r \in DOMAIN sess
      PROVE  /\ sess'[r].version <= user'[sess'[r].user].version
             /\ sess'[r].is = "open" /\ sess'[r].version = user'[sess'[r].user].version
                => user'[sess'[r].user].is = "on"
  <2> DEFINE a == sess[r].user
  <2>1. /\ a \in Account /\ sess[r].version \in Nat
        /\ sess'[r].user = a /\ sess'[r].version = sess[r].version
        /\ sess'[r].is = "open" => sess[r].is = "open"
    BY <1>2, <1>4, <1>5 DEF RowsKept
  <2>2. /\ sess[r].version <= user[a].version
        /\ sess[r].is = "open" /\ sess[r].version = user[a].version => user[a].is = "on"
    BY <1>5 DEF NoVersionAhead, CurrentMeansActive, Active
  <2>3. /\ user[a].version \in Nat /\ user'[a].version \in Nat
        /\ user'[a].version >= user[a].version
        /\ user'[a].version = user[a].version /\ user'[a].is # user[a].is =>
              user'[a].is = "on" \/ sess'[r].is = "revoked"
    BY <1>1, <1>5, <2>1 DEF UserAges
  <2> HIDE DEF a
  <2> QED
    BY <2>1, <2>2, <2>3
<1>6. ASSUME NEW r \in DOMAIN sess' \ DOMAIN sess
      PROVE  /\ sess'[r].version <= user'[sess'[r].user].version
             /\ sess'[r].version = user'[sess'[r].user].version
                => user'[sess'[r].user].is = "on"
  <2>1. PICK c \in Clerk : SignInOpens(c) \/ RotationOpens(c)
    BY <1>6, SessionStep DEF Closes
  <2>2. /\ Signing(c) /\ user[UserOf(c)].is # "gone" /\ user' = user
        /\ \E f : Opens(UserOf(c), f, clerk[c].version)
    BY <2>1 DEF SignInOpens, RotationOpens, Signing, UserOf
  <2>3. sess'[r].user = UserOf(c) /\ sess'[r].version = clerk[c].version
    BY <1>6, <2>2 DEF Opens
  <2> QED
    BY <2>2, <2>3 DEF NoVersionAhead, CurrentMeansActive, Active
<1>7. ASSUME NEW c \in Clerk, Signing(c)'
      PROVE  /\ clerk'[c].version <= user'[UserOf(c)'].version
             /\ clerk'[c].version = user'[UserOf(c)'].version
                => user'[UserOf(c)'].is \in {"on", "gone"}
  <2>1. CASE clerk'[c] = clerk[c]
    <3> DEFINE a == UserOf(c)
    <3>1. Signing(c) /\ UserOf(c)' = a /\ clerk'[c].version = clerk[c].version
      BY <1>4, <1>7, <2>1 DEF Signing, UserOf, RowsKept, RowsThere
    <3>2. /\ a \in Account /\ clerk[c].version \in Nat
          /\ clerk[c].version <= user[a].version
          /\ clerk[c].version = user[a].version => user[a].is \in {"on", "gone"}
      BY <1>3, <3>1 DEF NoVersionAhead, CurrentMeansActive, Active
    <3>3. /\ user[a].version \in Nat /\ user'[a].version \in Nat
          /\ user'[a].version >= user[a].version
          /\ user'[a].version = user[a].version /\ user'[a].is # user[a].is =>
                user'[a].is \in {"on", "gone"}
      BY <1>1, <3>2 DEF UserAges
    <3> HIDE DEF a
    <3> QED
      BY <3>1, <3>2, <3>3
  <2>2. CASE Fresh(c)
    <3>1. /\ user' = user /\ sess' = sess
          /\ Active(UserOf(c)') /\ clerk'[c].version = user[UserOf(c)'].version
      BY <1>7, <2>2 DEF Fresh, Signing, UserOf
    <3>2. UserOf(c)' \in Account
      <4>1. clerk' \in [Clerk -> Job]
        BY JobStep
      <4>2. clerk'[c].op = "login" => clerk'[c].user \in Account
        BY <4>1 DEF Job, Idle
      <4>3. clerk'[c].op = "rotate" => clerk'[c].row \in DOMAIN sess
        BY <2>2 DEF Fresh
      <4> QED
        BY <1>2, <1>7, <3>1, <4>2, <4>3 DEF Signing, UserOf
    <3> QED
      BY <1>1, <3>1, <3>2 DEF Active
  <2> QED
    BY <2>1, <2>2, JobStep
<1>8. ChangesExist'
  <2> SUFFICES ASSUME NEW c \in Clerk, clerk'[c].op = "change"
               PROVE  user'[clerk'[c].user].is \in {"on", "off"}
    BY DEF ChangesExist, Exists
  <2>1. CASE clerk'[c] = clerk[c]
    <3>1. clerk[c].user \in Account /\ Exists(clerk[c].user) /\ Held(clerk[c].user)
      BY <2>1, ClerkFields DEF AccountsTypeOK, ChangesExist, Held
    <3> QED
      BY <1>1, <2>1, <3>1 DEF UserAges
  <2>2. CASE Fresh(c)
    BY <2>2 DEF Fresh, Exists
  <2> QED
    BY <2>1, <2>2, JobStep
<1> QED
  BY <1>5, <1>6, <1>7, <1>8 DEF NoVersionAhead, CurrentMeansActive, Active

LEMMA AccountsInvInductive == AccountsInv /\ [AccountsNext]_accountsVars => AccountsInv'
BY AccountsStepType, AccountsStepFamily, AccountsStepHonour DEF AccountsInv

THEOREM AccountsInvHolds == AccountsSpec => []AccountsInv
BY AccountsInvAtFirst, AccountsInvInductive, PTL DEF AccountsSpec

-----------------------------------------------------------------------------
(* Theorems.                                                                *)

\* The rows and requests are of their types: each request finds the row it
\* read when it comes to write.
THEOREM AccountsTyped == AccountsSpec => []AccountsTypeOK
BY AccountsInvHolds, PTL DEF AccountsInv

\* One sign-in has at most one open session, however many tabs refresh with
\* the same token beside sign-outs and changes of the account
\* (auth.service.ts, the updateMany with revokedAt null).
THEOREM OneOpenSession == AccountsSpec => []OneOpenPerFamily
<1>1. AccountsInv => OneOpenPerFamily
  <2> SUFFICES ASSUME AccountsInv, NEW f \in DOMAIN sess
               PROVE  Cardinality(Unrevoked(Family(f))) <= 1
    BY DEF OneOpenPerFamily
  <2> DEFINE rows == Unrevoked(Family(f))
  <2>1. \A r, q \in rows : r = q
    BY DEF AccountsInv, FamilyInv, OneOpen, Unrevoked, Family
  <2> HIDE DEF rows
  <2>2. Cardinality(rows) <= 1
    <3>1. CASE rows = {}
      BY <3>1, FS_EmptySet
    <3>2. CASE rows # {}
      <4>1. PICK r \in rows : TRUE
        BY <3>2
      <4>2. rows = {r}
        BY <2>1, <4>1
      <4>3. Cardinality(rows) = 1
        BY <4>2, FS_Singleton
      <4> QED
        BY <4>3
    <3> QED
      BY <3>1, <3>2
  <2> QED
    BY <2>2 DEF rows
<1> QED
  BY <1>1, AccountsInvHolds, PTL

\* A sign-in whose sessions are all revoked gets no new one: a refresh that
\* was under way finds its row revoked (refresh in auth.service.ts).
THEOREM SignedOutForGood == AccountsSpec => DeadFamilyStaysDead
<1>1. AccountsInv /\ [AccountsNext]_accountsVars =>
        [\A f \in DOMAIN sess :
            Family(f) # {} /\ Unrevoked(Family(f)) = {} => Unrevoked(Family(f))' = {}]_accountsVars
  <2> SUFFICES ASSUME AccountsInv, [AccountsNext]_accountsVars, NEW f \in DOMAIN sess,
                      Unrevoked(Family(f)) = {}
               PROVE  Unrevoked(Family(f))' = {}
    OBVIOUS
  <2>1. \A r \in DOMAIN sess : sess[r].family = f => sess[r].is = "revoked"
    BY DEF Unrevoked, Family
  <2>2. SUFFICES ASSUME NEW r \in DOMAIN sess', sess'[r].family = f
                 PROVE  sess'[r].is = "revoked"
    BY DEF Unrevoked, Family
  <2>3. DOMAIN sess = 1 .. Len(sess) /\ Len(sess) \in Nat
    BY DEF AccountsInv, AccountsTypeOK
  <2>4. CASE Closes
    BY <2>1, <2>2, <2>4 DEF Closes, RowsKept
  <2>5. ASSUME NEW c \in Clerk, SignInOpens(c)
        PROVE  sess'[r].is = "revoked"
    BY <2>1, <2>2, <2>3, <2>5 DEF SignInOpens, Opens, RowsKept
  <2>6. ASSUME NEW c \in Clerk, RotationOpens(c)
        PROVE  sess'[r].is = "revoked"
    BY <2>1, <2>2, <2>6 DEF RotationOpens, Opens, RowsKept, AccountsInv, FamilyInv, RowsThere
  <2> QED
    BY <2>4, <2>5, <2>6, SessionStep DEF AccountsInv, FamilyInv
<1> QED
  BY <1>1, AccountsInvHolds, PTL DEF AccountsSpec, DeadFamilyStaysDead

\* An access token that was refused is never accepted again (JwtStrategy), in
\* whatever order deactivations, imports, sign-ins and refreshes commit.
THEOREM RefusalStands == AccountsSpec => RefusedForGood
<1>1. AccountsInv /\ AccountsInv' /\ [AccountsNext]_accountsVars =>
        [\A r \in DOMAIN sess : ~Honoured(r) => ~Honoured(r)']_accountsVars
  <2> SUFFICES ASSUME AccountsInv, [AccountsNext]_accountsVars,
                      NEW r \in DOMAIN sess, Honoured(r)'
               PROVE  Honoured(r)
    OBVIOUS
  <2> DEFINE a == sess[r].user
  <2>1. RowsKept
    BY SessionStep DEF AccountsInv, FamilyInv, Closes, SignInOpens, RotationOpens, Opens
  <2>2. /\ sess[r].is = "open" /\ user'[a].version = sess[r].version
    BY <2>1 DEF Honoured, RowsKept
  <2>3. sess[r] \in Session
    BY DEF AccountsInv, AccountsTypeOK
  <2>4. a \in Account /\ sess[r].version \in Nat
    BY <2>3, AccountsAssumption DEF Session
  <2>5. user[a].version \in Nat
    BY <2>4, AccountsAssumption DEF AccountsInv, AccountsTypeOK, User
  <2>6. user'[a].version >= user[a].version /\ sess[r].version <= user[a].version
    BY <2>4, UserStep DEF AccountsInv, HonourInv, NoVersionAhead, UserAges
  <2>7. user[a].version = sess[r].version
    BY <2>2, <2>4, <2>5, <2>6
  <2> QED
    BY <2>2, <2>7 DEF AccountsInv, HonourInv, CurrentMeansActive, Honoured
<1> QED
  BY <1>1, AccountsInvHolds, PTL DEF AccountsSpec, RefusedForGood

-----------------------------------------------------------------------------
(* The registry of readers.                                                 *)

\* Codes are drawn values: in the table, and in the hands of phones.
CodesDrawn ==
    /\ \A r \in Reader : device[r].code <= issued
    /\ \A p \in traded : p[1] <= issued
    /\ \A w \in Admin : admin[w].op = "trade" => admin[w].code # 0

\* No two readers have the same code.
CodesApart == \A r, q \in Reader :
    device[r].code = device[q].code /\ device[r].code # 0 => r = q

\* A traded code is in no row any more.
TradedGone == \A p \in traded : p[1] # 0 /\ \A r \in Reader : device[r].code # p[1]

CodeInv == CodesDrawn /\ CodesApart /\ TradedGone /\ CodeTradedOnce

-----------------------------------------------------------------------------
LEMMA DevicesInitType == DevicesInit => DevicesTypeOK
BY ReaderDevicesAssumption
   DEF DevicesInit, DevicesTypeOK, Random, Device, Unborn, Errand, Vacant

\* What a drawn value is.
LEMMA DrawnRandom ==
    ASSUME issued \in Random, Draw
    PROVE  issued' \in Random /\ issued' = issued + 1 /\ issued' # 0
BY ReaderDevicesAssumption DEF Draw, Random

\* A request that ends is idle, one that sets off has its errand.
LEMMA ErrandTypes ==
    ASSUME admin \in [Admin -> Errand], NEW w \in Admin
    PROVE  /\ Return(w) => admin' \in [Admin -> Errand]
           /\ \A j \in Errand : SetOff(w, j) => admin' \in [Admin -> Errand]
BY DEF Return, SetOff, Errand

\* The errands a request may be on when it has read.
LEMMA ErrandFields ==
    ASSUME admin \in [Admin -> Errand], NEW w \in Admin
    PROVE  /\ admin[w].op \in {"create", "issue", "activate"} =>
                admin[w] \in [op : {"create", "issue", "activate"}, id : Reader, counted : BOOLEAN]
           /\ admin[w].op = "trade" =>
                admin[w] \in [op : {"trade"}, id : Reader, code : Random, counted : BOOLEAN]
           /\ admin[w].op \in {"rotate", "revoke", "deactivate", "retire"} =>
                admin[w] \in [op : {"rotate", "revoke", "deactivate", "retire"}, id : Reader]
<1>1. admin[w] \in Errand
  OBVIOUS
<1> QED
  BY <1>1 DEF Errand, Vacant

LEMMA DevicesStepType == DevicesTypeOK /\ [DevicesNext]_devicesVars => DevicesTypeOK'
<1> SUFFICES ASSUME DevicesTypeOK, [DevicesNext]_devicesVars
             PROVE  DevicesTypeOK'
  OBVIOUS
<1> USE DEF DevicesTypeOK
<1>1. CASE UNCHANGED devicesVars
  BY <1>1 DEF devicesVars
<1>2. ASSUME NEW r \in Reader, CreateTarget(r) \/ Lapse(r)
      PROVE  DevicesTypeOK'
  <2>1. device' \in [Reader -> Device]
    <3>1. CreateTarget(r) => device' \in [Reader -> Device]
      BY DEF CreateTarget, Device
    <3>2. Lapse(r) => device' \in [Reader -> Device]
      BY DEF Lapse, Device
    <3> QED
      BY <1>2, <3>1, <3>2
  <2> QED
    BY <1>2, <2>1 DEF CreateTarget, Lapse
<1>3. ASSUME NEW w \in Admin, NEW r \in Reader, AskCreate(w, r) \/ Present(w, r)
      PROVE  DevicesTypeOK'
  <2>1. device[r].code \in Random
    BY DEF Device
  <2>2. /\ [op |-> "create", id |-> r, counted |-> FALSE] \in Errand
        /\ [op |-> "trade", id |-> r, code |-> device[r].code, counted |-> FALSE] \in Errand
    BY <2>1 DEF Errand
  <2> QED
    BY <1>3, <2>2, ErrandTypes DEF AskCreate, Present
<1>4. ASSUME NEW w \in Admin, NEW r \in Reader,
             NEW op \in {"issue", "rotate", "revoke"} \cup Switch, Pick(w, r, op)
      PROVE  DevicesTypeOK'
  <2>1. (IF op \in {"issue", "activate"} THEN [op |-> op, id |-> r, counted |-> FALSE]
                                         ELSE [op |-> op, id |-> r]) \in Errand
    BY DEF Errand, Switch
  <2> QED
    BY <1>4, <2>1, ErrandTypes DEF Pick
<1>5. ASSUME NEW w \in Admin, CountSlots(w)
      PROVE  DevicesTypeOK'
  <2>1. /\ [admin[w] EXCEPT !.counted = TRUE] \in Errand
        /\ Vacant \in Errand
    BY <1>5, ErrandFields DEF CountSlots, Errand
  <2> QED
    BY <1>5, <2>1 DEF CountSlots
<1>6. ASSUME NEW w \in Admin, CreateReader(w)
      PROVE  DevicesTypeOK'
  <2>1. admin[w].id \in Reader
    BY <1>6, ErrandFields DEF CreateReader, Counted
  <2>2. device' \in [Reader -> Device] /\ issued' \in Random
    <3>1. CASE device[admin[w].id].status = "none"
      BY <1>6, <2>1, <3>1, DrawnRandom DEF CreateReader, Device
    <3>2. CASE device[admin[w].id].status # "none"
      BY <1>6, <3>2 DEF CreateReader
    <3> QED
      BY <3>1, <3>2
  <2> QED
    BY <1>6, <2>2, ErrandTypes DEF CreateReader
<1>7. ASSUME NEW w \in Admin, IssueCode(w) \/ RotateKey(w)
      PROVE  DevicesTypeOK'
  <2>1. admin[w].id \in Reader
    BY <1>7, ErrandFields DEF IssueCode, RotateKey, Counted
  <2>2. issued' \in Random
    BY <1>7, DrawnRandom DEF IssueCode, RotateKey
  <2>3. device' \in [Reader -> Device]
    BY <1>7, <2>1, <2>2 DEF IssueCode, RotateKey, Device
  <2> QED
    BY <1>7, <2>2, <2>3, ErrandTypes DEF IssueCode, RotateKey
<1>8. ASSUME NEW w \in Admin, SwitchReader(w)
      PROVE  DevicesTypeOK'
  <2>1. admin[w].id \in Reader
    BY <1>8, ErrandFields DEF SwitchReader, Counted
  <2>2. device' \in [Reader -> Device]
    BY <1>8, <2>1 DEF SwitchReader, Device
  <2> QED
    BY <1>8, <2>2, ErrandTypes DEF SwitchReader
<1>9. ASSUME NEW w \in Admin, RevokeReader(w)
      PROVE  DevicesTypeOK'
  <2>1. admin[w].id \in Reader
    BY <1>9, ErrandFields DEF RevokeReader
  <2>2. [Unborn EXCEPT !.status = "REVOKED", !.revokedAt = TRUE] \in Device
    <3>1. Unborn \in Device
      BY ReaderDevicesAssumption DEF Unborn, Device, Random
    <3> QED
      BY <3>1 DEF Device
  <2> QED
    BY <1>9, <2>1, <2>2, ErrandTypes DEF RevokeReader
<1>10. ASSUME NEW w \in Admin, Trade(w)
       PROVE  DevicesTypeOK'
  <2>1. admin[w].id \in Reader /\ admin[w].code \in Random
    BY <1>10, ErrandFields DEF Trade, Counted
  <2>2. 0 \in Random
    BY ReaderDevicesAssumption DEF Random
  <2>3. /\ device' \in [Reader -> Device] /\ issued' \in Random
        /\ traded' \subseteq Random \X Random
    <3>1. CASE Claimable(admin[w].id, admin[w].code)
      BY <1>10, <2>1, <2>2, <3>1, DrawnRandom DEF Trade, Device
    <3>2. CASE ~Claimable(admin[w].id, admin[w].code)
      BY <1>10, <3>2 DEF Trade
    <3> QED
      BY <3>1, <3>2
  <2> QED
    BY <1>10, <2>3, ErrandTypes DEF Trade
<1> QED
  BY <1>1, <1>2, <1>3, <1>4, <1>5, <1>6, <1>7, <1>8, <1>9, <1>10 DEF DevicesNext

\* Every reachable state is well typed: whatever a request has read, it holds
\* what its write needs (DeviceReaderService).
THEOREM DevicesTyped == DevicesSpec => []DevicesTypeOK
BY DevicesInitType, DevicesStepType, PTL DEF DevicesSpec

-----------------------------------------------------------------------------
(* Activation codes.                                                       *)

LEMMA InitCode == DevicesInit => CodeInv
BY ReaderDevicesAssumption
   DEF DevicesInit, CodeInv, CodesDrawn, CodesApart, TradedGone, CodeTradedOnce, Unborn, Vacant

\* A step that draws no code, trades none and takes up none.
LEMMA NoNewCode ==
    ASSUME CodeInv, DevicesTypeOK, DevicesTypeOK',
           issued' = issued \/ issued' = issued + 1, traded' = traded,
           \A r \in Reader : device'[r].code \in {device[r].code, 0},
           \A w \in Admin : admin'[w].op = "trade" => admin'[w].code # 0
    PROVE  CodeInv'
<1>1. issued \in Nat /\ issued' \in Nat
  BY ReaderDevicesAssumption DEF DevicesTypeOK, Random
<1>2. \A r \in Reader : device[r].code \in Nat
  BY ReaderDevicesAssumption DEF DevicesTypeOK, Device, Random
<1>3. \A p \in traded : p[1] \in Nat
  BY ReaderDevicesAssumption DEF DevicesTypeOK, Random
<1>4. CodesDrawn'
  BY <1>1, <1>2, <1>3 DEF CodeInv, CodesDrawn
<1>5. CodesApart'
  BY DEF CodeInv, CodesApart
<1>6. TradedGone' /\ CodeTradedOnce'
  BY DEF CodeInv, TradedGone, CodeTradedOnce
<1> QED
  BY <1>4, <1>5, <1>6 DEF CodeInv

LEMMA StepCode ==
    CodeInv /\ DevicesTypeOK /\ DevicesTypeOK' /\ [DevicesNext]_devicesVars => CodeInv'
<1> SUFFICES ASSUME CodeInv, DevicesTypeOK, DevicesTypeOK', [DevicesNext]_devicesVars
             PROVE  CodeInv'
  OBVIOUS
<1>0. /\ device \in [Reader -> Device] /\ admin \in [Admin -> Errand]
      /\ \A w \in Admin : admin[w].op = "trade" => admin[w].code # 0
      /\ \A w \in Admin : Return(w) =>
            \A x \in Admin : admin'[x].op = "trade" => admin'[x].code # 0
  BY DEF DevicesTypeOK, CodeInv, CodesDrawn, Return, Vacant
<1>1. CASE UNCHANGED devicesVars
  BY <1>1, NoNewCode, <1>0 DEF devicesVars
<1>2. ASSUME NEW r \in Reader, CreateTarget(r) \/ Lapse(r)
      PROVE  CodeInv'
  <2>1. \A q \in Reader : device'[q].code = device[q].code
    BY <1>0, <1>2 DEF CreateTarget, Lapse, Device
  <2> QED
    BY <1>0, <1>2, <2>1, NoNewCode DEF CreateTarget, Lapse
<1>3. ASSUME NEW w \in Admin, NEW r \in Reader, AskCreate(w, r) \/ Present(w, r)
      PROVE  CodeInv'
  <2>1. \A x \in Admin : admin'[x].op = "trade" => admin'[x].code # 0
    BY <1>0, <1>3 DEF AskCreate, Present, SetOff
  <2> QED
    BY <1>3, <2>1, NoNewCode DEF AskCreate, Present
<1>4. ASSUME NEW w \in Admin, NEW r \in Reader,
             NEW op \in {"issue", "rotate", "revoke"} \cup Switch, Pick(w, r, op)
      PROVE  CodeInv'
  <2>1. \A x \in Admin : admin'[x].op = "trade" => admin'[x].code # 0
    BY <1>0, <1>4 DEF Pick, SetOff, Switch
  <2> QED
    BY <1>4, <2>1, NoNewCode DEF Pick
<1>5. ASSUME NEW w \in Admin, CountSlots(w)
      PROVE  CodeInv'
  <2>1. \A x \in Admin : admin'[x].op = "trade" => admin'[x].code # 0
    <3>1. [admin[w] EXCEPT !.counted = TRUE].op = "trade"
          => [admin[w] EXCEPT !.counted = TRUE].code # 0
      BY <1>0, <1>5, ErrandFields DEF CountSlots
    <3> QED
      BY <1>0, <1>5, <3>1 DEF CountSlots, Vacant
  <2> QED
    BY <1>5, <2>1, NoNewCode DEF CountSlots
<1>6. ASSUME NEW w \in Admin, CreateReader(w) \/ RotateKey(w) \/ SwitchReader(w)
      PROVE  CodeInv'
  <2>1. \A q \in Reader : device'[q].code = device[q].code
    BY <1>0, <1>6 DEF CreateReader, RotateKey, SwitchReader, Device
  <2>2. Return(w) /\ traded' = traded /\ (issued' = issued \/ issued' = issued + 1)
    BY <1>6 DEF CreateReader, RotateKey, SwitchReader, Draw
  <2> QED
    BY <1>0, <2>1, <2>2, NoNewCode
<1>7. ASSUME NEW w \in Admin, RevokeReader(w)
      PROVE  CodeInv'
  <2>1. \A q \in Reader : device'[q].code \in {device[q].code, 0}
    BY <1>0, <1>7 DEF RevokeReader, Unborn
  <2> QED
    BY <1>0, <1>7, <2>1, NoNewCode DEF RevokeReader
<1>8. ASSUME NEW w \in Admin, IssueCode(w)
      PROVE  CodeInv'
  <2> DEFINE r == admin[w].id
  <2>1. r \in Reader
    BY <1>0, <1>8, ErrandFields DEF IssueCode, Counted
  <2>2. /\ issued \in Nat /\ issued' = issued + 1
        /\ \A q \in Reader : device[q].code \in Nat /\ device[q].code <= issued
        /\ \A p \in traded : p[1] \in Nat /\ p[1] <= issued
    BY <1>8, ReaderDevicesAssumption
       DEF IssueCode, Draw, DevicesTypeOK, Device, Random, CodeInv, CodesDrawn
  <2>3. \A q \in Reader : device'[q].code = IF q = r THEN issued' ELSE device[q].code
    BY <1>0, <1>8, <2>1 DEF IssueCode, Device
  <2>4. traded' = traded /\ Return(w)
    BY <1>8 DEF IssueCode
  <2>5. CodesDrawn'
    BY <1>0, <2>2, <2>3, <2>4 DEF CodesDrawn
  <2>6. CodesApart'
    BY <2>2, <2>3 DEF CodeInv, CodesApart
  <2>7. TradedGone' /\ CodeTradedOnce'
    BY <2>2, <2>3, <2>4 DEF CodeInv, TradedGone, CodeTradedOnce
  <2> QED
    BY <2>5, <2>6, <2>7 DEF CodeInv
<1>9. ASSUME NEW w \in Admin, Trade(w)
      PROVE  CodeInv'
  <2> DEFINE r == admin[w].id
             code == admin[w].code
  <2>1. r \in Reader /\ code # 0
    BY <1>0, <1>9, ErrandFields DEF Trade, Counted
  <2>2. CASE ~Claimable(r, code)
    BY <1>0, <1>9, <2>2, NoNewCode DEF Trade
  <2>3. CASE Claimable(r, code)
    <3>1. device[r].code = code
      BY <2>3 DEF Claimable
    <3>2. /\ issued' = issued + 1 /\ Return(w)
          /\ traded' = traded \cup {<<code, issued'>>}
      BY <1>9, <2>3 DEF Trade, Draw
    <3>3. \A q \in Reader : device'[q].code = IF q = r THEN 0 ELSE device[q].code
      BY <1>0, <1>9, <2>1, <2>3 DEF Trade, Device
    <3>4. /\ issued \in Nat
          /\ \A q \in Reader : device[q].code \in Nat /\ device[q].code <= issued
          /\ \A p \in traded : p[1] \in Nat /\ p[1] <= issued
      BY ReaderDevicesAssumption
         DEF DevicesTypeOK, Device, Random, CodeInv, CodesDrawn
    <3>5. \A p \in traded' : p \in traded \/ p = <<code, issued'>>
      BY <3>2
    <3>6. CodesDrawn'
      BY <1>0, <2>1, <3>1, <3>2, <3>3, <3>4, <3>5 DEF CodesDrawn
    <3>7. CodesApart'
      BY <3>3 DEF CodeInv, CodesApart
    <3>8. TradedGone'
      <4>1. \A q \in Reader : device'[q].code # code
        BY <2>1, <3>1, <3>3 DEF CodeInv, CodesApart
      <4> QED
        BY <2>1, <3>3, <3>5, <4>1 DEF CodeInv, TradedGone
    <3>9. CodeTradedOnce'
      <4>1. \A p \in traded : p[1] # code
        BY <2>1, <3>1 DEF CodeInv, TradedGone
      <4> QED
        BY <3>5, <4>1 DEF CodeInv, CodeTradedOnce
    <3> QED
      BY <3>6, <3>7, <3>8, <3>9 DEF CodeInv
  <2> QED
    BY <2>2, <2>3
<1> QED
  BY <1>1, <1>2, <1>3, <1>4, <1>5, <1>6, <1>7, <1>8, <1>9 DEF DevicesNext

\* However many phones present a code at once, and however often codes and keys
\* are issued, rotated and revoked meanwhile, one code yields one secret
\* (the updateMany of completeAndroidProvision).
THEOREM CodeGivesOneSecret == DevicesSpec => []CodeTradedOnce
<1>1. CodeInv => CodeTradedOnce
  BY DEF CodeInv
<1> QED
  BY <1>1, DevicesInitType, DevicesStepType, InitCode, StepCode, PTL DEF DevicesSpec

-----------------------------------------------------------------------------
(* Revocation.                                                             *)

\* A reader that updateStatus has made REVOKED, with no switch still to come.
Retired(r) ==
    /\ device[r].status = "REVOKED"
    /\ \A w \in Admin : admin[w].op \in {"activate", "deactivate"} => admin[w].id # r

\* revokedAt is never cleared.
LEMMA StepMarked ==
    ASSUME DevicesTypeOK, [DevicesNext]_devicesVars, NEW r \in Reader, device[r].revokedAt
    PROVE  device'[r].revokedAt
<1>0. device \in [Reader -> Device] /\ admin \in [Admin -> Errand]
  BY DEF DevicesTypeOK
<1>1. CASE UNCHANGED devicesVars
  BY <1>1 DEF devicesVars
<1>2. ASSUME NEW q \in Reader, CreateTarget(q) \/ Lapse(q)
      PROVE  device'[r].revokedAt
  BY <1>0, <1>2 DEF CreateTarget, Lapse, Device
<1>3. ASSUME NEW w \in Admin,
             \/ CountSlots(w)
             \/ \E q \in Reader : AskCreate(w, q) \/ Present(w, q)
             \/ \E q \in Reader, op \in {"issue", "rotate", "revoke"} \cup Switch : Pick(w, q, op)
      PROVE  device'[r].revokedAt
  BY <1>3 DEF CountSlots, AskCreate, Present, Pick
<1>4. ASSUME NEW w \in Admin, IssueCode(w) \/ RotateKey(w) \/ SwitchReader(w)
      PROVE  device'[r].revokedAt
  BY <1>0, <1>4 DEF IssueCode, RotateKey, SwitchReader, Device
<1>5. ASSUME NEW w \in Admin, CreateReader(w)
      PROVE  device'[r].revokedAt
  BY <1>0, <1>5 DEF CreateReader, Device
<1>6. ASSUME NEW w \in Admin, Trade(w)
      PROVE  device'[r].revokedAt
  BY <1>0, <1>6 DEF Trade, Device
<1>7. ASSUME NEW w \in Admin, RevokeReader(w)
      PROVE  device'[r].revokedAt
  BY <1>0, <1>7 DEF RevokeReader, Unborn
<1> QED
  BY <1>1, <1>2, <1>3, <1>4, <1>5, <1>6, <1>7 DEF DevicesNext

\* No write but a switch changes REVOKED, and no switch is taken up for it.
LEMMA StepRetired ==
    ASSUME DevicesTypeOK, [DevicesNext]_devicesVars, NEW r \in Reader, Retired(r)
    PROVE  Retired(r)'
<1>0. /\ device \in [Reader -> Device] /\ admin \in [Admin -> Errand]
      /\ device[r].status = "REVOKED"
      /\ \A w \in Admin : admin[w].op \in {"activate", "deactivate"} => admin[w].id # r
  BY DEF DevicesTypeOK, Retired
<1>1. CASE UNCHANGED devicesVars
  BY <1>1 DEF devicesVars, Retired
<1>2. ASSUME NEW w \in Admin, Return(w), device'[r].status = "REVOKED"
      PROVE  Retired(r)'
  BY <1>0, <1>2 DEF Return, Vacant, Retired
<1>3. ASSUME NEW q \in Reader, CreateTarget(q) \/ Lapse(q)
      PROVE  Retired(r)'
  <2>1. device'[r].status = "REVOKED"
    BY <1>0, <1>3 DEF CreateTarget, Lapse, Device
  <2> QED
    BY <1>0, <1>3, <2>1 DEF CreateTarget, Lapse, Retired
<1>4. ASSUME NEW w \in Admin, NEW q \in Reader, AskCreate(w, q) \/ Present(w, q)
      PROVE  Retired(r)'
  BY <1>0, <1>4 DEF AskCreate, Present, SetOff, Retired
<1>5. ASSUME NEW w \in Admin, NEW q \in Reader,
             NEW op \in {"issue", "rotate", "revoke"} \cup Switch, Pick(w, q, op)
      PROVE  Retired(r)'
  <2>1. q # r
    BY <1>0, <1>5 DEF Pick, Pickable
  <2> QED
    BY <1>0, <1>5, <2>1 DEF Pick, SetOff, Switch, Retired
<1>6. ASSUME NEW w \in Admin, CountSlots(w)
      PROVE  Retired(r)'
  <2>1. /\ [admin[w] EXCEPT !.counted = TRUE].op = admin[w].op
        /\ [admin[w] EXCEPT !.counted = TRUE].id = admin[w].id
    BY <1>0, <1>6, ErrandFields DEF CountSlots
  <2> QED
    BY <1>0, <1>6, <2>1 DEF CountSlots, Vacant, Retired
<1>7. ASSUME NEW w \in Admin, IssueCode(w) \/ RotateKey(w)
      PROVE  Retired(r)'
  <2>1. device'[r].status = "REVOKED"
    BY <1>0, <1>7 DEF IssueCode, RotateKey, Device
  <2> QED
    BY <1>2, <1>7, <2>1 DEF IssueCode, RotateKey
<1>8. ASSUME NEW w \in Admin, SwitchReader(w)
      PROVE  Retired(r)'
  <2>1. admin[w].op \in {"activate", "deactivate"} => admin[w].id # r
    BY <1>0
  <2>2. device'[r].status = "REVOKED"
    BY <1>0, <1>8, <2>1 DEF SwitchReader, Counted, Device
  <2> QED
    BY <1>2, <1>8, <2>2 DEF SwitchReader
<1>9. ASSUME NEW w \in Admin, CreateReader(w)
      PROVE  Retired(r)'
  <2>1. device'[r].status = "REVOKED"
    BY <1>0, <1>9 DEF CreateReader, Device
  <2> QED
    BY <1>2, <1>9, <2>1 DEF CreateReader
<1>10. ASSUME NEW w \in Admin, Trade(w)
       PROVE  Retired(r)'
  <2>1. device'[r].status = "REVOKED"
    BY <1>0, <1>10 DEF Trade, Claimable, Device
  <2> QED
    BY <1>2, <1>10, <2>1 DEF Trade
<1>11. ASSUME NEW w \in Admin, RevokeReader(w)
       PROVE  Retired(r)'
  <2>1. device'[r].status = "REVOKED"
    BY <1>0, <1>11 DEF RevokeReader, Unborn
  <2> QED
    BY <1>2, <1>11, <2>1 DEF RevokeReader
<1> QED
  BY <1>1, <1>3, <1>4, <1>5, <1>6, <1>7, <1>8, <1>9, <1>10, <1>11 DEF DevicesNext

\* A reader that the revoke endpoint has marked stays out whatever was decided
\* before and is written after it (rotateApiKey, updateStatus,
\* issueAndroidProvisionCode); one that updateStatus has made REVOKED stays out
\* unless a switch decided before is still to be written.  No secret passes for
\* either.
THEOREM RevokedStayOut == DevicesSpec => RevokedForGood
<1>1. \A r \in Reader : Out(r) <=> device[r].revokedAt \/ Retired(r)
  BY DEF Out, Retired
<1>2. \A r \in Reader : Out(r) => \A s \in Random : ~Recognised(r, s)
  BY DEF Out, Recognised
<1>3. \A r \in Reader : Out(r)' => \A s \in Random : ~Recognised(r, s)'
  BY DEF Out, Recognised
<1>4. ASSUME DevicesTypeOK, [DevicesNext]_devicesVars, NEW r \in Reader, Out(r)
      PROVE  Out(r)'
  <2>1. CASE device[r].revokedAt
    BY <1>4, <2>1, StepMarked DEF Out
  <2>2. CASE Retired(r)
    <3>1. Retired(r)'
      BY <1>4, <2>2, StepRetired
    <3> QED
      BY <3>1 DEF Out, Retired
  <2> QED
    BY <1>1, <1>4, <2>1, <2>2
<1>5. DevicesTypeOK /\ [DevicesNext]_devicesVars =>
          [\A r \in Reader : Out(r) =>
              Out(r)' /\ \A s \in Random : ~Recognised(r, s) /\ ~Recognised(r, s)']_devicesVars
  BY <1>2, <1>3, <1>4
<1> QED
  BY <1>5, DevicesTyped, PTL DEF DevicesSpec, RevokedForGood

-----------------------------------------------------------------------------
(* The classes of a student: no later transfer, enrolment or revocation     *)
(* takes one out of the roster of a past day.                               *)

\* What a request has read exists, and what it will close began before.
FoundStands ==
    \A w \in Enroller :
        enroller[w] # Free =>
            /\ enroller[w].found \subseteq Used
            /\ enroller[w].found # {} => enroller[w].from > 1

\* The inductive invariant.
EnrolmentInv == EnrolmentTypeOK /\ FoundStands /\ NobodyForgotten

\* A request's fields, whichever request it is.
LEMMA RequestFields ==
    ASSUME EnrolmentTypeOK, NEW w \in Enroller, enroller[w] # Free
    PROVE  /\ enroller[w] \in Request
           /\ enroller[w].class \in SchoolClass
           /\ enroller[w].from \in Date
           /\ enroller[w].to \in Date \cup {OpenEnded}
           /\ enroller[w].found \in SUBSET EnrolmentRow
BY DEF EnrolmentTypeOK, Request

\* A row in use is a record of the table.
LEMMA UsedRow ==
    ASSUME EnrolmentTypeOK, NEW r \in EnrolmentRow, enrolment[r].is # "none"
    PROVE  /\ enrolment[r] \in Kept
           /\ enrolment[r].from \in Date
           /\ enrolment[r].to \in Date \cup {OpenEnded}
BY DEF EnrolmentTypeOK, Kept, Unused

LEMMA InvHoldsAtFirst == EnrolmentInit => EnrolmentInv
<1> SUFFICES ASSUME EnrolmentInit PROVE EnrolmentInv
    OBVIOUS
<1>1. EnrolmentTypeOK
  <2>1. 1 \in Date /\ OpenEnded \in Nat
    BY EnrolmentAssumption DEF Date, OpenEnded
  <2>2. enrolment \in [EnrolmentRow -> {Unused} \cup Kept]
    BY <2>1 DEF EnrolmentInit, Kept, Unused
  <2> QED
    BY <2>1, <2>2 DEF EnrolmentInit, EnrolmentTypeOK
<1>2. FoundStands
  BY DEF EnrolmentInit, FoundStands
<1>3. NobodyForgotten
  BY DEF EnrolmentInit, NobodyForgotten, Date
<1> QED
  BY <1>1, <1>2, <1>3 DEF EnrolmentInv

\* A request that only reads.
LEMMA SetsKeeps ==
    ASSUME EnrolmentInv, NEW w \in Enroller, NEW j \in Request, Sets(w, j),
           j.found \subseteq Used, j.found # {} => j.from > 1,
           UNCHANGED <<enrolment, today, member, rewritten>>
    PROVE  EnrolmentInv'
<1>1. EnrolmentTypeOK'
  BY DEF EnrolmentInv, EnrolmentTypeOK, Sets
<1>2. FoundStands'
  BY DEF EnrolmentInv, EnrolmentTypeOK, FoundStands, Sets, Used
<1>3. NobodyForgotten'
  BY DEF EnrolmentInv, NobodyForgotten, Backfilled, Covers
<1> QED
  BY <1>1, <1>2, <1>3 DEF EnrolmentInv

LEMMA ReadsKeeps ==
    ASSUME EnrolmentInv, NEW w \in Enroller, NEW c \in SchoolClass, NEW f \in Date,
           NEW t \in Date, NEW op \in {"enrol", "students", "academic"}, Reads(w, op, c, f, t)
    PROVE  EnrolmentInv'
<1>1. PICK u \in {enrolment[r].to : r \in ValidOn(f)} \cup {0} :
         Sets(w, [op |-> op, class |-> c, from |-> f, to |-> t,
                  found |-> ValidOn(f), until |-> u])
  BY DEF Reads
<1>2. ASSUME NEW r \in ValidOn(f)
      PROVE  r \in EnrolmentRow /\ r \in Used /\ enrolment[r].to \in Nat /\ f > 1
  <2>1. r \in EnrolmentRow /\ enrolment[r].is # "none"
    BY DEF ValidOn, Valid
  <2>2. enrolment[r].from \in Date /\ enrolment[r].to \in Date \cup {OpenEnded}
    BY <2>1, UsedRow DEF EnrolmentInv
  <2>3. enrolment[r].from < f
    BY DEF Reads
  <2> QED
    BY <2>1, <2>2, <2>3, EnrolmentAssumption DEF Date, OpenEnded, Used
<1>3. u \in Nat
  BY <1>2
<1> DEFINE j == [op |-> op, class |-> c, from |-> f, to |-> t,
                 found |-> ValidOn(f), until |-> u]
<1>4. j \in Request
  BY <1>2, <1>3 DEF Request
<1>5. j.found \subseteq Used /\ (j.found # {} => j.from > 1)
  BY <1>2
<1> HIDE DEF j
<1> QED
  BY <1>1, <1>4, <1>5, SetsKeeps DEF Reads, j

LEMMA SchoolImportKeeps ==
    ASSUME EnrolmentInv, NEW w \in Enroller, NEW c \in SchoolClass, SchoolImport(w, c)
    PROVE  EnrolmentInv'
<1>1. PICK f \in Date :
         Sets(w, [op |-> "school", class |-> c, from |-> f, to |-> OpenEnded,
                  found |-> {}, until |-> 0])
  BY DEF SchoolImport
<1> DEFINE j == [op |-> "school", class |-> c, from |-> f, to |-> OpenEnded,
                 found |-> {}, until |-> 0]
<1>2. j \in Request
  BY DEF Request
<1>3. j.found = {}
  OBVIOUS
<1> HIDE DEF j
<1> QED
  BY <1>1, <1>2, <1>3, SetsKeeps DEF SchoolImport, j

\* A row that is not in use does not count towards any roster, and a row that
\* is closed keeps the days before its closing.
LEMMA TransferKeeps ==
    ASSUME EnrolmentInv, NEW w \in Enroller, Transfer(w)
    PROVE  EnrolmentInv'
<1> DEFINE j == enroller[w]
<1>1. PICK n \in EnrolmentRow \ Used :
         enrolment' = [r \in EnrolmentRow |->
             CASE r = n -> Opened(j)
               [] r # n /\ r \in j.found -> Closed(enrolment[r], j.from)
               [] OTHER -> enrolment[r]]
  BY DEF Transfer
<1>2. /\ j \in Request /\ j.class \in SchoolClass /\ j.from \in Date
      /\ j.to \in Date \cup {OpenEnded} /\ j.found \in SUBSET EnrolmentRow
      /\ j.found \subseteq Used /\ (j.found # {} => j.from > 1)
  BY RequestFields DEF EnrolmentInv, Transfer, FoundStands
<1>3. n \notin j.found /\ enrolment[n].is = "none"
  BY <1>2 DEF Used
<1>4. ASSUME NEW r \in EnrolmentRow
      PROVE  /\ r = n => enrolment'[r] = Opened(j)
             /\ r \in j.found => enrolment'[r] = [enrolment[r] EXCEPT !.to = j.from - 1]
             /\ r # n /\ r \notin j.found => enrolment'[r] = enrolment[r]
  BY <1>1, <1>3 DEF Closed, ClosingDate
<1> HIDE DEF j
<1>5. Opened(j) \in Kept
  BY <1>2 DEF Opened, Kept
<1>6. ASSUME NEW r \in j.found
      PROVE  /\ r \in EnrolmentRow /\ enrolment[r] \in Kept
             /\ enrolment'[r] \in Kept
             /\ enrolment'[r] = [enrolment[r] EXCEPT !.to = j.from - 1]
  <2>1. r \in EnrolmentRow /\ enrolment[r] \in Kept
    BY <1>2, <1>6, UsedRow DEF EnrolmentInv, Used
  <2>2. j.from - 1 \in Date
    BY <1>2, <1>6, EnrolmentAssumption DEF Date
  <2> QED
    BY <1>4, <1>6, <2>1, <2>2 DEF Kept
<1>7. ASSUME NEW r \in EnrolmentRow
      PROVE  /\ enrolment'[r] \in {Unused} \cup Kept
             /\ enrolment[r].is # "none" => enrolment'[r].is = enrolment[r].is
  <2>1. CASE r = n
    BY <1>3, <1>4, <1>5, <2>1
  <2>2. CASE r \in j.found
    BY <1>6, <2>2 DEF Kept
  <2>3. CASE r # n /\ r \notin j.found
    BY <1>4, <2>3 DEF EnrolmentInv, EnrolmentTypeOK
  <2> QED
    BY <2>1, <2>2, <2>3
<1>8. EnrolmentTypeOK'
  <2>1. enrolment' \in [EnrolmentRow -> {Unused} \cup Kept]
    BY <1>1, <1>7 DEF j
  <2>2. enroller' \in [Enroller -> {Free} \cup Request]
    BY DEF EnrolmentInv, EnrolmentTypeOK, Transfer, Leaves
  <2>3. rewritten' \subseteq Date
    BY DEF EnrolmentInv, EnrolmentTypeOK, Transfer
  <2> QED
    BY <2>1, <2>2, <2>3 DEF EnrolmentInv, EnrolmentTypeOK, Transfer
<1>9. FoundStands'
  <2>1. Used \subseteq Used'
    BY <1>7 DEF Used
  <2> QED
    BY <2>1 DEF EnrolmentInv, EnrolmentTypeOK, FoundStands, Transfer, Leaves
<1>10. NobodyForgotten'
  <2> SUFFICES ASSUME NEW d \in Date, NEW c \in SchoolClass,
                      d < today', d \notin rewritten', c \in member'[d]
               PROVE  Backfilled(c, d)'
    BY DEF NobodyForgotten
  <2>1. d < today /\ d \notin rewritten /\ c \in member[d] /\ ~(j.from <= d)
    BY DEF Transfer, j
  <2>2. PICK r \in EnrolmentRow :
           /\ enrolment[r].is \in {"ACTIVE", "REVOKED"}
           /\ enrolment[r].class = c /\ Covers(r, d)
           /\ enrolment[r].is = "REVOKED" => enrolment[r].changed > d
    BY <2>1 DEF EnrolmentInv, NobodyForgotten, Backfilled
  <2>3. r # n
    BY <1>3, <2>2
  <2>4. CASE r \in j.found
    <3>1. /\ enrolment'[r].is = enrolment[r].is /\ enrolment'[r].class = c
          /\ enrolment'[r].from = enrolment[r].from
          /\ enrolment'[r].changed = enrolment[r].changed
          /\ enrolment'[r].to = j.from - 1
      BY <1>6, <2>2, <2>4 DEF Kept
    <3>2. d <= j.from - 1
      BY <1>2, <2>1 DEF Date
    <3> QED
      BY <2>2, <3>1, <3>2 DEF Backfilled, Covers
  <2>5. CASE r \notin j.found
    BY <1>4, <2>2, <2>3, <2>5 DEF Backfilled, Covers
  <2> QED
    BY <2>4, <2>5
<1> QED
  BY <1>8, <1>9, <1>10 DEF EnrolmentInv

LEMMA RollBackKeeps ==
    ASSUME EnrolmentInv, NEW w \in Enroller, RollBack(w)
    PROVE  EnrolmentInv'
<1>1. EnrolmentTypeOK'
  BY DEF EnrolmentInv, EnrolmentTypeOK, RollBack, Leaves
<1>2. FoundStands'
  BY DEF EnrolmentInv, EnrolmentTypeOK, FoundStands, RollBack, Leaves, Used
<1>3. NobodyForgotten'
  BY DEF EnrolmentInv, NobodyForgotten, Backfilled, Covers, RollBack
<1> QED
  BY <1>1, <1>2, <1>3 DEF EnrolmentInv

\* A revocation is later than every day that is past when it is made.
LEMMA SetAdministrativeStatusKeeps ==
    ASSUME EnrolmentInv, NEW r \in EnrolmentRow, NEW s \in {"CANCELLED", "REVOKED"},
           SetAdministrativeStatus(r, s)
    PROVE  EnrolmentInv'
<1>1. enrolment[r] \in Kept /\ r \in Used
  BY UsedRow DEF EnrolmentInv, SetAdministrativeStatus, Used
<1>2. /\ enrolment'[r] = [enrolment[r] EXCEPT !.is = s, !.changed = today]
      /\ \A q \in EnrolmentRow : q # r => enrolment'[q] = enrolment[q]
  BY DEF EnrolmentInv, EnrolmentTypeOK, SetAdministrativeStatus
<1>3. /\ enrolment'[r] \in Kept /\ enrolment'[r].is = s
      /\ enrolment'[r].changed = today /\ enrolment'[r].class = enrolment[r].class
      /\ enrolment'[r].from = enrolment[r].from /\ enrolment'[r].to = enrolment[r].to
  BY <1>1, <1>2 DEF EnrolmentInv, EnrolmentTypeOK, Kept
<1>4. EnrolmentTypeOK'
  <2>1. enrolment' \in [EnrolmentRow -> {Unused} \cup Kept]
    BY <1>2, <1>3 DEF EnrolmentInv, EnrolmentTypeOK, SetAdministrativeStatus
  <2>2. rewritten' \subseteq Date
    BY DEF EnrolmentInv, EnrolmentTypeOK, SetAdministrativeStatus
  <2> QED
    BY <2>1, <2>2 DEF EnrolmentInv, EnrolmentTypeOK, SetAdministrativeStatus
<1>5. FoundStands'
  <2>1. Used \subseteq Used'
    BY <1>1, <1>2, <1>3 DEF Used
  <2> QED
    BY <2>1 DEF EnrolmentInv, FoundStands, SetAdministrativeStatus
<1>6. NobodyForgotten'
  <2> SUFFICES ASSUME NEW d \in Date, NEW c \in SchoolClass,
                      d < today', d \notin rewritten', c \in member'[d]
               PROVE  Backfilled(c, d)'
    BY DEF NobodyForgotten
  <2>1. d < today /\ d \notin rewritten /\ c \in member[d]
    BY DEF SetAdministrativeStatus
  <2>2. PICK q \in EnrolmentRow :
           /\ enrolment[q].is \in {"ACTIVE", "REVOKED"}
           /\ enrolment[q].class = c /\ Covers(q, d)
           /\ enrolment[q].is = "REVOKED" => enrolment[q].changed > d
    BY <2>1 DEF EnrolmentInv, NobodyForgotten, Backfilled
  <2>3. CASE q = r
    <3>1. s # "CANCELLED"
      BY <2>1, <2>2, <2>3 DEF SetAdministrativeStatus
    <3>2. today > d
      BY <2>1 DEF EnrolmentInv, EnrolmentTypeOK, Date
    <3> QED
      BY <1>3, <2>2, <2>3, <3>1, <3>2 DEF Backfilled, Covers
  <2>4. CASE q # r
    BY <1>2, <2>2, <2>4 DEF Backfilled, Covers
  <2> QED
    BY <2>3, <2>4
<1> QED
  BY <1>4, <1>5, <1>6 DEF EnrolmentInv

LEMMA DayEndsKeeps ==
    ASSUME EnrolmentInv, DayEnds
    PROVE  EnrolmentInv'
<1>1. EnrolmentTypeOK'
  <2>1. today' \in Date
    BY EnrolmentAssumption DEF EnrolmentInv, EnrolmentTypeOK, DayEnds, Date
  <2>2. ClassesOn(today) \subseteq SchoolClass
    BY DEF EnrolmentInv, EnrolmentTypeOK, ClassesOn, ValidOn, Valid, Kept, Unused
  <2>3. member' \in [Date -> SUBSET SchoolClass]
    BY <2>2 DEF EnrolmentInv, EnrolmentTypeOK, DayEnds
  <2> QED
    BY <2>1, <2>3 DEF EnrolmentInv, EnrolmentTypeOK, DayEnds
<1>2. FoundStands'
  BY DEF EnrolmentInv, FoundStands, DayEnds, Used
<1>3. NobodyForgotten'
  <2> SUFFICES ASSUME NEW d \in Date, NEW c \in SchoolClass,
                      d < today', d \notin rewritten', c \in member'[d]
               PROVE  Backfilled(c, d)
    BY DEF NobodyForgotten, Backfilled, Covers, DayEnds
  <2>1. CASE d = today
    <3>1. c \in ClassesOn(today)
      BY <2>1 DEF EnrolmentInv, EnrolmentTypeOK, DayEnds
    <3> QED
      BY <2>1, <3>1 DEF ClassesOn, ValidOn, Valid, Backfilled
  <2>2. CASE d # today
    <3>1. d < today /\ d \notin rewritten /\ c \in member[d]
      BY <2>2 DEF EnrolmentInv, EnrolmentTypeOK, DayEnds, Date
    <3> QED
      BY <3>1 DEF EnrolmentInv, NobodyForgotten
  <2> QED
    BY <2>1, <2>2
<1> QED
  BY <1>1, <1>2, <1>3 DEF EnrolmentInv

LEMMA InvInductive == EnrolmentInv /\ [EnrolmentNext]_enrolmentVars => EnrolmentInv'
<1> SUFFICES ASSUME EnrolmentInv, [EnrolmentNext]_enrolmentVars PROVE EnrolmentInv'
    OBVIOUS
<1>1. ASSUME NEW w \in Enroller, NEW c \in SchoolClass, NEW f \in Date, NEW t \in Date,
             Enrol(w, c, f, t)
      PROVE  EnrolmentInv'
  BY <1>1, ReadsKeeps DEF Enrol
<1>2. ASSUME NEW w \in Enroller, NEW c \in SchoolClass,
             StudentsImport(w, c) \/ AcademicImport(w, c)
      PROVE  EnrolmentInv'
  <2>1. today \in Date /\ TermEnd \in Date
    BY EnrolmentAssumption DEF EnrolmentInv, EnrolmentTypeOK, Date
  <2> QED
    BY <1>2, <2>1, ReadsKeeps DEF StudentsImport, AcademicImport
<1>3. ASSUME NEW w \in Enroller, NEW c \in SchoolClass, SchoolImport(w, c)
      PROVE  EnrolmentInv'
  BY <1>3, SchoolImportKeeps
<1>4. ASSUME NEW w \in Enroller, Transfer(w) PROVE EnrolmentInv'
  BY <1>4, TransferKeeps
<1>5. ASSUME NEW w \in Enroller, RollBack(w) PROVE EnrolmentInv'
  BY <1>5, RollBackKeeps
<1>6. ASSUME NEW r \in EnrolmentRow, NEW s \in {"CANCELLED", "REVOKED"},
             SetAdministrativeStatus(r, s)
      PROVE  EnrolmentInv'
  BY <1>6, SetAdministrativeStatusKeeps
<1>7. CASE DayEnds
  BY <1>7, DayEndsKeeps
<1>8. CASE UNCHANGED enrolmentVars
  <2>1. EnrolmentTypeOK' /\ FoundStands'
    BY <1>8 DEF enrolmentVars, EnrolmentInv, EnrolmentTypeOK, FoundStands, Used
  <2>2. NobodyForgotten'
    BY <1>8 DEF enrolmentVars, EnrolmentInv, NobodyForgotten, Backfilled, Covers
  <2> QED
    BY <2>1, <2>2 DEF EnrolmentInv
<1> QED
  BY <1>1, <1>2, <1>3, <1>4, <1>5, <1>6, <1>7, <1>8 DEF EnrolmentNext

\* In every reachable state the invariant holds.
LEMMA InvHolds == EnrolmentSpec => []EnrolmentInv
  BY InvHoldsAtFirst, InvInductive, PTL DEF EnrolmentSpec

\* Rows, requests, days and the history are what they are declared to be.
THEOREM EnrolmentTyped == EnrolmentSpec => []EnrolmentTypeOK
<1>1. EnrolmentInv => EnrolmentTypeOK
  BY DEF EnrolmentInv
<1> QED
  BY <1>1, InvHolds, PTL

\* Whoever belonged to a class when a day ended is on the roster of that day
\* whenever captureSessionRoster takes it afterwards.
THEOREM RosterRemembers == EnrolmentSpec => []NobodyForgotten
<1>1. EnrolmentInv => NobodyForgotten
  BY DEF EnrolmentInv
<1> QED
  BY <1>1, InvHolds, PTL

-----------------------------------------------------------------------------
(* The four desks in one specification (MCOffice): a behaviour is one of   *)
(* the component at its desk, and the others rest.                          *)

\* What rests at a desk nobody is at is in its type and in order.
LEMMA QuietAccountsFine == QuietAccounts => AccountsTypeOK /\ OneOpenPerFamily
<1> SUFFICES ASSUME QuietAccounts PROVE AccountsTypeOK /\ OneOpenPerFamily
  OBVIOUS
<1>1. 0 \in 0 .. MaxVersion
  BY AccountsAssumption
<1>2. user \in [Account -> User]
  BY <1>1 DEF QuietAccounts, User, Standing
<1>3. sess \in Seq(Session) /\ DOMAIN sess = {}
  BY DEF QuietAccounts
<1>4. clerk \in [Clerk -> Job]
  BY DEF QuietAccounts, Job
<1> QED
  BY <1>2, <1>3, <1>4 DEF AccountsTypeOK, OneOpenPerFamily

LEMMA QuietTimetableFine ==
    QuietTimetable => /\ TimetableTypeOK /\ PeriodsNest /\ UsedAssignmentsHold
                      /\ LeaveAndSessionsAgree /\ OnlyUserRowsDeadlock
<1> SUFFICES ASSUME QuietTimetable
             PROVE  /\ TimetableTypeOK /\ PeriodsNest /\ UsedAssignmentsHold
                    /\ LeaveAndSessionsAgree /\ OnlyUserRowsDeadlock
  OBVIOUS
<1>1. Day \in Span
  BY TimetableAssumption DEF Day, Span
<1>2. /\ \A a \in Assignment : assignment[a] = Absent
      /\ \A s \in Lesson : session[s] = Absent
      /\ weekly = Absent /\ year = Day /\ semester = Day
  BY DEF QuietTimetable
<1>3. TimetableTypeOK
  <2>1. held \in [Registrar -> SUBSET Lock] /\ asked \in 0 .. MaxRequest
    BY TimetableAssumption DEF QuietTimetable
  <2>2. leave \in [is : {"pending", "approved", "ended"}, sub : Teacher \cup {Nobody}]
    BY DEF QuietTimetable
  <2> QED
    BY <1>1, <1>2, <2>1, <2>2 DEF TimetableTypeOK
<1>4. PeriodsNest /\ UsedAssignmentsHold /\ LeaveAndSessionsAgree
  BY <1>2 DEF PeriodsNest, UsedAssignmentsHold, LeaveAndSessionsAgree, Absent, Made
<1>5. \A c \in Registrar : Blockers(c) = {}
  BY DEF QuietTimetable, Blockers, Waiting
<1>6. OnlyUserRowsDeadlock
  BY <1>5 DEF OnlyUserRowsDeadlock, DeadLocked
<1> QED
  BY <1>3, <1>4, <1>6

LEMMA QuietEnrolmentFine == QuietEnrolment => EnrolmentTypeOK /\ NobodyForgotten
<1> SUFFICES ASSUME QuietEnrolment PROVE EnrolmentTypeOK /\ NobodyForgotten
  OBVIOUS
<1>1. 1 \in Date /\ \A d \in Date : ~(d < 1)
  BY EnrolmentAssumption DEF Date
<1> QED
  BY <1>1 DEF QuietEnrolment, EnrolmentTypeOK, NobodyForgotten

\* Whoever is not at the desk of this behaviour has not begun.
Resting ==
    /\ desk # "accounts"  => QuietAccounts
    /\ desk # "timetable" => QuietTimetable
    /\ desk # "classes"   => QuietEnrolment

LEMMA RestingKept == OfficeSpec => []Resting
<1>1. OfficeInit => Resting
  BY DEF OfficeInit, Resting
<1>2. Resting /\ [OfficeNext]_officeVars => Resting'
  BY DEF Resting, OfficeNext, officeVars, accountsVars, timetableVars, recordVars,
         academicVars, enrolmentVars, QuietAccounts, QuietTimetable, QuietEnrolment
<1> QED
  BY <1>1, <1>2, PTL DEF OfficeSpec

\* Every desk implements its own component: what one of the four promises by
\* itself it promises in the office as well.
THEOREM DesksImplemented ==
    OfficeSpec => /\ DevicesSpec
                  /\ desk = "accounts"  => AccountsSpec
                  /\ desk = "timetable" => TimetableSpec
                  /\ desk = "classes"   => EnrolmentSpec
<1>1. OfficeInit => /\ DevicesInit
                    /\ desk = "accounts"  => AccountsInit
                    /\ desk = "timetable" => TimetableInit
                    /\ desk = "classes"   => EnrolmentInit
  BY DEF OfficeInit
<1>2. [OfficeNext]_officeVars =>
          /\ [DevicesNext]_devicesVars
          /\ [AccountsNext]_accountsVars
          /\ [TimetableNext]_timetableVars
          /\ [EnrolmentNext]_enrolmentVars
  BY DEF OfficeNext, officeVars
<1> QED
  BY <1>1, <1>2, PTL DEF OfficeSpec, DevicesSpec, AccountsSpec, TimetableSpec, EnrolmentSpec

\* Nobody changes desks.
LEMMA DeskStays ==
    /\ OfficeSpec /\ desk = "accounts"  => [](desk = "accounts")
    /\ OfficeSpec /\ desk # "accounts"  => [](desk # "accounts")
    /\ OfficeSpec /\ desk = "timetable" => [](desk = "timetable")
    /\ OfficeSpec /\ desk # "timetable" => [](desk # "timetable")
    /\ OfficeSpec /\ desk = "classes"   => [](desk = "classes")
    /\ OfficeSpec /\ desk # "classes"   => [](desk # "classes")
<1>1. desk = "accounts" /\ [OfficeNext]_officeVars => (desk = "accounts")'
  BY DEF OfficeNext, officeVars
<1>2. desk # "accounts" /\ [OfficeNext]_officeVars => (desk # "accounts")'
  BY DEF OfficeNext, officeVars
<1>3. desk = "timetable" /\ [OfficeNext]_officeVars => (desk = "timetable")'
  BY DEF OfficeNext, officeVars
<1>4. desk # "timetable" /\ [OfficeNext]_officeVars => (desk # "timetable")'
  BY DEF OfficeNext, officeVars
<1>5. desk = "classes" /\ [OfficeNext]_officeVars => (desk = "classes")'
  BY DEF OfficeNext, officeVars
<1>6. desk # "classes" /\ [OfficeNext]_officeVars => (desk # "classes")'
  BY DEF OfficeNext, officeVars
<1> QED
  BY <1>1, <1>2, <1>3, <1>4, <1>5, <1>6, PTL DEF OfficeSpec

\* The rows and jobs of all four desks are what they are declared to be, at
\* whichever desk somebody works.
THEOREM OfficeTyped == OfficeSpec => []OfficeTypeOK
<1>1. Resting => /\ desk # "accounts"  => AccountsTypeOK
                 /\ desk # "timetable" => TimetableTypeOK
                 /\ desk # "classes"   => EnrolmentTypeOK
  BY QuietAccountsFine, QuietTimetableFine, QuietEnrolmentFine DEF Resting
<1>2. AccountsTypeOK /\ DevicesTypeOK /\ TimetableTypeOK /\ EnrolmentTypeOK => OfficeTypeOK
  BY DEF OfficeTypeOK
<1>3. /\ desk = "accounts"  \/ desk # "accounts"
      /\ desk = "timetable" \/ desk # "timetable"
      /\ desk = "classes"   \/ desk # "classes"
  OBVIOUS
<1>4. OfficeSpec => [](desk = "accounts" => AccountsTypeOK)
  <2>1. OfficeSpec /\ desk = "accounts" => []AccountsTypeOK
    BY DesksImplemented, AccountsTyped, PTL
  <2>2. OfficeSpec /\ desk # "accounts" => [](desk # "accounts")
    BY DeskStays, PTL
  <2>3. desk = "accounts" \/ desk # "accounts"
    OBVIOUS
  <2>4. desk # "accounts" => ~(desk = "accounts")
    OBVIOUS
  <2> QED
    BY <2>1, <2>2, <2>3, <2>4, PTL
<1>5. OfficeSpec => [](desk = "timetable" => TimetableTypeOK)
  <2>1. OfficeSpec /\ desk = "timetable" => []TimetableTypeOK
    BY DesksImplemented, TimetableTyped, PTL
  <2>2. OfficeSpec /\ desk # "timetable" => [](desk # "timetable")
    BY DeskStays, PTL
  <2>3. desk = "timetable" \/ desk # "timetable"
    OBVIOUS
  <2>4. desk # "timetable" => ~(desk = "timetable")
    OBVIOUS
  <2> QED
    BY <2>1, <2>2, <2>3, <2>4, PTL
<1>6. OfficeSpec => [](desk = "classes" => EnrolmentTypeOK)
  <2>1. OfficeSpec /\ desk = "classes" => []EnrolmentTypeOK
    BY DesksImplemented, EnrolmentTyped, PTL
  <2>2. OfficeSpec /\ desk # "classes" => [](desk # "classes")
    BY DeskStays, PTL
  <2>3. desk = "classes" \/ desk # "classes"
    OBVIOUS
  <2>4. desk # "classes" => ~(desk = "classes")
    OBVIOUS
  <2> QED
    BY <2>1, <2>2, <2>3, <2>4, PTL
<1>7. OfficeSpec => []DevicesTypeOK
  BY DesksImplemented, DevicesTyped, PTL
<1> QED
  BY <1>1, <1>2, <1>3, <1>4, <1>5, <1>6, <1>7, RestingKept, PTL

\* What the runs check of the office holds of it whoever is at which desk:
\* one session per sign-in, the codes of readers, periods, assignments, leave
\* and locks of the timetable, and the rosters.
THEOREM OfficeInOrder ==
    ASSUME ~Stale, IsFiniteSet(Registrar)
    PROVE  OfficeSpec => [](/\ OneOpenPerFamily /\ CodeTradedOnce
                            /\ PeriodsNest /\ UsedAssignmentsHold /\ LeaveAndSessionsAgree
                            /\ OnlyUserRowsDeadlock /\ NobodyForgotten)
<1> DEFINE TimetableInOrder == /\ PeriodsNest /\ UsedAssignmentsHold
                               /\ LeaveAndSessionsAgree /\ OnlyUserRowsDeadlock
<1>1. Resting => /\ desk # "accounts"  => OneOpenPerFamily
                 /\ desk # "timetable" => TimetableInOrder
                 /\ desk # "classes"   => NobodyForgotten
  BY QuietAccountsFine, QuietTimetableFine, QuietEnrolmentFine DEF Resting
<1>2. OfficeSpec => [](desk = "accounts" => OneOpenPerFamily)
  <2>1. OfficeSpec /\ desk = "accounts" => [](OneOpenPerFamily)
    BY DesksImplemented, OneOpenSession, PTL
  <2>2. OfficeSpec /\ desk # "accounts" => [](desk # "accounts")
    BY DeskStays, PTL
  <2>3. desk = "accounts" \/ desk # "accounts"
    OBVIOUS
  <2>4. desk # "accounts" => ~(desk = "accounts")
    OBVIOUS
  <2> QED
    BY <2>1, <2>2, <2>3, <2>4, PTL
<1>3. TimetableSpec => []TimetableInOrder
  BY PeriodsStayNested, AssignmentsInUseHold, SessionsFollowLeave, OnlyUserRowsInCircles, PTL
<1>4. OfficeSpec => [](desk = "timetable" => TimetableInOrder)
  <2>1. OfficeSpec /\ desk = "timetable" => [](TimetableInOrder)
    BY DesksImplemented, <1>3, PTL
  <2>2. OfficeSpec /\ desk # "timetable" => [](desk # "timetable")
    BY DeskStays, PTL
  <2>3. desk = "timetable" \/ desk # "timetable"
    OBVIOUS
  <2>4. desk # "timetable" => ~(desk = "timetable")
    OBVIOUS
  <2> QED
    BY <2>1, <2>2, <2>3, <2>4, PTL
<1>5. OfficeSpec => [](desk = "classes" => NobodyForgotten)
  <2>1. OfficeSpec /\ desk = "classes" => [](NobodyForgotten)
    BY DesksImplemented, RosterRemembers, PTL
  <2>2. OfficeSpec /\ desk # "classes" => [](desk # "classes")
    BY DeskStays, PTL
  <2>3. desk = "classes" \/ desk # "classes"
    OBVIOUS
  <2>4. desk # "classes" => ~(desk = "classes")
    OBVIOUS
  <2> QED
    BY <2>1, <2>2, <2>3, <2>4, PTL
<1>6. OfficeSpec => []CodeTradedOnce
  BY DesksImplemented, CodeGivesOneSecret, PTL
<1>7. /\ desk = "accounts"  \/ desk # "accounts"
      /\ desk = "timetable" \/ desk # "timetable"
      /\ desk = "classes"   \/ desk # "classes"
  OBVIOUS
<1> QED
  BY <1>1, <1>2, <1>4, <1>5, <1>6, <1>7, RestingKept, PTL

\* At whichever desk somebody works, a sign-in that was ended stays ended, a
\* token refused once stays refused, and a reader that is out stays out.
THEOREM OfficeRefusesForGood ==
    OfficeSpec => DeadFamilyStaysDead /\ RefusedForGood /\ RevokedForGood
<1>0. OfficeSpec => RevokedForGood
  BY DesksImplemented, RevokedStayOut, PTL
<1>1. OfficeSpec /\ desk = "accounts" => DeadFamilyStaysDead /\ RefusedForGood
  BY DesksImplemented, SignedOutForGood, RefusalStands, PTL
<1>2. desk # "accounts" /\ [OfficeNext]_officeVars =>
          /\ [\A f \in DOMAIN sess :
                Family(f) # {} /\ Unrevoked(Family(f)) = {} => Unrevoked(Family(f))' = {}]_accountsVars
          /\ [\A r \in DOMAIN sess : ~Honoured(r) => ~Honoured(r)']_accountsVars
  BY DEF OfficeNext, officeVars
<1>3. OfficeSpec /\ desk # "accounts" => [](desk # "accounts")
  BY DeskStays, PTL
<1>4. desk = "accounts" \/ desk # "accounts"
  OBVIOUS
<1> QED
  BY <1>0, <1>1, <1>2, <1>3, <1>4, PTL DEF OfficeSpec, DeadFamilyStaysDead, RefusedForGood
=============================================================================
