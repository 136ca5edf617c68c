------------------------------ MODULE Accounts ------------------------------
(***************************************************************************)
(* The auth service: AuthService and UsersService, with the gateway's      *)
(* guards in front of them.  A request is one HTTP call: a sign-up, a      *)
(* verification, a mail with a code, a sign-in by password or by Google,   *)
(* or a refresh.                                                           *)
(*                                                                         *)
(* Requests interleave at every await.  No index keeps e-mail addresses    *)
(* unique, and a user document holds one refresh token.  A request that    *)
(* makes an account makes one, which is named after it.  A call that dies  *)
(* with its process is a call that takes no further step.                  *)
(***************************************************************************)
EXTENDS Naturals

CONSTANTS
    Requests,
    Emails,
    Old,           \* accounts that exist already
    OldEmail,      \* their e-mail addresses
    OldActive,     \* the active ones
    NoEmail,       \* an e-mail address that is undefined
    None,          \* no account, no token
    Shapes,        \* how the gateway packs a DTO
    MaxTime,       \* seconds that pass
    MaxFaults      \* updates of the refresh token that fail

ASSUME OldAssumption ==
    /\ Old \cap Requests = {}
    /\ OldEmail \in [Old -> Emails]
    /\ \A u, v \in Old : OldEmail[u] = OldEmail[v] => u = v
    /\ OldActive \subseteq Old
ASSUME ShapesAssumption == Shapes \subseteq {"plain", "wrapped"}
ASSUME BoundsAssumption == MaxTime \in Nat /\ MaxFaults \in Nat

Accounts == Old \cup Requests
Tokens == [of : Accounts, at : Nat]
ASSUME NothingAssumption == NoEmail \notin Emails /\ None \notin Accounts \cup Tokens

VARIABLES
    users,        \* accounts that exist
    email,        \* email[u]
    active,       \* users that are active
    personal,     \* users whose password somebody knows
    stored,       \* stored[u]: the refresh token in the document of u
    mailed,       \* users who were sent a code
    now,          \* the time, in seconds
    pc,           \* pc[q]: the next await of a request
    want,         \* want[q]: the e-mail address it makes an account of
    found,        \* found[q]: the account it read or made
    token,        \* token[q]: the refresh token it signed
    session,      \* session[q]: whose refresh token it shows
    faults,
    before,       \* history: sign-ins that had ended when q stored or started
    overlapped,   \* history: addresses that two calls were making accounts of
    passwords     \* history: requests that signed in by password

documents == <<users, email, active, personal, stored>>
calls == <<pc, want, found, token, session>>
history == <<before, overlapped, passwords>>
vars == <<documents, mailed, now, calls, faults, history>>

Creating == {"signingUp", "registering"}
PCs == Creating \cup {"idle", "verifying", "signing", "storing", "signedIn",
                      "asking", "refreshed", "refused", "done", "failed"}

TypeOK ==
    /\ users \subseteq Accounts
    /\ email \in [Accounts -> Emails \cup {NoEmail}]
    /\ active \subseteq users
    /\ personal \subseteq users
    /\ stored \in [Accounts -> Tokens \cup {None}]
    /\ mailed \subseteq users
    /\ now \in 0 .. MaxTime
    /\ pc \in [Requests -> PCs]
    /\ want \in [Requests -> Emails \cup {NoEmail}]
    /\ found \in [Requests -> Accounts \cup {None}]
    /\ token \in [Requests -> Tokens \cup {None}]
    /\ session \in [Requests -> Requests]
    /\ faults \in 0 .. MaxFaults
    /\ before \in [Requests -> SUBSET Requests]
    /\ overlapped \subseteq Emails \cup {NoEmail}
    /\ passwords \subseteq Requests

Init ==
    /\ users = Old
    /\ email = [u \in Accounts |-> IF u \in Old THEN OldEmail[u] ELSE NoEmail]
    /\ active = OldActive
    /\ personal = Old
    /\ stored = [u \in Accounts |-> None]
    /\ mailed = {}
    /\ now = 0
    /\ pc = [q \in Requests |-> "idle"]
    /\ want = [q \in Requests |-> NoEmail]
    /\ found = [q \in Requests |-> None]
    /\ token = [q \in Requests |-> None]
    /\ session = [q \in Requests |-> q]
    /\ faults = 0
    /\ before = [q \in Requests |-> {}]
    /\ overlapped = {}
    /\ passwords = {}

GoTo(q, from, to) == pc[q] = from /\ pc' = [pc EXCEPT ![q] = to]

\* The users with an address.  findOne takes any of them: no order is asked
\* for.  An undefined address is sent as null, which matches a user without.
Find(e) == {u \in users : email[u] = e}
FindOne(e) == IF Find(e) = {} THEN {None} ELSE Find(e)

\* The gateway sends { signUpDto }, and the handler takes the fields of the
\* DTO from it: they are undefined.
Received(shape, e) == IF shape = "plain" THEN e ELSE NoEmail

\* A call that found no account of e and has not made it yet.
MakerOf(e) == {q \in Requests : pc[q] \in Creating /\ want[q] = e}
Overlap(e) == overlapped' = IF MakerOf(e) = {} THEN overlapped ELSE overlapped \cup {e}

-----------------------------------------------------------------------------
(* Sign-up, and verification by mail                                       *)

\* isEmailExist, and a variant that never finds one.
NeverTaken(e) == FALSE
Taken(e) == Find(e) # {}

\* signUp looks for the address; the hash of the password is next.
SignUpCheck(q) ==
    /\ \E e \in Emails, s \in Shapes :
          LET got == Received(s, e)
          IN  IF Taken(got)
              THEN GoTo(q, "idle", "failed") /\ UNCHANGED <<want, overlapped>>
              ELSE /\ GoTo(q, "idle", "signingUp")
                   /\ want' = [want EXCEPT ![q] = got]
                   /\ Overlap(got)
    /\ UNCHANGED <<documents, mailed, now, found, token, session, faults, before, passwords>>

\* userModel.create.
Make(q) ==
    /\ users' = users \cup {q}
    /\ email' = [email EXCEPT ![q] = want[q]]
    /\ UNCHANGED stored

\* An undefined password has no hash, and nobody can match it.
SignUpCreate(q) ==
    /\ GoTo(q, "signingUp", "done")
    /\ Make(q)
    /\ personal' = IF want[q] = NoEmail THEN personal ELSE personal \cup {q}
    /\ UNCHANGED <<active, mailed, now, want, found, token, session, faults, history>>

\* sendVerificationEmail: a code from the secret of the user, unless no user
\* is found, he has no address, or the mail server refuses.
SendEmail(q) ==
    /\ \E e \in Emails, s \in Shapes : \E u \in FindOne(Received(s, e)) :
          \/ /\ u # None /\ email[u] # NoEmail
             /\ GoTo(q, "idle", "done")
             /\ mailed' = mailed \cup {u}
          \/ GoTo(q, "idle", "failed") /\ UNCHANGED mailed
    /\ UNCHANGED <<documents, now, want, found, token, session, faults, history>>

\* verify of otplib: the code is of this user's secret.  Variants ask for a
\* user and no code, and for a code and no user.
AnyCode(u, code) == u # None
NoUserNeeded(u, code) == code = u
Valid(u, code) == u # None /\ code = u

\* verifyAccount reads a user by the address; the code is one that was
\* mailed, or none.  An undefined code throws, which is caught.  (The 150
\* seconds of a code and the lifetime of a token may end only what is allowed
\* here.)
VerifyFind(q) ==
    /\ \E e \in Emails, s \in Shapes, code \in mailed \cup {None} :
          \E u \in FindOne(Received(s, e)) :
             IF s = "plain" /\ Valid(u, code)
             THEN GoTo(q, "idle", "verifying") /\ found' = [found EXCEPT ![q] = u]
             ELSE GoTo(q, "idle", "failed") /\ UNCHANGED found
    /\ UNCHANGED <<documents, mailed, now, want, token, session, faults, history>>

VerifyWrite(q) ==
    /\ GoTo(q, "verifying", "done")
    /\ active' = active \cup {found[q]}
    /\ UNCHANGED <<users, email, personal, stored, mailed, now, want, found, token, session,
                   faults, history>>

-----------------------------------------------------------------------------
(* Sign-in                                                                 *)

\* The gateway lets active users sign in by password; a variant all of them.
AnyUser(u) == TRUE
MaySignIn(u) == u \in active

\* LocalStrategy: validateUser compares the password, and the gateway looks
\* at isActive.  signIn is given the user as it was read here.
Validate(q) ==
    /\ \E e \in Emails : \E u \in FindOne(e) :
          \/ /\ u \in personal /\ MaySignIn(u)
             /\ GoTo(q, "idle", "signing")
             /\ found' = [found EXCEPT ![q] = u]
             /\ passwords' = passwords \cup {q}
          \/ GoTo(q, "idle", "failed") /\ UNCHANGED <<found, passwords>>
    /\ UNCHANGED <<documents, mailed, now, want, token, session, faults, before, overlapped>>

\* signInOrSignUp: whoever has the address, active or not.
GoogleFind(q) ==
    /\ \E e \in Emails : \E u \in FindOne(e) :
          IF u # None
          THEN /\ GoTo(q, "idle", "signing")
               /\ found' = [found EXCEPT ![q] = u]
               /\ UNCHANGED <<want, overlapped>>
          ELSE /\ GoTo(q, "idle", "registering")
               /\ want' = [want EXCEPT ![q] = e]
               /\ Overlap(e)
               /\ UNCHANGED found
    /\ UNCHANGED <<documents, mailed, now, token, session, faults, before, passwords>>

\* The new account is active, with a random password.
GoogleCreate(q) ==
    /\ GoTo(q, "registering", "signing")
    /\ Make(q)
    /\ active' = active \cup {q}
    /\ found' = [found EXCEPT ![q] = q]
    /\ UNCHANGED <<personal, mailed, now, want, token, session, faults, history>>

\* signAsync: the token is the user and the second, and no more, so that two
\* sign-ins of one second have the same.
Sign(q) ==
    /\ GoTo(q, "signing", "storing")
    /\ token' = [token EXCEPT ![q] = [of |-> found[q], at |-> now]]
    /\ UNCHANGED <<documents, mailed, now, want, found, session, faults, history>>

SignedIn == {p \in Requests : pc[p] = "signedIn"}

\* updateRefreshToken, and a variant that keeps a token that is there.
KeepStored(q) ==
    stored' = [stored EXCEPT ![found[q]] = IF @ = None THEN token[q] ELSE @]
Replace(q) == stored' = [stored EXCEPT ![found[q]] = token[q]]

Store(q) ==
    /\ Replace(q)
    /\ before' = [before EXCEPT ![q] = SignedIn]

\* ... and the token becomes a cookie.
StoreToken(q) ==
    /\ GoTo(q, "storing", "signedIn")
    /\ Store(q)
    /\ UNCHANGED <<users, email, active, personal, mailed, now, want, found, token, session,
                   faults, overlapped, passwords>>

\* The update or its answer is lost: the client has no cookie.
StoreFails(q) ==
    /\ GoTo(q, "storing", "failed")
    /\ faults < MaxFaults
    /\ faults' = faults + 1
    /\ Store(q) \/ UNCHANGED <<stored, before>>
    /\ UNCHANGED <<users, email, active, personal, mailed, now, want, found, token, session,
                   overlapped, passwords>>

-----------------------------------------------------------------------------
(* Refresh                                                                 *)

\* JwtRefreshStrategy takes the user and the token from a cookie.
RefreshStart(q) ==
    /\ GoTo(q, "idle", "asking")
    /\ \E p \in SignedIn : session' = [session EXCEPT ![q] = p]
    /\ before' = [before EXCEPT ![q] = SignedIn]
    /\ UNCHANGED <<documents, mailed, now, want, found, token, faults, overlapped, passwords>>

\* u.refresh_token !== user.refresh_token, and a variant that accepts any.
AnyToken(u, t) == u # None
Accepted(u, t) == u # None /\ stored[u] = t

\* processRefreshToken reads the user by the address in the token.
RefreshRead(q) ==
    /\ pc[q] = "asking"
    /\ \E u \in FindOne(email[found[session[q]]]) :
          GoTo(q, "asking", IF Accepted(u, token[session[q]]) THEN "refreshed" ELSE "refused")
    /\ UNCHANGED <<documents, mailed, now, want, found, token, session, faults, history>>

Tick ==
    /\ now < MaxTime
    /\ now' = now + 1
    /\ UNCHANGED <<documents, mailed, calls, faults, history>>

-----------------------------------------------------------------------------
RegisterStep(q) ==
    SignUpCheck(q) \/ SignUpCreate(q) \/ SendEmail(q) \/ VerifyFind(q) \/ VerifyWrite(q)
SignInStep(q) ==
    \/ Validate(q) \/ GoogleFind(q) \/ GoogleCreate(q)
    \/ Sign(q) \/ StoreToken(q) \/ StoreFails(q)

Next ==
    \/ \E q \in Requests :
          RegisterStep(q) \/ SignInStep(q) \/ RefreshStart(q) \/ RefreshRead(q)
    \/ Tick

Spec == Init /\ [][Next]_vars

-----------------------------------------------------------------------------
(* Properties.                                                             *)

\* The check for the address and the creation are two steps: an address has
\* two accounts only if two calls were between them at one time.
OneAccountPerEmail ==
    \A u, v \in users : email[u] = email[v] => u = v \/ email[u] \in overlapped

\* Who signs in by password has an account that was active from the start,
\* or was sent the code of that very account, two accounts of one address
\* included.
PasswordNeedsCode == \A q \in passwords : found[q] \in OldActive \cup mailed

\* A refresh that starts when sign-in s has ended shows the token of s, or of
\* a sign-in of that account that ended later: no interleaving of sign-ins
\* brings an older session back.
RefreshIsLatest ==
    \A q \in Requests : pc[q] = "refreshed" =>
        LET p == session[q]
        IN  \A s \in before[q] : found[s] = found[p] =>
                \/ token[p] = token[s]
                \/ \E r \in Requests :
                      s \in before[r] /\ found[r] = found[p] /\ token[r] = token[p]

\* A session is refused only if a later sign-in stored another token in its
\* account, or if its address may have two accounts.
RefusedForAReason ==
    \A q \in Requests : pc[q] = "refused" =>
        LET p == session[q]
        IN  \/ email[found[p]] \in overlapped
            \/ \E r \in Requests :
                  p \in before[r] /\ found[r] = found[p] /\ token[r] # token[p]
=============================================================================
