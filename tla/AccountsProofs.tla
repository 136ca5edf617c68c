--------------------------- MODULE AccountsProofs ---------------------------
(***************************************************************************)
(* Proofs about Accounts, for every set of requests, addresses and         *)
(* accounts.  MakerInv says what the window between the check for an       *)
(* address and the creation leaves open, CodeInv who may be active, and    *)
(* TokenInv and LastInv what the one refresh token of a user tells.        *)
(***************************************************************************)
EXTENDS Accounts, TLAPS

USE OldAssumption, NothingAssumption, ShapesAssumption, BoundsAssumption

(* An account a request has made, and the accounts that are being made. *)
MakerInv ==
    /\ \A q \in Requests : q \in users => pc[q] \in PCs \ (Creating \cup {"idle"})
    /\ \A q \in Requests, v \in users :
          pc[q] \in Creating /\ email[v] = want[q] => want[q] \in overlapped
    /\ \A q, p \in Requests :
          pc[q] \in Creating /\ pc[p] \in Creating /\ want[q] = want[p]
              => q = p \/ want[q] \in overlapped

(* Active accounts that somebody has a password of. *)
CodeInv ==
    /\ active \cap personal \subseteq OldActive \cup mailed
    /\ \A q \in Requests : pc[q] = "verifying" => found[q] \in mailed
    /\ \A q \in passwords : pc[q] \in {"signing", "storing", "signedIn", "failed"}

Ended == {"signedIn", "failed", "asking", "refreshed", "refused"}

(* What a request knows of its account and its token. *)
TokenInv ==
    /\ \A q \in Requests :
          /\ pc[q] \in {"signing", "storing", "signedIn"} => found[q] \in users
          /\ pc[q] \in {"storing", "signedIn"} => token[q] \in Tokens /\ token[q].of = found[q]
          /\ pc[q] \notin Ended => before[q] = {}
          /\ before[q] \subseteq SignedIn
          /\ pc[q] \in {"asking", "refreshed", "refused"} => session[q] \in SignedIn
    /\ \A u \in Accounts : stored[u] # None => stored[u].of = u

Later(s, r) == s \in before[r] /\ found[r] = found[s]

(* The token in the document is that of s, or of a sign-in that stored its *)
(* token after s.                                                          *)
LastInv ==
    \A s \in SignedIn :
        \/ stored[found[s]] = token[s]
        \/ \E r \in Requests : Later(s, r) /\ token[r] = stored[found[s]]

IInv ==
    /\ TypeOK
    /\ MakerInv
    /\ OneAccountPerEmail
    /\ CodeInv
    /\ PasswordNeedsCode
    /\ TokenInv
    /\ LastInv
    /\ RefreshIsLatest
    /\ RefusedForAReason

-----------------------------------------------------------------------------
LEMMA InitIInv == Init => IInv
<1> SUFFICES ASSUME Init PROVE IInv
  OBVIOUS
<1> USE DEF Init
<1>1. TypeOK
  <2>1. OldEmail \in [Old -> Emails] /\ Old \subseteq Accounts /\ Requests \subseteq Accounts
    BY DEF Accounts
  <2>2. email \in [Accounts -> Emails \cup {NoEmail}]
    BY <2>1
  <2> QED
    BY <2>1, <2>2 DEF TypeOK, PCs, Creating
<1>2. MakerInv /\ OneAccountPerEmail
  <2>1. \A u, v \in users : email[u] = email[v] => u = v
    BY DEF Accounts
  <2> QED
    BY <2>1 DEF MakerInv, OneAccountPerEmail, Creating
<1>3. CodeInv /\ PasswordNeedsCode
  BY DEF CodeInv, PasswordNeedsCode
<1>4. TokenInv /\ LastInv
  BY DEF TokenInv, LastInv, SignedIn, Accounts
<1>5. RefreshIsLatest /\ RefusedForAReason
  BY DEF RefreshIsLatest, RefusedForAReason
<1> QED
  BY <1>1, <1>2, <1>3, <1>4, <1>5 DEF IInv

(* A request that moves outside of sign-ins and refreshes that have ended   *)
(* leaves what is known of them.                                            *)
LEMMA SessionsStay ==
    ASSUME IInv, NEW q \in Requests, pc[q] \notin Ended,
           pc'[q] \notin {"signedIn", "refreshed", "refused"},
           \A p \in Requests : p # q => /\ pc'[p] = pc[p] /\ found'[p] = found[p]
                                         /\ token'[p] = token[p] /\ session'[p] = session[p]
                                         /\ before'[p] = before[p],
           stored' = stored,
           overlapped \subseteq overlapped',
           \A u \in users : email'[u] = email[u]
    PROVE  SignedIn' = SignedIn /\ LastInv' /\ RefreshIsLatest' /\ RefusedForAReason'
<1> USE DEF IInv
<1>1. SignedIn' = SignedIn
  BY DEF SignedIn, Ended
<1>2. q \notin SignedIn /\ before[q] = {}
  BY DEF SignedIn, Ended, TokenInv
<1>3. \A s \in SignedIn : found'[s] = found[s] /\ token'[s] = token[s] /\ s \in Requests
  BY <1>2 DEF SignedIn
<1>4. \A s \in SignedIn, r \in Requests :
        s \in before[r] => r # q /\ s \in before'[r] /\ found'[r] = found[r] /\ token'[r] = token[r]
  BY <1>2
<1>5. LastInv'
  <2> SUFFICES ASSUME NEW s \in SignedIn
               PROVE  \/ stored[found[s]] = token[s]
                      \/ \E r \in Requests : Later(s, r)' /\ token'[r] = stored[found[s]]
    BY <1>1, <1>3 DEF LastInv
  <2>1. CASE stored[found[s]] = token[s]
    BY <2>1
  <2>2. CASE \E r \in Requests : Later(s, r) /\ token[r] = stored[found[s]]
    BY <2>2, <1>3, <1>4 DEF Later
  <2> QED
    BY <2>1, <2>2 DEF LastInv
<1>6. \A p \in Requests : pc'[p] \in {"refreshed", "refused"} =>
        /\ p # q /\ pc[p] = pc'[p] /\ before'[p] = before[p] /\ session'[p] = session[p]
        /\ session[p] \in SignedIn /\ before[p] \subseteq SignedIn
  BY DEF TokenInv
<1>7. RefreshIsLatest'
  <2> SUFFICES ASSUME NEW p \in Requests, pc'[p] = "refreshed",
                      NEW s \in before[p], found[s] = found[session[p]]
               PROVE  \/ token[session[p]] = token[s]
                      \/ \E r \in Requests : /\ s \in before'[r]
                                             /\ found'[r] = found[session[p]]
                                             /\ token'[r] = token[session[p]]
    BY <1>3, <1>6 DEF RefreshIsLatest
  <2>1. \/ token[session[p]] = token[s]
        \/ \E r \in Requests : /\ s \in before[r] /\ found[r] = found[session[p]]
                               /\ token[r] = token[session[p]]
    BY <1>6 DEF RefreshIsLatest
  <2> QED
    BY <2>1, <1>4, <1>6
<1>8. RefusedForAReason'
  <2> SUFFICES ASSUME NEW p \in Requests, pc'[p] = "refused"
               PROVE  \/ email'[found[session[p]]] \in overlapped'
                      \/ \E r \in Requests : /\ session[p] \in before'[r]
                                             /\ found'[r] = found[session[p]]
                                             /\ token'[r] # token[session[p]]
    BY <1>3, <1>6 DEF RefusedForAReason
  <2>1. \/ email[found[session[p]]] \in overlapped
        \/ \E r \in Requests : /\ session[p] \in before[r] /\ found[r] = found[session[p]]
                               /\ token[r] # token[session[p]]
    BY <1>6 DEF RefusedForAReason
  <2>2. found[session[p]] \in users
    BY <1>6 DEF TokenInv, SignedIn
  <2> QED
    BY <2>1, <2>2, <1>4, <1>6
<1> QED
  BY <1>1, <1>5, <1>7, <1>8

LEMMA SignUpCheckIInv == ASSUME IInv, NEW q \in Requests, SignUpCheck(q) PROVE IInv'
<1> USE DEF IInv, SignUpCheck, GoTo, documents
<1>0. PICK e \in Emails, s \in Shapes :
        IF Taken(Received(s, e))
        THEN pc[q] = "idle" /\ pc' = [pc EXCEPT ![q] = "failed"] /\ UNCHANGED <<want, overlapped>>
        ELSE /\ pc[q] = "idle" /\ pc' = [pc EXCEPT ![q] = "signingUp"]
             /\ want' = [want EXCEPT ![q] = Received(s, e)]
             /\ Overlap(Received(s, e))
  OBVIOUS
<1> DEFINE got == Received(s, e)
<1>1. got \in Emails \cup {NoEmail}
  BY DEF Received
<1>2. TypeOK'
  BY <1>0, <1>1 DEF TypeOK, PCs, Creating, Overlap
<1> HIDE DEF got
<1>3. overlapped \subseteq overlapped'
  BY <1>0 DEF Overlap
<1>4. MakerInv' /\ OneAccountPerEmail'
  <2>1. CASE Taken(got)
    BY <2>1, <1>0 DEF MakerInv, OneAccountPerEmail, TypeOK, Creating, PCs, got
  <2>2. CASE ~Taken(got)
    <3>1. /\ pc' = [pc EXCEPT ![q] = "signingUp"] /\ want' = [want EXCEPT ![q] = got]
          /\ overlapped' = IF MakerOf(got) = {} THEN overlapped ELSE overlapped \cup {got}
      BY <2>2, <1>0 DEF got, Overlap
    <3>2. \A v \in users : email[v] # got
      BY <2>2 DEF Taken, Find
    <3>3. \A p \in Requests : p # q /\ pc[p] \in Creating /\ want[p] = got => got \in overlapped'
      BY <3>1 DEF MakerOf
    <3>4. q \notin users
      BY <1>0 DEF MakerInv, Creating
    <3>5. OneAccountPerEmail'
      BY <1>3 DEF OneAccountPerEmail
    <3> QED
      BY <3>1, <3>2, <3>3, <3>4, <3>5, <1>3 DEF MakerInv, TypeOK, Creating, PCs
  <2> QED
    BY <2>1, <2>2
<1>5. CodeInv' /\ PasswordNeedsCode'
  BY <1>0 DEF CodeInv, PasswordNeedsCode, TypeOK
<1>6. SignedIn' = SignedIn /\ LastInv' /\ RefreshIsLatest' /\ RefusedForAReason'
  BY <1>0, <1>3, SessionsStay DEF TypeOK, Ended
<1>7. TokenInv'
  BY <1>0, <1>6 DEF TokenInv, TypeOK, Ended, SignedIn
<1> QED
  BY <1>2, <1>4, <1>5, <1>6, <1>7

LEMMA SignUpCreateIInv == ASSUME IInv, NEW q \in Requests, SignUpCreate(q) PROVE IInv'
<1> USE DEF IInv, SignUpCreate, GoTo, Make, history
<1>0. q \notin users /\ q \in Accounts
  BY DEF MakerInv, Creating, Accounts
<1>1. TypeOK'
  BY <1>0 DEF TypeOK, PCs, Creating
<1>2. \A u \in users : email'[u] = email[u]
  BY <1>0 DEF TypeOK
<1>3. email'[q] = want[q] /\ users' = users \cup {q}
  BY <1>0 DEF TypeOK
<1>4. MakerInv'
  BY <1>0, <1>2, <1>3 DEF MakerInv, TypeOK, PCs, Creating
<1>5. OneAccountPerEmail'
  <2>1. \A v \in users : email[v] = want[q] => want[q] \in overlapped
    BY DEF MakerInv, Creating
  <2> QED
    BY <2>1, <1>2, <1>3 DEF OneAccountPerEmail
<1>6. CodeInv' /\ PasswordNeedsCode'
  <2>1. q \notin active
    BY <1>0 DEF TypeOK
  <2> QED
    BY <2>1 DEF CodeInv, PasswordNeedsCode, TypeOK
<1>7. SignedIn' = SignedIn /\ LastInv' /\ RefreshIsLatest' /\ RefusedForAReason'
  BY <1>2, SessionsStay DEF TypeOK, Ended
<1>8. TokenInv'
  BY <1>7, <1>0 DEF TokenInv, TypeOK, Ended, SignedIn
<1> QED
  BY <1>1, <1>4, <1>5, <1>6, <1>7, <1>8

LEMMA SendEmailIInv == ASSUME IInv, NEW q \in Requests, SendEmail(q) PROVE IInv'
<1> USE DEF IInv, SendEmail, GoTo, documents, history
<1>0. /\ pc[q] = "idle" /\ mailed \subseteq mailed' /\ mailed' \subseteq users
      /\ \E to \in {"done", "failed"} : pc' = [pc EXCEPT ![q] = to]
  BY DEF FindOne, Find, TypeOK
<1>1. TypeOK'
  BY <1>0 DEF TypeOK, PCs, Creating
<1>2. MakerInv' /\ OneAccountPerEmail'
  BY <1>0 DEF MakerInv, OneAccountPerEmail, TypeOK, PCs, Creating
<1>3. CodeInv' /\ PasswordNeedsCode'
  BY <1>0 DEF CodeInv, PasswordNeedsCode, TypeOK
<1>4. SignedIn' = SignedIn /\ LastInv' /\ RefreshIsLatest' /\ RefusedForAReason'
  BY <1>0, SessionsStay DEF TypeOK, Ended
<1>5. TokenInv'
  BY <1>0, <1>4 DEF TokenInv, TypeOK, Ended
<1> QED
  BY <1>1, <1>2, <1>3, <1>4, <1>5

LEMMA VerifyFindIInv == ASSUME IInv, NEW q \in Requests, VerifyFind(q) PROVE IInv'
<1> USE DEF IInv, VerifyFind, GoTo, documents, history
<1>0. /\ pc[q] = "idle"
      /\ \/ \E u \in mailed : pc' = [pc EXCEPT ![q] = "verifying"] /\ found' = [found EXCEPT ![q] = u]
         \/ pc' = [pc EXCEPT ![q] = "failed"] /\ UNCHANGED found
  BY DEF Valid
<1>1. TypeOK'
  BY <1>0 DEF TypeOK, PCs, Creating
<1>2. MakerInv' /\ OneAccountPerEmail'
  BY <1>0 DEF MakerInv, OneAccountPerEmail, TypeOK, PCs, Creating
<1>3. CodeInv' /\ PasswordNeedsCode'
  BY <1>0 DEF CodeInv, PasswordNeedsCode, TypeOK
<1>4. SignedIn' = SignedIn /\ LastInv' /\ RefreshIsLatest' /\ RefusedForAReason'
  BY <1>0, SessionsStay DEF TypeOK, Ended
<1>5. TokenInv'
  BY <1>0, <1>4 DEF TokenInv, TypeOK, Ended
<1> QED
  BY <1>1, <1>2, <1>3, <1>4, <1>5

LEMMA VerifyWriteIInv == ASSUME IInv, NEW q \in Requests, VerifyWrite(q) PROVE IInv'
<1> USE DEF IInv, VerifyWrite, GoTo, history
<1>0. found[q] \in mailed /\ found[q] \in users
  BY DEF CodeInv, TypeOK
<1>1. TypeOK'
  BY <1>0 DEF TypeOK, PCs, Creating
<1>2. MakerInv' /\ OneAccountPerEmail'
  BY DEF MakerInv, OneAccountPerEmail, TypeOK, PCs, Creating
<1>3. CodeInv' /\ PasswordNeedsCode'
  BY <1>0 DEF CodeInv, PasswordNeedsCode, TypeOK
<1>4. SignedIn' = SignedIn /\ LastInv' /\ RefreshIsLatest' /\ RefusedForAReason'
  BY SessionsStay DEF TypeOK, Ended
<1>5. TokenInv'
  BY <1>4 DEF TokenInv, TypeOK, Ended
<1> QED
  BY <1>1, <1>2, <1>3, <1>4, <1>5

LEMMA ValidateIInv == ASSUME IInv, NEW q \in Requests, Validate(q) PROVE IInv'
<1> USE DEF IInv, Validate, GoTo, documents
<1>0. /\ pc[q] = "idle"
      /\ \/ \E u \in active \cap personal :
               /\ pc' = [pc EXCEPT ![q] = "signing"] /\ found' = [found EXCEPT ![q] = u]
               /\ passwords' = passwords \cup {q}
         \/ pc' = [pc EXCEPT ![q] = "failed"] /\ UNCHANGED <<found, passwords>>
  BY DEF MaySignIn
<1>1. TypeOK'
  BY <1>0 DEF TypeOK, PCs, Creating
<1>2. MakerInv' /\ OneAccountPerEmail'
  BY <1>0 DEF MakerInv, OneAccountPerEmail, TypeOK, PCs, Creating
<1>3. CodeInv' /\ PasswordNeedsCode'
  BY <1>0 DEF CodeInv, PasswordNeedsCode, TypeOK
<1>4. SignedIn' = SignedIn /\ LastInv' /\ RefreshIsLatest' /\ RefusedForAReason'
  BY <1>0, SessionsStay DEF TypeOK, Ended
<1>5. TokenInv'
  BY <1>0, <1>4 DEF TokenInv, TypeOK, Ended
<1> QED
  BY <1>1, <1>2, <1>3, <1>4, <1>5

LEMMA GoogleFindIInv == ASSUME IInv, NEW q \in Requests, GoogleFind(q) PROVE IInv'
<1> USE DEF IInv, GoogleFind, GoTo, documents
<1> DEFINE Found(e, u) ==
        IF u # None
        THEN /\ pc[q] = "idle" /\ pc' = [pc EXCEPT ![q] = "signing"]
             /\ found' = [found EXCEPT ![q] = u] /\ UNCHANGED <<want, overlapped>>
        ELSE /\ pc[q] = "idle" /\ pc' = [pc EXCEPT ![q] = "registering"]
             /\ want' = [want EXCEPT ![q] = e] /\ Overlap(e) /\ UNCHANGED found
<1>1. PICK e \in Emails : \E u \in FindOne(e) : Found(e, u)
  OBVIOUS
<1>2. PICK u \in FindOne(e) : Found(e, u)
  BY <1>1
<1>3. u \in users \/ (u = None /\ Find(e) = {})
  BY DEF FindOne, Find
<1>4. None \notin users
  BY DEF TypeOK
<1>5. \/ /\ u \in users /\ pc' = [pc EXCEPT ![q] = "signing"]
         /\ found' = [found EXCEPT ![q] = u] /\ UNCHANGED <<want, overlapped>>
      \/ /\ Find(e) = {} /\ UNCHANGED found
         /\ pc' = [pc EXCEPT ![q] = "registering"] /\ want' = [want EXCEPT ![q] = e]
         /\ overlapped' = IF MakerOf(e) = {} THEN overlapped ELSE overlapped \cup {e}
  BY <1>2, <1>3, <1>4 DEF Overlap
<1>6. pc[q] = "idle" /\ overlapped \subseteq overlapped'
  BY <1>2, <1>5
<1>7. TypeOK'
  BY <1>5 DEF TypeOK, PCs, Creating
<1>8. OneAccountPerEmail'
  BY <1>6 DEF OneAccountPerEmail
<1>9. MakerInv'
  <2>1. CASE pc' = [pc EXCEPT ![q] = "signing"] /\ UNCHANGED <<want, overlapped>>
    BY <2>1, <1>6 DEF MakerInv, TypeOK, PCs, Creating
  <2>2. CASE /\ Find(e) = {} /\ pc' = [pc EXCEPT ![q] = "registering"]
             /\ want' = [want EXCEPT ![q] = e]
             /\ overlapped' = IF MakerOf(e) = {} THEN overlapped ELSE overlapped \cup {e}
    <3>1. \A v \in users : email[v] # e
      BY <2>2 DEF Find
    <3>2. \A p \in Requests : p # q /\ pc[p] \in Creating /\ want[p] = e => e \in overlapped'
      BY <2>2 DEF MakerOf
    <3>3. q \notin users
      BY <1>6 DEF MakerInv, Creating
    <3> QED
      BY <2>2, <3>1, <3>2, <3>3, <1>6 DEF MakerInv, TypeOK, Creating, PCs
  <2> QED
    BY <1>5, <2>1, <2>2
<1>60. CodeInv' /\ PasswordNeedsCode'
  BY <1>5, <1>6 DEF CodeInv, PasswordNeedsCode, TypeOK
<1>61. SignedIn' = SignedIn /\ LastInv' /\ RefreshIsLatest' /\ RefusedForAReason'
  BY <1>5, <1>6, SessionsStay DEF TypeOK, Ended
<1>62. TokenInv'
  BY <1>5, <1>6, <1>61 DEF TokenInv, TypeOK, Ended
<1> QED
  BY <1>7, <1>8, <1>9, <1>60, <1>61, <1>62

LEMMA GoogleCreateIInv == ASSUME IInv, NEW q \in Requests, GoogleCreate(q) PROVE IInv'
<1> USE DEF IInv, GoogleCreate, GoTo, Make, history
<1>0. q \notin users /\ q \in Accounts
  BY DEF MakerInv, Creating, Accounts
<1>1. TypeOK'
  BY <1>0 DEF TypeOK, PCs, Creating
<1>2. \A u \in users : email'[u] = email[u]
  BY <1>0 DEF TypeOK
<1>3. email'[q] = want[q] /\ users' = users \cup {q}
  BY <1>0 DEF TypeOK
<1>4. MakerInv'
  BY <1>0, <1>2, <1>3 DEF MakerInv, TypeOK, PCs, Creating
<1>5. OneAccountPerEmail'
  <2>1. \A v \in users : email[v] = want[q] => want[q] \in overlapped
    BY DEF MakerInv, Creating
  <2> QED
    BY <2>1, <1>2, <1>3 DEF OneAccountPerEmail
<1>6. CodeInv' /\ PasswordNeedsCode'
  <2>1. q \notin personal /\ q \notin passwords
    BY <1>0 DEF TypeOK, CodeInv
  <2> QED
    BY <2>1 DEF CodeInv, PasswordNeedsCode, TypeOK
<1>7. SignedIn' = SignedIn /\ LastInv' /\ RefreshIsLatest' /\ RefusedForAReason'
  BY <1>2, SessionsStay DEF TypeOK, Ended
<1>8. TokenInv'
  BY <1>7, <1>0 DEF TokenInv, TypeOK, Ended
<1> QED
  BY <1>1, <1>4, <1>5, <1>6, <1>7, <1>8

LEMMA SignIInv == ASSUME IInv, NEW q \in Requests, Sign(q) PROVE IInv'
<1> USE DEF IInv, Sign, GoTo, documents, history
<1>0. [of |-> found[q], at |-> now] \in Tokens /\ found[q] \in users
  BY DEF TokenInv, TypeOK, Tokens
<1>1. TypeOK'
  BY <1>0 DEF TypeOK, PCs, Creating
<1>2. MakerInv' /\ OneAccountPerEmail'
  BY DEF MakerInv, OneAccountPerEmail, TypeOK, PCs, Creating
<1>3. CodeInv' /\ PasswordNeedsCode'
  BY DEF CodeInv, PasswordNeedsCode, TypeOK
<1>4. SignedIn' = SignedIn /\ LastInv' /\ RefreshIsLatest' /\ RefusedForAReason'
  BY SessionsStay DEF TypeOK, Ended
<1>5. TokenInv'
  BY <1>0, <1>4 DEF TokenInv, TypeOK, Ended
<1> QED
  BY <1>1, <1>2, <1>3, <1>4, <1>5

(* The update of the token, and what a call whose update fails may leave:  *)
(* whoever had signed in before q has q as a later sign-in.                *)
LEMMA StoredIInv ==
    ASSUME IInv, NEW q \in Requests, NEW to \in {"signedIn", "failed"}, GoTo(q, "storing", to),
           \/ Store(q)
           \/ to = "failed" /\ UNCHANGED <<stored, before>>,
           faults' \in 0 .. MaxFaults,
           UNCHANGED <<users, email, active, personal, mailed, now, want, found, token, session,
                       overlapped, passwords>>
    PROVE  IInv'
<1> USE DEF IInv, GoTo
<1>0. /\ found[q] \in users /\ found[q] \in Accounts /\ token[q] \in Tokens
      /\ token[q].of = found[q] /\ before[q] = {} /\ q \notin SignedIn
  BY DEF TokenInv, TypeOK, Ended, SignedIn
<1>1. TypeOK'
  BY <1>0 DEF TypeOK, PCs, Creating, Store, Replace, SignedIn
<1>2. MakerInv' /\ OneAccountPerEmail'
  BY DEF MakerInv, OneAccountPerEmail, TypeOK, PCs, Creating
<1>3. CodeInv' /\ PasswordNeedsCode'
  BY DEF CodeInv, PasswordNeedsCode, TypeOK
<1>4. SignedIn' = IF to = "signedIn" THEN SignedIn \cup {q} ELSE SignedIn
  BY <1>0 DEF SignedIn, TypeOK
<1>5. /\ \A r \in Requests : r # q => before'[r] = before[r]
      /\ before'[q] \subseteq SignedIn
  BY <1>0 DEF Store, TypeOK
<1>6. \A s, r \in Requests : s \in before[r] => s \in before'[r]
  BY <1>0, <1>5
<1>7. TokenInv'
  <2>1. \A u \in Accounts : stored'[u] # None => stored'[u].of = u
    <3>1. CASE Store(q)
      BY <3>1, <1>0 DEF Store, Replace, TypeOK, TokenInv
    <3>2. CASE UNCHANGED <<stored, before>>
      BY <3>2 DEF TokenInv
    <3> QED
      BY <3>1, <3>2
  <2>2. \A p \in Requests : p # q => pc'[p] = pc[p]
    BY DEF TypeOK
  <2>3. pc'[q] = to
    BY DEF TypeOK
  <2>4. \A p \in Requests : before'[p] \subseteq SignedIn'
    BY <1>4, <1>5 DEF TokenInv
  <2>5. \A p \in Requests : pc'[p] \notin Ended => before'[p] = {}
    BY <2>2, <2>3, <1>5 DEF TokenInv, Ended
  <2>6. \A p \in Requests : pc'[p] \in {"asking", "refreshed", "refused"} => session'[p] \in SignedIn'
    BY <2>2, <2>3, <1>4 DEF TokenInv
  <2>7. \A p \in Requests :
          /\ pc'[p] \in {"signing", "storing", "signedIn"} => found'[p] \in users'
          /\ pc'[p] \in {"storing", "signedIn"} => token'[p] \in Tokens /\ token'[p].of = found'[p]
    BY <2>2, <2>3, <1>0 DEF TokenInv
  <2> QED
    BY <2>1, <2>4, <2>5, <2>6, <2>7 DEF TokenInv
<1>8. LastInv'
  <2>1. CASE Store(q)
    <3> SUFFICES ASSUME NEW s \in SignedIn'
                 PROVE  \/ stored'[found[s]] = token[s]
                        \/ \E r \in Requests : Later(s, r)' /\ token[r] = stored'[found[s]]
      BY DEF LastInv
    <3>1. stored' = [stored EXCEPT ![found[q]] = token[q]] /\ before'[q] = SignedIn
      BY <2>1 DEF Store, Replace, TypeOK
    <3>2. stored'[found[q]] = token[q]
      BY <3>1, <1>0 DEF TypeOK
    <3>3. CASE s = q
      BY <3>2, <3>3
    <3>4. CASE s \in SignedIn /\ found[s] = found[q]
      BY <3>1, <3>2, <3>4 DEF Later
    <3>5. CASE s \in SignedIn /\ found[s] # found[q]
      <4>1. stored'[found[s]] = stored[found[s]]
        BY <3>1, <3>5, <1>0 DEF TypeOK, SignedIn
      <4>2. \/ stored[found[s]] = token[s]
            \/ \E r \in Requests : Later(s, r) /\ token[r] = stored[found[s]]
        BY <3>5 DEF LastInv
      <4> QED
        BY <4>1, <4>2, <1>6, <3>5 DEF Later, SignedIn
    <3> QED
      BY <3>3, <3>4, <3>5, <1>4
  <2>2. CASE to = "failed" /\ UNCHANGED <<stored, before>>
    BY <2>2, <1>4 DEF LastInv, Later
  <2> QED
    BY <2>1, <2>2
<1>9. \A p \in Requests : pc'[p] \in {"refreshed", "refused"} =>
        pc[p] = pc'[p] /\ before'[p] = before[p] /\ before[p] \subseteq SignedIn /\ session[p] \in SignedIn
  BY <1>5 DEF TypeOK, TokenInv
<1>10. RefreshIsLatest'
  BY <1>6, <1>9 DEF RefreshIsLatest, SignedIn
<1>11. RefusedForAReason'
  BY <1>6, <1>9 DEF RefusedForAReason, SignedIn
<1> QED
  BY <1>1, <1>2, <1>3, <1>7, <1>8, <1>10, <1>11

LEMMA StoreTokenIInv == ASSUME IInv, NEW q \in Requests, StoreToken(q) PROVE IInv'
<1>1. faults' \in 0 .. MaxFaults
  BY DEF StoreToken, IInv, TypeOK
<1> QED
  BY <1>1, StoredIInv DEF StoreToken

LEMMA StoreFailsIInv == ASSUME IInv, NEW q \in Requests, StoreFails(q) PROVE IInv'
<1>1. faults' \in 0 .. MaxFaults
  BY DEF StoreFails, IInv, TypeOK
<1> QED
  BY <1>1, StoredIInv DEF StoreFails

LEMMA RefreshStartIInv == ASSUME IInv, NEW q \in Requests, RefreshStart(q) PROVE IInv'
<1> USE DEF IInv, RefreshStart, GoTo, documents
<1>0. /\ pc[q] = "idle" /\ before'[q] = SignedIn /\ session'[q] \in SignedIn
      /\ SignedIn \subseteq Requests
      /\ \A p \in Requests : p # q => before'[p] = before[p] /\ session'[p] = session[p]
  BY DEF TypeOK, SignedIn
<1>1. TypeOK'
  BY <1>0 DEF TypeOK, PCs, Creating
<1>2. MakerInv' /\ OneAccountPerEmail'
  BY DEF MakerInv, OneAccountPerEmail, TypeOK, PCs, Creating
<1>3. CodeInv' /\ PasswordNeedsCode'
  BY DEF CodeInv, PasswordNeedsCode, TypeOK
<1>4. SignedIn' = SignedIn /\ LastInv' /\ RefreshIsLatest' /\ RefusedForAReason'
  BY <1>0, SessionsStay DEF TypeOK, Ended
<1>5. TokenInv'
  BY <1>0, <1>4 DEF TokenInv, TypeOK, Ended
<1> QED
  BY <1>1, <1>2, <1>3, <1>4, <1>5

(* The token in the document of an account is a token of that account, so  *)
(* that a refresh is accepted only by the account of its session.          *)
LEMMA RefreshReadIInv == ASSUME IInv, NEW q \in Requests, RefreshRead(q) PROVE IInv'
<1> USE DEF IInv, RefreshRead, GoTo, documents, history
<1> DEFINE p == session[q]
<1>1. /\ p \in SignedIn /\ p \in Requests /\ found[p] \in users
      /\ token[p] \in Tokens /\ token[p].of = found[p] /\ before[q] \subseteq SignedIn
  BY DEF TokenInv, SignedIn
<1>2. PICK u \in FindOne(email[found[p]]) :
        pc' = [pc EXCEPT ![q] = IF Accepted(u, token[p]) THEN "refreshed" ELSE "refused"]
  OBVIOUS
<1>3. u \in users /\ email[u] = email[found[p]] /\ u \in Accounts /\ u # None
  BY <1>1 DEF FindOne, Find, TypeOK
<1> HIDE DEF p
<1>4. /\ \A r \in Requests : r # q => pc'[r] = pc[r]
      /\ pc'[q] = IF Accepted(u, token[p]) THEN "refreshed" ELSE "refused"
  BY <1>2 DEF TypeOK
<1>5. SignedIn' = SignedIn
  BY <1>4 DEF SignedIn
<1>6. TypeOK'
  BY <1>2 DEF TypeOK, PCs, Creating
<1>7. MakerInv' /\ OneAccountPerEmail'
  BY <1>4 DEF MakerInv, OneAccountPerEmail, TypeOK, PCs, Creating
<1>8. CodeInv' /\ PasswordNeedsCode'
  BY <1>4 DEF CodeInv, PasswordNeedsCode, TypeOK
<1>9. TokenInv' /\ LastInv'
  BY <1>4, <1>5 DEF TokenInv, LastInv, Later, Ended
<1>10. RefreshIsLatest'
  <2>1. ASSUME Accepted(u, token[p]), NEW s \in before[q], found[s] = found[p]
        PROVE  \/ token[p] = token[s]
               \/ \E r \in Requests : s \in before[r] /\ found[r] = found[p] /\ token[r] = token[p]
    <3>1. stored[u] # None /\ stored[u] = token[p]
      BY <2>1, <1>1 DEF Accepted
    <3>2. u = found[p]
      BY <3>1, <1>1, <1>3 DEF TokenInv
    <3> QED
      BY <2>1, <3>1, <3>2, <1>1 DEF LastInv, Later
  <2> QED
    BY <2>1, <1>4 DEF RefreshIsLatest, p
<1>11. RefusedForAReason'
  <2>1. ASSUME ~Accepted(u, token[p])
        PROVE  \/ email[found[p]] \in overlapped
               \/ \E r \in Requests : p \in before[r] /\ found[r] = found[p] /\ token[r] # token[p]
    <3>1. stored[u] # token[p]
      BY <2>1, <1>3 DEF Accepted
    <3>2. u = found[p] \/ email[found[p]] \in overlapped
      BY <1>1, <1>3 DEF OneAccountPerEmail
    <3> QED
      BY <3>1, <3>2, <1>1 DEF LastInv, Later
  <2> QED
    BY <2>1, <1>4 DEF RefusedForAReason, p
<1> QED
  BY <1>6, <1>7, <1>8, <1>9, <1>10, <1>11

LEMMA StutterIInv == ASSUME IInv, UNCHANGED vars \/ Tick PROVE IInv'
<1> USE DEF IInv, vars, documents, calls, history, Tick
<1>1. TypeOK'
  BY DEF TypeOK
<1>2. MakerInv' /\ OneAccountPerEmail' /\ CodeInv' /\ PasswordNeedsCode'
  BY DEF MakerInv, OneAccountPerEmail, CodeInv, PasswordNeedsCode
<1>3. SignedIn' = SignedIn
  BY DEF SignedIn
<1>4. TokenInv' /\ LastInv'
  BY <1>3 DEF TokenInv, LastInv, Later
<1>5. RefreshIsLatest' /\ RefusedForAReason'
  BY DEF RefreshIsLatest, RefusedForAReason
<1> QED
  BY <1>1, <1>2, <1>4, <1>5

-----------------------------------------------------------------------------
LEMMA NextIInv == IInv /\ [Next]_vars => IInv'
<1> SUFFICES ASSUME IInv, [Next]_vars PROVE IInv'
  OBVIOUS
<1>1. ASSUME NEW q \in Requests, RegisterStep(q) PROVE IInv'
  BY <1>1, SignUpCheckIInv, SignUpCreateIInv, SendEmailIInv, VerifyFindIInv, VerifyWriteIInv
     DEF RegisterStep
<1>2. ASSUME NEW q \in Requests, SignInStep(q) PROVE IInv'
  BY <1>2, ValidateIInv, GoogleFindIInv, GoogleCreateIInv, SignIInv, StoreTokenIInv,
     StoreFailsIInv DEF SignInStep
<1>3. ASSUME NEW q \in Requests, RefreshStart(q) \/ RefreshRead(q) PROVE IInv'
  BY <1>3, RefreshStartIInv, RefreshReadIInv
<1> QED
  BY <1>1, <1>2, <1>3, StutterIInv DEF Next

(* The strengthened invariant holds in every behaviour of the service.      *)
THEOREM Invariance == Spec => []IInv
<1>1. Init => IInv
  BY InitIInv
<1>2. IInv /\ [Next]_vars => IInv'
  BY NextIInv
<1> QED
  BY <1>1, <1>2, PTL DEF Spec

(* Every document, token and request keeps its shape.                       *)
THEOREM TypeCorrect == Spec => []TypeOK
<1>1. IInv => TypeOK
  BY DEF IInv
<1> QED
  BY <1>1, Invariance, PTL

(* isEmailExist and create keep an address to one account unless two calls  *)
(* were between them at one time.                                           *)
THEOREM OneAccountPerAddress == Spec => []OneAccountPerEmail
<1>1. IInv => OneAccountPerEmail
  BY DEF IInv
<1> QED
  BY <1>1, Invariance, PTL

(* LocalStrategy lets nobody in whose address was not verified by a code    *)
(* mailed to that account.                                                  *)
THEOREM PasswordSignInNeedsCode == Spec => []PasswordNeedsCode
<1>1. IInv => PasswordNeedsCode
  BY DEF IInv
<1> QED
  BY <1>1, Invariance, PTL

(* processRefreshToken renews only a session whose token is of the last     *)
(* sign-in, as far as the request can tell.                                 *)
THEOREM RefreshShowsLatest == Spec => []RefreshIsLatest
<1>1. IInv => RefreshIsLatest
  BY DEF IInv
<1> QED
  BY <1>1, Invariance, PTL

(* processRefreshToken refuses a session only after a later sign-in, or     *)
(* where two accounts may share an address.                                 *)
THEOREM RefusalsHaveReason == Spec => []RefusedForAReason
<1>1. IInv => RefusedForAReason
  BY DEF IInv
<1> QED
  BY <1>1, Invariance, PTL
=============================================================================
