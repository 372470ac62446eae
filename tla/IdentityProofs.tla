----------------------------- MODULE IdentityProofs -----------------------------
(***************************************************************************)
(* Theorems about Identity, for any emails, clients, forms and bounds.     *)
(***************************************************************************)
EXTENDS Identity, SequenceTheorems, FiniteSetTheorems, TLAPS

(***************************************************************************)
(* The inductive invariant.  Every user has a project of their own, or was *)
(* cut short; a link opens a session only on its way out of "open".  A     *)
(* code is backed by a membership, and memberships are never withdrawn; a  *)
(* token repeats its code's grant.  Families are numbered in the order     *)
(* they are started, so that the next number is new, and an open code has  *)
(* no token yet.                                                           *)
(***************************************************************************)

(* A link signs in once, and not before it is used up. *)
LinksSignInOnce ==
  \A l \in DOMAIN links :
    links[l].sessions <= 1 /\ (links[l].status = "open" => links[l].sessions = 0)

(* A user owns a project unless the first sign-in was cut short. *)
UsersComplete ==
  \A u \in users : u \in interrupted \/ \E m \in memberships : m.user = u /\ m.role = "owner"

(* A project has an owner unless its creation was cut short. *)
ProjectsOwned ==
  \A p \in 1..projects \ orphans : \E m \in memberships : m.project = p /\ m.role = "owner"

(* The grant of a code or a token is one its user may give. *)
Backed(grant) ==
  \E m \in memberships : /\ m.user = grant.user /\ m.project = grant.project
                         /\ "write" \in grant.scopes => m.role = "owner"
AllBacked ==
  /\ \A c \in DOMAIN codes : Backed(codes[c])
  /\ \A i \in DOMAIN tokens : Backed(tokens[i])

(* Families are numbered from 1. *)
FamiliesNumbered == \A f \in Families : f \in 1..Cardinality(Families)

(* A token's code has been redeemed, and all tokens of a code are one family. *)
CodesSpent ==
  /\ \A i \in DOMAIN tokens :
       tokens[i].code \in DOMAIN codes /\ codes[tokens[i].code].status # "open"
  /\ \A i, j \in DOMAIN tokens :
       tokens[i].code = tokens[j].code => tokens[i].family = tokens[j].family

(* Two working tokens of a family are of different kinds. *)
OneOfAKind ==
  \A i, j \in DOMAIN tokens :
    i # j /\ tokens[i].family = tokens[j].family /\ tokens[i].live /\ tokens[j].live
      => tokens[i].kind # tokens[j].kind

SignInInv == LinksSignInOnce /\ UsersComplete /\ ProjectsOwned
FamilyInv == FamiliesNumbered /\ CodesSpent /\ OneOfAKind
IdentityInv == TypeOK /\ SignInInv /\ AllBacked /\ FamilyInv

-------------------------------------------------------------------------------
(* Frames.                                                                 *)

(* Sign-in leaves what is granted alone and only adds memberships. *)
LEMMA SignInFrame ==
  ASSUME IdentityInv, UNCHANGED oauth, memberships \subseteq memberships'
  PROVE  AllBacked' /\ FamilyInv'
<1>1. codes' = codes /\ tokens' = tokens
  BY DEF oauth
<1>2. AllBacked'
  BY <1>1 DEF AllBacked, Backed, IdentityInv
<1>3. FamilyInv'
  BY <1>1 DEF FamilyInv, FamiliesNumbered, Families, CodesSpent, OneOfAKind, IdentityInv
<1> QED
  BY <1>2, <1>3

(* OAuth leaves the sign-in tables alone. *)
LEMMA OAuthFrame ==
  ASSUME IdentityInv, UNCHANGED signIn, codes' \in Seq(OAuthCode), tokens' \in Seq(OAuthToken)
  PROVE  TypeOK' /\ SignInInv' /\ \A g : Backed(g) <=> Backed(g)'
<1>1. UNCHANGED <<links, users, projects, memberships, sessions, interrupted, orphans>>
  BY DEF signIn
<1>2. TypeOK'
  BY <1>1 DEF TypeOK, IdentityInv
<1>3. SignInInv'
  BY <1>1 DEF SignInInv, LinksSignInOnce, UsersComplete, ProjectsOwned, IdentityInv
<1>4. \A g : Backed(g) <=> Backed(g)'
  BY <1>1 DEF Backed
<1> QED
  BY <1>2, <1>3, <1>4

-------------------------------------------------------------------------------
(* Sign-in.                                                                *)

LEMMA RequestMagicLinkInv ==
  ASSUME IdentityInv, NEW email \in Emails, RequestMagicLink(email)
  PROVE  IdentityInv'
<1> DEFINE new == [email |-> email, status |-> "open", sessions |-> 0]
<1>1. /\ links' = Append(links, new) /\ UNCHANGED oauth
      /\ UNCHANGED <<users, projects, memberships, sessions, interrupted, orphans>>
  BY DEF RequestMagicLink
<1>2. links \in Seq(LoginToken) /\ new \in LoginToken /\ new.sessions = 0
  BY DEF IdentityInv, TypeOK, LoginToken, Status
<1> HIDE DEF new
<1>3. /\ links' \in Seq(LoginToken) /\ DOMAIN links \subseteq DOMAIN links'
      /\ \A l \in DOMAIN links' : (l \in DOMAIN links /\ links'[l] = links[l]) \/ links'[l] = new
  BY <1>1, <1>2
<1>4. TypeOK'
  BY <1>1, <1>3 DEF TypeOK, IdentityInv, oauth
<1>5. LinksSignInOnce'
  BY <1>2, <1>3 DEF LinksSignInOnce, SignInInv, IdentityInv
<1>6. UsersComplete' /\ ProjectsOwned'
  BY <1>1 DEF UsersComplete, ProjectsOwned, SignInInv, IdentityInv
<1>7. AllBacked' /\ FamilyInv'
  BY <1>1, SignInFrame
<1> QED
  BY <1>4, <1>5, <1>6, <1>7 DEF IdentityInv, SignInInv

LEMMA ExpireLinkInv ==
  ASSUME IdentityInv, NEW l \in DOMAIN links, ExpireLink(l)
  PROVE  IdentityInv'
<1>1. /\ links' = [links EXCEPT ![l].status = "expired"] /\ UNCHANGED oauth
      /\ UNCHANGED <<users, projects, memberships, sessions, interrupted, orphans>>
  BY DEF ExpireLink
<1>2. links \in Seq(LoginToken) /\ links[l] \in LoginToken
  BY DEF IdentityInv, TypeOK
<1>3. [links[l] EXCEPT !.status = "expired"] \in LoginToken
  BY <1>2 DEF LoginToken, Status
<1>4. /\ links' \in Seq(LoginToken) /\ DOMAIN links' = DOMAIN links
      /\ \A k \in DOMAIN links : k # l => links'[k] = links[k]
      /\ links'[l].sessions = links[l].sessions /\ links'[l].status = "expired"
  BY <1>1, <1>2, <1>3 DEF LoginToken
<1>5. TypeOK'
  BY <1>1, <1>4 DEF TypeOK, IdentityInv, oauth
<1>6. LinksSignInOnce'
  BY <1>4 DEF LinksSignInOnce, SignInInv, IdentityInv
<1>7. UsersComplete' /\ ProjectsOwned'
  BY <1>1 DEF UsersComplete, ProjectsOwned, SignInInv, IdentityInv
<1>8. AllBacked' /\ FamilyInv'
  BY <1>1, SignInFrame
<1> QED
  BY <1>5, <1>6, <1>7, <1>8 DEF IdentityInv, SignInInv

(* The first ran statements of the handler, and what each adds. *)
LEMMA RedeemMagicLinkInv ==
  ASSUME IdentityInv, NEW l \in DOMAIN links, NEW ran \in 1..6, RedeemMagicLink(l, ran)
  PROVE  IdentityInv'
<1> DEFINE email == links[l].email
           first == email \notin users
<1>1. /\ links[l].status = "open"
      /\ first \/ ran \in {1, 6}
      /\ links' = [links EXCEPT ![l] = [email |-> email, status |-> "used",
          sessions |-> IF ran = 6 THEN @.sessions + 1 ELSE @.sessions]]
      /\ users' = users \cup If(ran >= 2, {email})
      /\ projects' = IF first /\ ran >= 3 THEN projects + 1 ELSE projects
      /\ memberships' = memberships
           \cup If(first /\ ran >= 4, {Membership(email, projects', "owner")})
           \cup If(first /\ ran >= 5, {Membership(email, Sandbox, "viewer")})
      /\ sessions' = sessions \cup If(ran = 6, {[user |-> email, link |-> l]})
      /\ interrupted' = interrupted \cup If(first /\ ran \in 2..3, {email})
      /\ orphans' = orphans \cup If(first /\ ran = 3, {projects'})
      /\ UNCHANGED oauth
  BY DEF RedeemMagicLink
<1>2. /\ links \in Seq(LoginToken) /\ links[l] \in LoginToken /\ email \in Emails
      /\ links[l].sessions = 0
      /\ projects \in Nat /\ projects' \in Nat /\ projects <= projects'
  <2>1. links \in Seq(LoginToken) /\ links[l] \in LoginToken
    BY DEF IdentityInv, TypeOK
  <2>2. email \in Emails
    BY <2>1 DEF LoginToken
  <2>3. links[l].sessions = 0
    BY <1>1 DEF IdentityInv, SignInInv, LinksSignInOnce
  <2>4. projects \in Nat /\ projects' \in Nat /\ projects <= projects'
    BY <1>1 DEF IdentityInv, TypeOK
  <2> QED
    BY <2>1, <2>2, <2>3, <2>4
<1> DEFINE used == [email |-> email, status |-> "used",
                    sessions |-> IF ran = 6 THEN links[l].sessions + 1 ELSE links[l].sessions]
<1>3. used \in LoginToken /\ used.sessions <= 1 /\ used.status = "used"
  BY <1>2 DEF LoginToken, Status
<1>4. links' = [links EXCEPT ![l] = used]
  BY <1>1
<1>5. /\ links' \in Seq(LoginToken) /\ DOMAIN links' = DOMAIN links
      /\ \A k \in DOMAIN links : k # l => links'[k] = links[k]
      /\ links'[l] = used
  BY <1>2, <1>3, <1>4
<1> HIDE DEF used
<1>6. /\ memberships \subseteq memberships' /\ users \subseteq users'
      /\ sessions \subseteq sessions' /\ interrupted \subseteq interrupted'
      /\ orphans \subseteq orphans'
  BY <1>1
<1>7. TypeOK'
  <2>1. users' \subseteq Emails /\ interrupted' \subseteq Emails
    BY <1>1, <1>2 DEF IdentityInv, TypeOK, If
  <2>2. orphans' \subseteq 1..projects'
    BY <1>1, <1>2 DEF IdentityInv, TypeOK, If
  <2>3. memberships' \subseteq [user : users', project : 0..projects', role : Roles]
    <3>1. ASSUME first, ran >= 4
          PROVE  /\ Membership(email, projects', "owner") \in [user : users', project : 0..projects', role : Roles]
                 /\ Membership(email, Sandbox, "viewer") \in [user : users', project : 0..projects', role : Roles]
      BY <1>1, <1>2, <3>1 DEF Membership, Roles, Sandbox, If
    <3>2. memberships \subseteq [user : users', project : 0..projects', role : Roles]
      BY <1>2, <1>6 DEF IdentityInv, TypeOK
    <3> QED
      BY <1>1, <3>1, <3>2 DEF If
  <2>4. sessions' \subseteq [user : users', link : DOMAIN links']
    <3>1. sessions \subseteq [user : users', link : DOMAIN links']
      BY <1>5, <1>6 DEF IdentityInv, TypeOK
    <3>2. ran = 6 => email \in users'
      BY <1>1 DEF If
    <3> QED
      BY <1>1, <1>5, <3>1, <3>2 DEF If
  <2> QED
    BY <1>1, <1>2, <1>5, <2>1, <2>2, <2>3, <2>4 DEF IdentityInv, TypeOK, oauth
<1>8. LinksSignInOnce'
  BY <1>3, <1>5 DEF LinksSignInOnce, SignInInv, IdentityInv
<1>9. UsersComplete'
  <2> SUFFICES ASSUME NEW u \in users'
               PROVE  u \in interrupted' \/ \E m \in memberships' : m.user = u /\ m.role = "owner"
    BY DEF UsersComplete
  <2>1. CASE u \in users
    BY <1>6, <2>1 DEF UsersComplete, SignInInv, IdentityInv
  <2>2. CASE u \notin users
    <3>1. u = email /\ first /\ ran >= 2
      BY <1>1, <2>2 DEF If
    <3>2. CASE ran \in 2..3
      BY <1>1, <3>1, <3>2 DEF If
    <3>3. CASE ran >= 4
      <4>1. Membership(email, projects', "owner") \in memberships'
        BY <1>1, <3>1, <3>3 DEF If
      <4> QED
        BY <3>1, <4>1 DEF Membership
    <3> QED
      BY <3>1, <3>2, <3>3
  <2> QED
    BY <2>1, <2>2
<1>10. ProjectsOwned'
  <2> SUFFICES ASSUME NEW p \in 1..projects', p \notin orphans'
               PROVE  \E m \in memberships' : m.project = p /\ m.role = "owner"
    BY DEF ProjectsOwned
  <2>1. CASE p \in 1..projects
    BY <1>6, <2>1 DEF ProjectsOwned, SignInInv, IdentityInv
  <2>2. CASE p \notin 1..projects
    <3>1. p = projects' /\ first /\ ran >= 3
      BY <1>1, <1>2, <2>2
    <3>2. ran >= 4
      BY <1>1, <3>1 DEF If
    <3>3. Membership(email, projects', "owner") \in memberships'
      BY <1>1, <3>1, <3>2 DEF If
    <3> QED
      BY <3>1, <3>3 DEF Membership
  <2> QED
    BY <2>1, <2>2
<1>11. AllBacked' /\ FamilyInv'
  BY <1>1, <1>6, SignInFrame
<1> QED
  BY <1>7, <1>8, <1>9, <1>10, <1>11 DEF IdentityInv, SignInInv

LEMMA EndSessionInv ==
  ASSUME IdentityInv, NEW s \in sessions, EndSession(s)
  PROVE  IdentityInv'
<1>1. /\ sessions' = sessions \ {s} /\ UNCHANGED oauth
      /\ UNCHANGED <<links, users, projects, memberships, interrupted, orphans>>
  BY DEF EndSession
<1>2. TypeOK'
  BY <1>1 DEF TypeOK, IdentityInv, oauth
<1>3. SignInInv'
  BY <1>1 DEF SignInInv, LinksSignInOnce, UsersComplete, ProjectsOwned, IdentityInv
<1>4. AllBacked' /\ FamilyInv'
  BY <1>1, SignInFrame
<1> QED
  BY <1>2, <1>3, <1>4 DEF IdentityInv

LEMMA CreateProjectInv ==
  ASSUME IdentityInv, NEW s \in sessions, NEW ran \in 1..2, CreateProject(s, ran)
  PROVE  IdentityInv'
<1>1. /\ projects' = projects + 1
      /\ memberships' = memberships \cup If(ran = 2, {Membership(s.user, projects', "owner")})
      /\ orphans' = orphans \cup If(ran = 1, {projects'})
      /\ UNCHANGED <<links, users, sessions, interrupted, oauth>>
  BY DEF CreateProject
<1>2. projects \in Nat /\ s.user \in users
  BY DEF IdentityInv, TypeOK
<1>3. memberships \subseteq memberships' /\ orphans \subseteq orphans'
  BY <1>1
<1>4. TypeOK'
  <2>1. orphans' \subseteq 1..projects'
    BY <1>1, <1>2 DEF IdentityInv, TypeOK, If
  <2>2. memberships' \subseteq [user : users', project : 0..projects', role : Roles]
    <3>1. Membership(s.user, projects', "owner") \in [user : users', project : 0..projects', role : Roles]
      BY <1>1, <1>2 DEF Membership, Roles
    <3>2. memberships \subseteq [user : users', project : 0..projects', role : Roles]
      BY <1>1, <1>2 DEF IdentityInv, TypeOK
    <3> QED
      BY <1>1, <3>1, <3>2 DEF If
  <2> QED
    <3>1. /\ links \in Seq(LoginToken) /\ users \subseteq Emails /\ interrupted \subseteq Emails
          /\ sessions \subseteq [user : users, link : DOMAIN links]
          /\ codes \in Seq(OAuthCode) /\ tokens \in Seq(OAuthToken)
      BY DEF IdentityInv, TypeOK
    <3>2. projects' \in Nat
      BY <1>1, <1>2
    <3> QED
      BY <1>1, <2>1, <2>2, <3>1, <3>2 DEF TypeOK, oauth
<1>5. LinksSignInOnce' /\ UsersComplete'
  BY <1>1, <1>3 DEF LinksSignInOnce, UsersComplete, SignInInv, IdentityInv
<1>6. ProjectsOwned'
  <2> SUFFICES ASSUME NEW p \in 1..projects', p \notin orphans'
               PROVE  \E m \in memberships' : m.project = p /\ m.role = "owner"
    BY DEF ProjectsOwned
  <2>1. CASE p \in 1..projects
    BY <1>3, <2>1 DEF ProjectsOwned, SignInInv, IdentityInv
  <2>2. CASE p \notin 1..projects
    <3>1. p = projects' /\ ran = 2
      BY <1>1, <1>2, <2>2 DEF If
    <3>2. Membership(s.user, projects', "owner") \in memberships'
      BY <1>1, <3>1 DEF If
    <3> QED
      BY <3>1, <3>2 DEF Membership
  <2> QED
    BY <2>1, <2>2
<1>7. AllBacked' /\ FamilyInv'
  BY <1>1, <1>3, SignInFrame
<1> QED
  BY <1>4, <1>5, <1>6, <1>7 DEF IdentityInv, SignInInv
-------------------------------------------------------------------------------
(* Revoking and issuing.                                                   *)

(* What a revocation leaves of a row. *)
SameGrant(a, b) ==
  /\ a.kind = b.kind /\ a.client = b.client /\ a.user = b.user /\ a.project = b.project
  /\ a.scopes = b.scopes /\ a.family = b.family /\ a.code = b.code

LEMMA RevokeRows ==
  ASSUME NEW rows \in Seq(OAuthToken), NEW revoked
  PROVE  /\ Revoke(rows, revoked) \in Seq(OAuthToken)
         /\ Len(Revoke(rows, revoked)) = Len(rows)
         /\ DOMAIN Revoke(rows, revoked) = DOMAIN rows
         /\ \A i \in DOMAIN rows :
              /\ SameGrant(Revoke(rows, revoked)[i], rows[i])
              /\ Revoke(rows, revoked)[i].live <=> (rows[i].live /\ i \notin revoked)
<1> DEFINE after == Revoke(rows, revoked)
<1>1. \A i \in DOMAIN rows : rows[i] \in OAuthToken
  OBVIOUS
<1>2. \A t \in OAuthToken : /\ [t EXCEPT !.live = FALSE] \in OAuthToken
                            /\ SameGrant([t EXCEPT !.live = FALSE], t)
                            /\ [t EXCEPT !.live = FALSE].live = FALSE
  BY DEF OAuthToken, SameGrant
<1>3. \A i \in DOMAIN rows :
        after[i] = IF i \in revoked THEN [rows[i] EXCEPT !.live = FALSE] ELSE rows[i]
  BY DEF Revoke
<1>4. \A i \in DOMAIN rows : after[i] \in OAuthToken
  BY <1>1, <1>2, <1>3
<1>5. after \in Seq(OAuthToken) /\ Len(after) = Len(rows) /\ DOMAIN after = DOMAIN rows
  <2>1. ASSUME NEW i \in 1..Len(rows)
        PROVE  (IF i \in revoked THEN [rows[i] EXCEPT !.live = FALSE] ELSE rows[i]) \in OAuthToken
    <3>1. rows[i] \in OAuthToken
      OBVIOUS
    <3>2. [rows[i] EXCEPT !.live = FALSE] \in OAuthToken
      BY <1>2, <3>1
    <3> QED
      BY <3>1, <3>2
  <2>2. after = [i \in 1..Len(rows) |->
                   IF i \in revoked THEN [rows[i] EXCEPT !.live = FALSE] ELSE rows[i]]
    BY DEF Revoke
  <2> HIDE DEF after
  <2> QED
    BY <2>1, <2>2
<1>6. \A t : SameGrant(t, t)
  BY DEF SameGrant
<1>7. \A i \in DOMAIN rows : SameGrant(after[i], rows[i])
  BY <1>1, <1>2, <1>3, <1>6
<1>8. \A i \in DOMAIN rows : after[i].live <=> (rows[i].live /\ i \notin revoked)
  BY <1>1, <1>2, <1>3
<1> HIDE DEF after
<1> QED
  BY <1>5, <1>7, <1>8 DEF after

(* An issued row repeats the grant, in the family it is issued to. *)
IssuedFrom(t, grant, code, family) ==
  /\ t.client = grant.client /\ t.user = grant.user /\ t.project = grant.project
  /\ t.scopes = grant.scopes /\ t.family = family /\ t.code = code

(* What may be granted: the fields a code and a token share. *)
IsGrant(g) == g.client \in Clients /\ g.user \in Emails /\ g.project \in Nat /\ g.scopes \in Grant

(* The rows with up to two more, one of each kind, from one grant. *)
Issued(after, rows, grant, code, family, count) ==
  /\ after \in Seq(OAuthToken)
  /\ DOMAIN rows \subseteq DOMAIN after
  /\ count = 0 => after = rows
  /\ \A i \in DOMAIN rows : after[i] = rows[i]
  /\ \A i \in DOMAIN after \ DOMAIN rows : IssuedFrom(after[i], grant, code, family)
  /\ \A i, j \in DOMAIN after \ DOMAIN rows : i # j => after[i].kind # after[j].kind
  /\ count > 0 => DOMAIN after \ DOMAIN rows # {}

LEMMA IssueRows ==
  ASSUME NEW rows \in Seq(OAuthToken), NEW grant, IsGrant(grant),
         NEW code \in Nat, NEW family \in Nat, NEW count \in 0..2,
         NEW after, after = Issue(rows, grant, code, family, count)
  PROVE  Issued(after, rows, grant, code, family, count)
<1> DEFINE access == Token("access", grant, code, family)
           refresh == Token("refresh", grant, code, family)
           new == SubSeq(<<access, refresh>>, 1, count)
<1>1. /\ access \in OAuthToken /\ IssuedFrom(access, grant, code, family) /\ access.kind = "access"
      /\ refresh \in OAuthToken /\ IssuedFrom(refresh, grant, code, family) /\ refresh.kind = "refresh"
  BY DEF Token, OAuthToken, IsGrant, IssuedFrom
<1> HIDE DEF access, refresh
<1>2. /\ new \in Seq(OAuthToken) /\ Len(new) = count
      /\ \A i \in 1..count : new[i] = IF i = 1 THEN access ELSE refresh
  <2>1. <<access, refresh>> \in Seq(OAuthToken) /\ Len(<<access, refresh>>) = 2
    BY <1>1
  <2>2. \A i \in 1..2 : <<access, refresh>>[i] = IF i = 1 THEN access ELSE refresh
    OBVIOUS
  <2>3. CASE count = 0
    BY <2>1, <2>3
  <2>4. CASE count \in 1..2
    BY <2>1, <2>2, <2>4
  <2> QED
    BY <2>3, <2>4
<1>3. after = rows \o new
  BY DEF Issue, access, refresh
<1> HIDE DEF new
<1>4. /\ after \in Seq(OAuthToken) /\ Len(after) = Len(rows) + count
      /\ DOMAIN rows = 1..Len(rows) /\ DOMAIN after = 1..Len(rows) + count /\ Len(rows) \in Nat
      /\ \A i \in 1..Len(rows) : after[i] = rows[i]
      /\ \A i \in 1..count : after[Len(rows) + i] = new[i]
  BY <1>2, <1>3
<1>5. ASSUME NEW i \in DOMAIN after \ DOMAIN rows
      PROVE  /\ i - Len(rows) \in 1..count
             /\ after[i] = IF i = Len(rows) + 1 THEN access ELSE refresh
  <2>1. i - Len(rows) \in 1..count /\ Len(rows) + (i - Len(rows)) = i
    BY <1>4
  <2> QED
    BY <1>2, <1>4, <2>1
<1>6. \A i \in DOMAIN after \ DOMAIN rows : IssuedFrom(after[i], grant, code, family)
  BY <1>1, <1>5
<1>7. ASSUME NEW i \in DOMAIN after \ DOMAIN rows, NEW j \in DOMAIN after \ DOMAIN rows, i # j
      PROVE  after[i].kind # after[j].kind
  <2>0. /\ i \in Nat /\ Len(rows) + 1 <= i /\ i <= Len(rows) + 2
        /\ j \in Nat /\ Len(rows) + 1 <= j /\ j <= Len(rows) + 2
    BY <1>4
  <2>1. (i = Len(rows) + 1 /\ j # Len(rows) + 1) \/ (i # Len(rows) + 1 /\ j = Len(rows) + 1)
    BY <1>4, <1>7, <2>0
  <2>2. /\ after[i] = IF i = Len(rows) + 1 THEN access ELSE refresh
        /\ after[j] = IF j = Len(rows) + 1 THEN access ELSE refresh
    BY <1>5
  <2>3. access.kind # refresh.kind
    BY <1>1
  <2> QED
    BY ONLY <2>1, <2>2, <2>3
<1>8. count = 0 => after = rows
  <2>1. count = 0 => Len(after) = Len(rows) /\ \A i \in 1..Len(rows) : after[i] = rows[i]
    BY <1>4
  <2> QED
    BY <1>4, <2>1, SeqEqual
<1>9. count > 0 => Len(rows) + 1 \in DOMAIN after \ DOMAIN rows
  BY <1>4
<1> QED
  BY <1>4, <1>6, <1>7, <1>8, <1>9 DEF Issued

-------------------------------------------------------------------------------
(* OAuth.                                                                  *)

LEMMA AuthorizeInv ==
  ASSUME IdentityInv, NEW s \in sessions, NEW client \in Clients, NEW m \in memberships,
         NEW requested, Authorize(s, client, m, requested)
  PROVE  IdentityInv'
<1> DEFINE new == [client |-> client, user |-> s.user, project |-> m.project,
                   scopes |-> Grantable(m.role, requested), status |-> "open"]
<1>1. /\ codes' = Append(codes, new) /\ tokens' = tokens /\ UNCHANGED signIn
      /\ m.user = s.user /\ Grantable(m.role, requested) # {}
  BY DEF Authorize
<1>2. s.user \in Emails /\ m.project \in Nat /\ m.role \in Roles /\ codes \in Seq(OAuthCode)
  BY DEF IdentityInv, TypeOK
<1>3. /\ Grantable(m.role, requested) \in Grant
      /\ "write" \in Grantable(m.role, requested) => m.role = "owner"
  <2>1. Grantable(m.role, requested) \subseteq Scopes
    BY DEF Grantable
  <2>2. "write" \in Grantable(m.role, requested) => m.role # "viewer"
    BY DEF Grantable
  <2>3. Grantable(m.role, requested) \in Grant
    <3> DEFINE granted == Grantable(m.role, requested)
    <3>1. granted # {} /\ granted \in SUBSET Scopes
      BY <1>1, <2>1
    <3> HIDE DEF granted
    <3>2. granted \in (SUBSET Scopes) \ {{}}
      BY <3>1
    <3> QED
      BY <3>2 DEF Grant, granted
  <2> QED
    BY <1>2, <2>2, <2>3 DEF Roles
<1>4. new \in OAuthCode /\ Backed(new)
  <2>1. new \in OAuthCode
    BY <1>2, <1>3 DEF OAuthCode, Status
  <2> QED
    BY <1>1, <1>3, <2>1 DEF Backed
<1> HIDE DEF new
<1>5. /\ codes' \in Seq(OAuthCode) /\ DOMAIN codes \subseteq DOMAIN codes'
      /\ \A c \in DOMAIN codes : codes'[c] = codes[c]
      /\ \A c \in DOMAIN codes' : c \in DOMAIN codes \/ codes'[c] = new
  BY <1>1, <1>2, <1>4
<1>6. TypeOK' /\ SignInInv' /\ \A g : Backed(g) <=> Backed(g)'
  BY <1>1, <1>5, OAuthFrame DEF IdentityInv, TypeOK
<1>7. AllBacked'
  BY <1>1, <1>4, <1>5, <1>6 DEF AllBacked, IdentityInv
<1>8. FamilyInv'
  BY <1>1, <1>5 DEF FamilyInv, FamiliesNumbered, Families, CodesSpent, OneOfAKind, IdentityInv
<1> QED
  BY <1>6, <1>7, <1>8 DEF IdentityInv

LEMMA ExpireCodeInv ==
  ASSUME IdentityInv, NEW c \in DOMAIN codes, ExpireCode(c)
  PROVE  IdentityInv'
<1>1. /\ codes' = [codes EXCEPT ![c].status = "expired"] /\ tokens' = tokens /\ UNCHANGED signIn
      /\ codes \in Seq(OAuthCode) /\ codes[c] \in OAuthCode
  BY DEF ExpireCode, IdentityInv, TypeOK
<1>2. [codes[c] EXCEPT !.status = "expired"] \in OAuthCode
  BY <1>1 DEF OAuthCode, Status
<1>3. /\ codes' \in Seq(OAuthCode) /\ DOMAIN codes' = DOMAIN codes
      /\ \A k \in DOMAIN codes : k # c => codes'[k] = codes[k]
      /\ codes'[c] = [codes[c] EXCEPT !.status = "expired"]
  BY <1>1, <1>2
<1>4. /\ codes'[c].status = "expired" /\ codes'[c].user = codes[c].user
      /\ codes'[c].project = codes[c].project /\ codes'[c].scopes = codes[c].scopes
  BY <1>1, <1>3 DEF OAuthCode
<1>5. TypeOK' /\ SignInInv' /\ \A g : Backed(g) <=> Backed(g)'
  BY <1>1, <1>3, OAuthFrame DEF IdentityInv, TypeOK
<1>6. AllBacked'
  <2>1. Backed(codes[c]) => Backed(codes'[c])
    BY <1>4 DEF Backed
  <2> QED
    BY <1>1, <1>3, <1>5, <2>1 DEF AllBacked, IdentityInv
<1>7. CodesSpent'
  BY <1>1, <1>3, <1>4 DEF CodesSpent, FamilyInv, IdentityInv
<1>8. FamiliesNumbered' /\ OneOfAKind'
  BY <1>1 DEF FamiliesNumbered, Families, OneOfAKind, FamilyInv, IdentityInv
<1> QED
  BY <1>5, <1>6, <1>7, <1>8 DEF IdentityInv, FamilyInv

(* A step that only revokes. *)
LEMMA RevokeInv ==
  ASSUME IdentityInv, NEW revoked, tokens' = Revoke(tokens, revoked), UNCHANGED <<signIn, codes>>
  PROVE  IdentityInv'
<1>1. tokens \in Seq(OAuthToken) /\ codes \in Seq(OAuthCode)
  BY DEF IdentityInv, TypeOK
<1>2. /\ tokens' \in Seq(OAuthToken) /\ DOMAIN tokens' = DOMAIN tokens
      /\ \A i \in DOMAIN tokens : /\ SameGrant(tokens'[i], tokens[i])
                                  /\ tokens'[i].live => tokens[i].live
  BY <1>1, RevokeRows
<1>3. TypeOK' /\ SignInInv' /\ \A g : Backed(g) <=> Backed(g)'
  BY <1>1, <1>2, OAuthFrame
<1>4. AllBacked'
  <2>1. \A a, b : SameGrant(a, b) /\ Backed(b) => Backed(a)
    BY DEF SameGrant, Backed
  <2> QED
    BY <1>2, <1>3, <2>1 DEF AllBacked, IdentityInv
<1>5. Families' = Families
  BY <1>2 DEF Families, SameGrant
<1>6. FamilyInv'
  BY <1>2, <1>5 DEF FamilyInv, FamiliesNumbered, CodesSpent, OneOfAKind, SameGrant, IdentityInv
<1> QED
  BY <1>3, <1>4, <1>6 DEF IdentityInv

LEMMA ReplayCodeInv ==
  ASSUME IdentityInv, NEW c \in DOMAIN codes, ReplayCode(c)
  PROVE  IdentityInv'
BY RevokeInv DEF ReplayCode

LEMMA ReuseOrRevokeInv ==
  ASSUME IdentityInv, NEW i \in DOMAIN tokens, ReuseOrRevoke(i)
  PROVE  IdentityInv'
BY RevokeInv DEF ReuseOrRevoke, RevokeFamily

(* Expiry takes one token out of service. *)
LEMMA ExpireTokenEffect ==
  ASSUME IdentityInv, NEW i \in DOMAIN tokens, ExpireToken(i)
  PROVE  tokens' = Revoke(tokens, {i})
<1>1. tokens \in Seq(OAuthToken) /\ tokens' = [tokens EXCEPT ![i].live = FALSE]
  BY DEF IdentityInv, TypeOK, ExpireToken
<1>2. /\ DOMAIN tokens' = DOMAIN tokens
      /\ \A k \in DOMAIN tokens :
           tokens'[k] = IF k \in {i} THEN [tokens[k] EXCEPT !.live = FALSE] ELSE tokens[k]
  BY <1>1
<1>3. tokens' = [k \in DOMAIN tokens |-> tokens'[k]]
  BY <1>1
<1> QED
  BY <1>2, <1>3 DEF Revoke

LEMMA ExpireTokenInv ==
  ASSUME IdentityInv, NEW i \in DOMAIN tokens, ExpireToken(i)
  PROVE  IdentityInv'
BY RevokeInv, ExpireTokenEffect DEF ExpireToken

(* The number of a new family is new, and families stay numbered. *)
LEMMA NewFamilyIsNew ==
  ASSUME IdentityInv
  PROVE  /\ IsFiniteSet(Families) /\ NewFamily \in Nat /\ NewFamily \notin Families
         /\ \A f \in Families \cup {NewFamily} : f \in 1..Cardinality(Families \cup {NewFamily})
<1>1. tokens \in Seq(OAuthToken) /\ \A f \in Families : f \in 1..Cardinality(Families)
  BY DEF IdentityInv, TypeOK, FamilyInv, FamiliesNumbered
<1>2. IsFiniteSet(DOMAIN tokens)
  BY <1>1, FS_Interval
<1>3. IsFiniteSet(Families)
  <2> DEFINE number == [i \in DOMAIN tokens |-> tokens[i].family]
  <2>1. number \in Surjection(DOMAIN tokens, Families)
    BY DEF Surjection, Families
  <2> QED
    BY <1>2, <2>1, FS_Surjection
<1>4. Cardinality(Families) \in Nat
  BY <1>3, FS_CardinalityType
<1>5. NewFamily \notin Families
  BY <1>1, <1>4 DEF NewFamily
<1>6. Cardinality(Families \cup {NewFamily}) = Cardinality(Families) + 1
  BY <1>3, <1>5, FS_AddElement
<1>7. \A f \in Families \cup {NewFamily} : f \in 1..Cardinality(Families) + 1
  BY <1>1, <1>4 DEF NewFamily
<1> QED
  BY <1>3, <1>4, <1>5, <1>6, <1>7 DEF NewFamily
LEMMA RedeemCodeInv ==
  ASSUME IdentityInv, NEW c \in DOMAIN codes, NEW ran \in 1..3, RedeemCode(c, ran)
  PROVE  IdentityInv'
<1> DEFINE family == NewFamily
<1>1. /\ codes[c].status = "open" /\ UNCHANGED signIn
      /\ codes' = [codes EXCEPT ![c].status = "used"]
      /\ tokens' = Issue(tokens, codes[c], c, family, ran - 1)
      /\ codes \in Seq(OAuthCode) /\ codes[c] \in OAuthCode /\ tokens \in Seq(OAuthToken)
      /\ c \in Nat /\ ran - 1 \in 0..2
  BY DEF RedeemCode, IdentityInv, TypeOK
<1>2. family \in Nat /\ family \notin Families
      /\ \A f \in Families \cup {family} : f \in 1..Cardinality(Families \cup {family})
  BY NewFamilyIsNew
<1> HIDE DEF family
<1>3. IsGrant(codes[c])
  BY <1>1 DEF IsGrant, OAuthCode
<1>4. /\ tokens' \in Seq(OAuthToken)
      /\ DOMAIN tokens \subseteq DOMAIN tokens'
      /\ ran - 1 = 0 => tokens' = tokens
      /\ \A i \in DOMAIN tokens : tokens'[i] = tokens[i]
      /\ \A i \in DOMAIN tokens' \ DOMAIN tokens : IssuedFrom(tokens'[i], codes[c], c, family)
      /\ \A i, j \in DOMAIN tokens' \ DOMAIN tokens : i # j => tokens'[i].kind # tokens'[j].kind
      /\ ran - 1 > 0 => DOMAIN tokens' \ DOMAIN tokens # {}
  <2>1. Issued(tokens', tokens, codes[c], c, family, ran - 1)
    BY <1>1, <1>2, <1>3, IssueRows, Zenon
  <2> QED
    BY <2>1 DEF Issued
<1>5. [codes[c] EXCEPT !.status = "used"] \in OAuthCode
  BY <1>1 DEF OAuthCode, Status
<1>6. /\ codes' \in Seq(OAuthCode) /\ DOMAIN codes' = DOMAIN codes
      /\ \A k \in DOMAIN codes : k # c => codes'[k] = codes[k]
      /\ codes'[c] = [codes[c] EXCEPT !.status = "used"]
  BY <1>1, <1>5
<1>7. /\ codes'[c].status = "used" /\ codes'[c].user = codes[c].user
      /\ codes'[c].project = codes[c].project /\ codes'[c].scopes = codes[c].scopes
  BY <1>1, <1>6 DEF OAuthCode
<1>8. TypeOK' /\ SignInInv' /\ \A g : Backed(g) <=> Backed(g)'
  BY <1>1, <1>4, <1>6, OAuthFrame
<1>9. AllBacked'
  <2>1. Backed(codes[c])
    BY DEF AllBacked, IdentityInv
  <2>2. Backed(codes'[c])
    BY <1>7, <2>1 DEF Backed
  <2>3. \A t : IssuedFrom(t, codes[c], c, family) => Backed(t)
    BY <2>1 DEF IssuedFrom, Backed
  <2>4. \A k \in DOMAIN codes' : Backed(codes'[k])
    BY <1>6, <2>2 DEF AllBacked, IdentityInv
  <2>5. \A i \in DOMAIN tokens' : Backed(tokens'[i])
    BY <1>4, <2>3 DEF AllBacked, IdentityInv
  <2> QED
    BY <1>8, <2>4, <2>5 DEF AllBacked
<1>10. \A i \in DOMAIN tokens : tokens[i].family \in Families /\ tokens[i].code # c
                                /\ tokens[i].code \in DOMAIN codes
  BY <1>1 DEF Families, CodesSpent, FamilyInv, IdentityInv
<1>11. \A i \in DOMAIN tokens' :
         \/ i \in DOMAIN tokens /\ tokens'[i] = tokens[i]
         \/ i \notin DOMAIN tokens /\ tokens'[i].family = family /\ tokens'[i].code = c
  BY <1>4 DEF IssuedFrom
<1>12. FamiliesNumbered'
  <2>1. CASE ran - 1 = 0
    <3>1. Families' = Families
      BY <1>4, <2>1 DEF Families
    <3> QED
      BY <3>1 DEF FamiliesNumbered, FamilyInv, IdentityInv
  <2>2. CASE ran - 1 > 0
    <3>1. Families' = Families \cup {family}
      BY <1>4, <1>11, <2>2 DEF Families
    <3> QED
      BY <1>2, <3>1 DEF FamiliesNumbered
  <2> QED
    BY <1>1, <2>1, <2>2
<1>13. CodesSpent'
  <2>1. ASSUME NEW i \in DOMAIN tokens'
        PROVE  tokens'[i].code \in DOMAIN codes' /\ codes'[tokens'[i].code].status # "open"
    <3>1. CASE i \in DOMAIN tokens /\ tokens'[i] = tokens[i]
      BY <1>6, <1>10, <3>1 DEF CodesSpent, FamilyInv, IdentityInv
    <3>2. CASE tokens'[i].code = c
      BY <1>6, <1>7, <3>2
    <3> QED
      BY <1>11, <3>1, <3>2
  <2>2. \A i, j \in DOMAIN tokens' :
          tokens'[i].code = tokens'[j].code => tokens'[i].family = tokens'[j].family
    BY <1>10, <1>11 DEF CodesSpent, FamilyInv, IdentityInv
  <2> QED
    BY <2>1, <2>2 DEF CodesSpent
<1>14. OneOfAKind'
  <2> SUFFICES ASSUME NEW i \in DOMAIN tokens', NEW j \in DOMAIN tokens', i # j,
                      tokens'[i].family = tokens'[j].family, tokens'[i].live, tokens'[j].live
               PROVE  tokens'[i].kind # tokens'[j].kind
    BY DEF OneOfAKind
  <2>1. CASE i \in DOMAIN tokens /\ j \in DOMAIN tokens
    BY <1>4, <2>1 DEF OneOfAKind, FamilyInv, IdentityInv
  <2>2. CASE i \notin DOMAIN tokens /\ j \notin DOMAIN tokens
    BY <1>4, <2>2
  <2> QED
    BY <1>2, <1>10, <1>11, <2>1, <2>2
<1> QED
  BY <1>8, <1>9, <1>12, <1>13, <1>14 DEF IdentityInv, FamilyInv

(* A rotation: the family of token i is revoked, and what it is issued     *)
(* repeats the grant of token i.                                           *)
LEMMA RefreshEffect ==
  ASSUME IdentityInv, NEW i \in DOMAIN tokens, NEW ran \in 1..3, Refresh(i, ran)
  PROVE  /\ tokens' \in Seq(OAuthToken)
         /\ DOMAIN tokens \subseteq DOMAIN tokens'
         /\ \A k \in DOMAIN tokens :
              /\ SameGrant(tokens'[k], tokens[k])
              /\ tokens'[k].live <=> (tokens[k].live /\ tokens[k].family # tokens[i].family)
         /\ \A k \in DOMAIN tokens' \ DOMAIN tokens :
              IssuedFrom(tokens'[k], tokens[i], tokens[i].code, tokens[i].family)
         /\ \A j, k \in DOMAIN tokens' \ DOMAIN tokens : j # k => tokens'[j].kind # tokens'[k].kind
<1> DEFINE family == tokens[i].family
           revoked == {k \in DOMAIN tokens : tokens[k].family = family}
           rows == Revoke(tokens, revoked)
<1>1. /\ tokens \in Seq(OAuthToken) /\ tokens[i] \in OAuthToken
      /\ family \in Nat /\ tokens[i].code \in Nat /\ ran - 1 \in 0..2
  <2>1. tokens \in Seq(OAuthToken) /\ tokens[i] \in OAuthToken
    BY DEF IdentityInv, TypeOK
  <2> QED
    BY <2>1 DEF OAuthToken
<1>2. IsGrant(tokens[i])
  BY <1>1 DEF IsGrant, OAuthToken
<1>3. /\ rows \in Seq(OAuthToken) /\ DOMAIN rows = DOMAIN tokens
      /\ \A k \in DOMAIN tokens :
           /\ SameGrant(rows[k], tokens[k])
           /\ rows[k].live <=> (tokens[k].live /\ k \notin revoked)
  BY <1>1, RevokeRows
<1>4. tokens' = Issue(rows, tokens[i], tokens[i].code, family, ran - 1)
  BY DEF Refresh, RevokeFamily
<1>5. \A k \in DOMAIN tokens : k \notin revoked <=> tokens[k].family # family
  OBVIOUS
<1> HIDE DEF family, revoked, rows
<1>6. /\ tokens' \in Seq(OAuthToken)
      /\ DOMAIN rows \subseteq DOMAIN tokens'
      /\ \A k \in DOMAIN rows : tokens'[k] = rows[k]
      /\ \A k \in DOMAIN tokens' \ DOMAIN rows :
           IssuedFrom(tokens'[k], tokens[i], tokens[i].code, family)
      /\ \A j, k \in DOMAIN tokens' \ DOMAIN rows : j # k => tokens'[j].kind # tokens'[k].kind
  <2>1. Issued(tokens', rows, tokens[i], tokens[i].code, family, ran - 1)
    BY <1>1, <1>2, <1>3, <1>4, IssueRows, Zenon
  <2> QED
    BY <2>1 DEF Issued
<1> QED
  BY <1>3, <1>5, <1>6 DEF family

LEMMA RefreshInv ==
  ASSUME IdentityInv, NEW i \in DOMAIN tokens, NEW ran \in 1..3, Refresh(i, ran)
  PROVE  IdentityInv'
<1>1. /\ tokens' \in Seq(OAuthToken)
      /\ DOMAIN tokens \subseteq DOMAIN tokens'
      /\ \A k \in DOMAIN tokens :
           /\ SameGrant(tokens'[k], tokens[k])
           /\ tokens'[k].live <=> (tokens[k].live /\ tokens[k].family # tokens[i].family)
      /\ \A k \in DOMAIN tokens' \ DOMAIN tokens :
           IssuedFrom(tokens'[k], tokens[i], tokens[i].code, tokens[i].family)
      /\ \A j, k \in DOMAIN tokens' \ DOMAIN tokens : j # k => tokens'[j].kind # tokens'[k].kind
  BY RefreshEffect
<1>2. UNCHANGED <<signIn, codes>> /\ codes \in Seq(OAuthCode)
  BY DEF Refresh, IdentityInv, TypeOK
<1>3. TypeOK' /\ SignInInv' /\ \A g : Backed(g) <=> Backed(g)'
  BY <1>1, <1>2, OAuthFrame
<1>4. AllBacked'
  <2>1. \A a, b : SameGrant(a, b) /\ Backed(b) => Backed(a)
    BY DEF SameGrant, Backed
  <2>2. \A t : IssuedFrom(t, tokens[i], tokens[i].code, tokens[i].family) => Backed(t)
    <3>1. Backed(tokens[i])
      BY DEF AllBacked, IdentityInv
    <3> QED
      BY <3>1 DEF IssuedFrom, Backed
  <2>3. \A k \in DOMAIN tokens' : Backed(tokens'[k])
    BY <1>1, <2>1, <2>2 DEF AllBacked, IdentityInv
  <2> QED
    BY <1>2, <1>3, <2>3 DEF AllBacked, IdentityInv
<1>5. \A k \in DOMAIN tokens' :
        \/ /\ k \in DOMAIN tokens /\ tokens'[k].family = tokens[k].family
           /\ tokens'[k].code = tokens[k].code /\ tokens'[k].kind = tokens[k].kind
           /\ tokens'[k].live => tokens[k].live /\ tokens[k].family # tokens[i].family
        \/ /\ k \notin DOMAIN tokens /\ tokens'[k].family = tokens[i].family
           /\ tokens'[k].code = tokens[i].code
  BY <1>1 DEF SameGrant, IssuedFrom
<1>6. Families' = Families
  BY <1>1, <1>5 DEF Families
<1>7. FamiliesNumbered'
  BY <1>6 DEF FamiliesNumbered, FamilyInv, IdentityInv
<1>8. CodesSpent'
  BY <1>2, <1>5 DEF CodesSpent, FamilyInv, IdentityInv
<1>9. OneOfAKind'
  <2> SUFFICES ASSUME NEW j \in DOMAIN tokens', NEW k \in DOMAIN tokens', j # k,
                      tokens'[j].family = tokens'[k].family, tokens'[j].live, tokens'[k].live
               PROVE  tokens'[j].kind # tokens'[k].kind
    BY DEF OneOfAKind
  <2>1. CASE j \in DOMAIN tokens /\ k \in DOMAIN tokens
    BY <1>5, <2>1 DEF OneOfAKind, FamilyInv, IdentityInv
  <2>2. CASE j \notin DOMAIN tokens /\ k \notin DOMAIN tokens
    BY <1>1, <2>2
  <2> QED
    BY <1>5, <2>1, <2>2
<1> QED
  BY <1>3, <1>4, <1>7, <1>8, <1>9 DEF IdentityInv, FamilyInv

-------------------------------------------------------------------------------
(* The theorems.                                                           *)

LEMMA InitInv == Init => IdentityInv
<1> SUFFICES ASSUME Init
             PROVE  IdentityInv
  OBVIOUS
<1>1. TypeOK
  BY DEF Init, TypeOK
<1>2. SignInInv /\ AllBacked
  BY DEF Init, SignInInv, LinksSignInOnce, UsersComplete, ProjectsOwned, AllBacked
<1>3. FamilyInv
  BY DEF Init, FamilyInv, FamiliesNumbered, Families, CodesSpent, OneOfAKind
<1> QED
  BY <1>1, <1>2, <1>3 DEF IdentityInv

LEMMA StepInv == IdentityInv /\ [Next]_vars => IdentityInv'
<1> SUFFICES ASSUME IdentityInv, [Next]_vars
             PROVE  IdentityInv'
  OBVIOUS
<1>1. CASE SignInNext
  BY <1>1, RequestMagicLinkInv, ExpireLinkInv, RedeemMagicLinkInv, EndSessionInv,
     CreateProjectInv DEF SignInNext
<1>2. CASE OAuthNext
  BY <1>2, AuthorizeInv, ExpireCodeInv, ReplayCodeInv, RedeemCodeInv, ExpireTokenInv,
     ReuseOrRevokeInv, RefreshInv DEF OAuthNext
<1>3. CASE UNCHANGED vars
  <2>1. UNCHANGED <<links, users, projects, memberships, sessions, interrupted, orphans>>
        /\ UNCHANGED <<signIn, oauth>>
    BY <1>3 DEF vars, signIn
  <2>2. TypeOK'
    BY <2>1 DEF TypeOK, IdentityInv, oauth
  <2>3. SignInInv'
    BY <2>1 DEF SignInInv, LinksSignInOnce, UsersComplete, ProjectsOwned, IdentityInv
  <2>4. AllBacked' /\ FamilyInv'
    BY <2>1, SignInFrame
  <2> QED
    BY <2>2, <2>3, <2>4 DEF IdentityInv
<1> QED
  BY <1>1, <1>2, <1>3 DEF Next

(* The inductive invariant holds of every behaviour. *)
THEOREM IdentityInvariant == Spec => []IdentityInv
BY InitInv, StepInv, PTL DEF Spec

(* Type correctness; what is granted are known scopes, at least one. *)
THEOREM TypeCorrect == Spec => []TypeOK
<1>1. IdentityInv => TypeOK
  BY DEF IdentityInv
<1> QED
  BY <1>1, IdentityInvariant, PTL

(* Whoever is signed in owns a project, every project has an owner and a   *)
(* link signs in once, but for what a crash between two statements of a    *)
(* handler cut short.                                                      *)
THEOREM SignInIsComplete == Spec => []SignInComplete
<1>1. IdentityInv => SignInComplete
  <2> SUFFICES ASSUME IdentityInv
               PROVE  SignInComplete
    OBVIOUS
  <2>1. \A s \in sessions : s.user \in users
    BY DEF IdentityInv, TypeOK
  <2> QED
    BY <2>1 DEF SignInComplete, IdentityInv, SignInInv, LinksSignInOnce, UsersComplete, ProjectsOwned
<1> QED
  BY <1>1, IdentityInvariant, PTL

(* A working token is backed by a membership that allows what it may do,   *)
(* though memberships are looked at only when the user consents.           *)
THEOREM GrantsAreBacked == Spec => []GrantsBacked
<1>1. IdentityInv => GrantsBacked
  BY DEF GrantsBacked, IdentityInv, AllBacked, Backed
<1> QED
  BY <1>1, IdentityInvariant, PTL

(* A code starts one family at most, and a family has at most one working  *)
(* token of each kind, whatever was repeated, replayed or cut short.       *)
THEOREM FamiliesDoRotate == Spec => []FamiliesRotate
<1>1. IdentityInv => FamiliesRotate
  BY DEF FamiliesRotate, IdentityInv, FamilyInv, CodesSpent, OneOfAKind, Live
<1> QED
  BY <1>1, IdentityInvariant, PTL

(* A family that has lost its working refresh token never has a working    *)
(* token more.                                                             *)
THEOREM DeadFamiliesStayDead == Spec => DeadFamilyStaysDead
<1> DEFINE Dead == \A f \in Families : Working(f, "refresh") = {} =>
                     /\ Working(f, "refresh")' = {}
                     /\ Working(f, "access")' \subseteq Working(f, "access")
<1>1. ASSUME IdentityInv, [Next]_vars
      PROVE  Dead
  <2>0. tokens \in Seq(OAuthToken) /\ codes \in Seq(OAuthCode)
    BY <1>1 DEF IdentityInv, TypeOK
  <2>1. ASSUME NEW F,
               \A f \in Families : Working(f, "refresh") = {} => f \notin F,
               DOMAIN tokens \subseteq DOMAIN tokens',
               \A k \in DOMAIN tokens : /\ SameGrant(tokens'[k], tokens[k])
                                        /\ tokens'[k].live => tokens[k].live,
               \A k \in DOMAIN tokens' \ DOMAIN tokens : tokens'[k].family \in F
        PROVE  Dead
    <3> SUFFICES ASSUME NEW f \in Families, Working(f, "refresh") = {}, NEW kind
                 PROVE  Working(f, kind)' \subseteq Working(f, kind)
      OBVIOUS
    <3> SUFFICES ASSUME NEW k \in DOMAIN tokens', tokens'[k].family = f,
                        tokens'[k].kind = kind, tokens'[k].live
                 PROVE  k \in Working(f, kind)
      BY DEF Working, Live
    <3>1. k \in DOMAIN tokens
      BY <2>1
    <3> QED
      BY <2>1, <3>1 DEF Working, Live, SameGrant
  <2>2. CASE tokens' = tokens
    BY <2>2 DEF Working, Families
  <2>3. ASSUME NEW revoked, tokens' = Revoke(tokens, revoked)
        PROVE  Dead
    <3>1. /\ DOMAIN tokens' = DOMAIN tokens
          /\ \A i \in DOMAIN tokens : /\ SameGrant(tokens'[i], tokens[i])
                                      /\ tokens'[i].live => tokens[i].live
      BY <2>0, <2>3, RevokeRows
    <3> QED
      BY <2>1, <3>1
  <2>4. ASSUME NEW c \in DOMAIN codes, NEW ran \in 1..3, RedeemCode(c, ran)
        PROVE  Dead
    <3>1. NewFamily \in Nat /\ NewFamily \notin Families
      BY <1>1, NewFamilyIsNew
    <3>2. /\ codes[c] \in OAuthCode /\ c \in Nat /\ ran - 1 \in 0..2
          /\ tokens' = Issue(tokens, codes[c], c, NewFamily, ran - 1)
      BY <2>0, <2>4 DEF RedeemCode
    <3>3. IsGrant(codes[c])
      BY <3>2 DEF IsGrant, OAuthCode
    <3>4. /\ DOMAIN tokens \subseteq DOMAIN tokens'
          /\ \A i \in DOMAIN tokens : tokens'[i] = tokens[i]
          /\ \A i \in DOMAIN tokens' \ DOMAIN tokens : tokens'[i].family \in {NewFamily}
      <4>1. Issued(tokens', tokens, codes[c], c, NewFamily, ran - 1)
        BY <2>0, <3>1, <3>2, <3>3, IssueRows, Zenon
      <4> QED
        BY <4>1 DEF Issued, IssuedFrom
    <3>5. \A i \in DOMAIN tokens : SameGrant(tokens'[i], tokens[i]) /\ (tokens'[i].live => tokens[i].live)
      BY <3>4 DEF SameGrant
    <3>6. \A f \in Families : f \notin {NewFamily}
      BY <3>1
    <3> QED
      BY <2>1, <3>4, <3>5, <3>6
  <2>5. ASSUME NEW i \in DOMAIN tokens, NEW ran \in 1..3, Refresh(i, ran)
        PROVE  Dead
    <3>1. i \in Working(tokens[i].family, "refresh")
      BY <2>5 DEF Refresh, Working, Live
    <3>2. /\ DOMAIN tokens \subseteq DOMAIN tokens'
          /\ \A k \in DOMAIN tokens : /\ SameGrant(tokens'[k], tokens[k])
                                      /\ tokens'[k].live => tokens[k].live
          /\ \A k \in DOMAIN tokens' \ DOMAIN tokens : tokens'[k].family \in {tokens[i].family}
      BY <1>1, <2>5, RefreshEffect DEF IssuedFrom
    <3> QED
      BY <2>1, <3>1, <3>2
  <2>6. CASE SignInNext
    BY <2>2, <2>6 DEF SignInNext, RequestMagicLink, ExpireLink, RedeemMagicLink, EndSession,
                      CreateProject, oauth
  <2>7. CASE OAuthNext
    <3>1. CASE \E s \in sessions, client \in Clients, m \in memberships, requested \in Requests :
                 Authorize(s, client, m, requested)
      BY <2>2, <3>1 DEF Authorize
    <3>2. ASSUME NEW c \in DOMAIN codes, ExpireCode(c)
          PROVE  Dead
      BY <2>2, <3>2 DEF ExpireCode
    <3>3. ASSUME NEW c \in DOMAIN codes, ReplayCode(c)
          PROVE  Dead
      BY <2>3, <3>3 DEF ReplayCode
    <3>4. ASSUME NEW i \in DOMAIN tokens, ExpireToken(i)
          PROVE  Dead
      BY <1>1, <2>3, <3>4, ExpireTokenEffect
    <3>5. ASSUME NEW i \in DOMAIN tokens, ReuseOrRevoke(i)
          PROVE  Dead
      BY <2>3, <3>5 DEF ReuseOrRevoke, RevokeFamily
    <3> QED
      BY <2>4, <2>5, <2>7, <3>1, <3>2, <3>3, <3>4, <3>5 DEF OAuthNext
  <2>8. CASE UNCHANGED vars
    BY <2>2, <2>8 DEF vars, oauth
  <2> QED
    BY <1>1, <2>6, <2>7, <2>8 DEF Next
<1>2. IdentityInv /\ [Next]_vars => [Dead]_vars
  BY <1>1
<1> QED
  BY <1>2, IdentityInvariant, PTL DEF Spec, DeadFamilyStaysDead

===============================================================================
