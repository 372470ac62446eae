--------------------------------- MODULE Identity ---------------------------------
(***************************************************************************)
(* Who may do what in the registry database: sign-in by magic link, users, *)
(* projects and memberships (packages/server/src/auth.ts, keys.ts,         *)
(* webRoutes.ts), and the OAuth server that hands clients access to a      *)
(* project (oauth.ts).                                                     *)
(*                                                                         *)
(* A handler runs without a pause, but its statements commit one by one: a *)
(* crash leaves the first of them.  An action takes the number of          *)
(* statements that ran ("ran"); the last value is the handler that         *)
(* returned.  Time is abstract: what can expire may do so at any moment.   *)
(* A client may present whatever it was ever given, so a lost answer is a  *)
(* request that is repeated.  A token that was revoked or has expired is   *)
(* not live; the two differ only in what presenting it does, and anyone    *)
(* who has a token may have its family revoked.                            *)
(***************************************************************************)
EXTENDS Integers, Sequences, FiniteSets

CONSTANTS
  Emails, Clients,
  Requests,     \* the sets of scopes a form may name
  MaxLinks,     \* bound: sign-in links sent
  MaxProjects,  \* bound: projects created
  MaxCodes,     \* bound: authorization codes granted
  MaxTokens     \* bound: OAuth tokens issued

ASSUME ConstantsAssumption ==
  MaxLinks \in Nat /\ MaxProjects \in Nat /\ MaxCodes \in Nat /\ MaxTokens \in Nat

Scopes == {"read", "write"}
Roles == {"owner", "viewer"}
Sandbox == 0   \* the sample project every new user can read

VARIABLES
  links,         \* login_token: sequence of [email, status, sessions]
  users,         \* emails with a row in user
  projects,      \* projects created; their ids are 1..projects
  memberships,   \* set of [user, project, role]
  sessions,      \* set of [user, link]
  interrupted,   \* history: users whose first sign-in was cut short
  orphans,       \* history: projects whose creation was cut short
  codes,         \* oauth_code
  tokens         \* oauth_token

signIn == <<links, users, projects, memberships, sessions, interrupted, orphans>>
oauth == <<codes, tokens>>
vars == <<signIn, oauth>>

Init ==
  /\ links = <<>> /\ users = {} /\ projects = 0 /\ memberships = {} /\ sessions = {}
  /\ interrupted = {} /\ orphans = {}
  /\ codes = <<>> /\ tokens = <<>>

Membership(user, project, role) == [user |-> user, project |-> project, role |-> role]
If(condition, set) == IF condition THEN set ELSE {}

-------------------------------------------------------------------------------
(* Sign-in.                                                                *)

RequestMagicLink(email) ==
  /\ Len(links) < MaxLinks
  /\ links' = Append(links, [email |-> email, status |-> "open", sessions |-> 0])
  /\ UNCHANGED <<users, projects, memberships, sessions, interrupted, orphans, oauth>>

(* Mutant: the link is marked used after the session is opened. *)
RedeemMagicLinkUsedLast(l, ran) ==
  LET email == links[l].email
      first == email \notin users
  IN /\ links[l].status = "open"
     /\ first => projects < MaxProjects
     /\ first \/ ran \in {1, 6}
     /\ links' = [links EXCEPT ![l].status = IF ran = 6 THEN "used" ELSE @,
                               ![l].sessions = IF ran >= 5 THEN @ + 1 ELSE @]
     /\ users' = users \cup {email}
     /\ projects' = IF first /\ ran >= 2 THEN projects + 1 ELSE projects
     /\ memberships' = memberships
          \cup If(first /\ ran >= 3, {Membership(email, projects', "owner")})
          \cup If(first /\ ran >= 4, {Membership(email, Sandbox, "viewer")})
     /\ sessions' = sessions \cup If(ran >= 5, {[user |-> email, link |-> l]})
     /\ interrupted' = interrupted \cup If(first /\ ran \in 1..2, {email})
     /\ orphans' = orphans \cup If(first /\ ran = 2, {projects'})
     /\ UNCHANGED oauth

(* The link is used; on the first sign-in come the user, a project, its    *)
(* owner and a look at the sandbox; then the session.                      *)
RedeemMagicLink(l, ran) ==
  LET email == links[l].email
      first == email \notin users
  IN /\ links[l].status = "open"
     /\ first => projects < MaxProjects
     /\ first \/ ran \in {1, 6}
     /\ links' = [links EXCEPT ![l] = [email |-> email, status |-> "used",
          sessions |-> IF ran = 6 THEN @.sessions + 1 ELSE @.sessions]]
     /\ users' = users \cup If(ran >= 2, {email})
     /\ projects' = IF first /\ ran >= 3 THEN projects + 1 ELSE projects
     /\ memberships' = memberships
          \cup If(first /\ ran >= 4, {Membership(email, projects', "owner")})
          \cup If(first /\ ran >= 5, {Membership(email, Sandbox, "viewer")})
     /\ sessions' = sessions \cup If(ran = 6, {[user |-> email, link |-> l]})
     /\ interrupted' = interrupted \cup If(first /\ ran \in 2..3, {email})
     /\ orphans' = orphans \cup If(first /\ ran = 3, {projects'})
     /\ UNCHANGED oauth

ExpireLink(l) ==
  /\ links[l].status = "open" /\ links' = [links EXCEPT ![l].status = "expired"]
  /\ UNCHANGED <<users, projects, memberships, sessions, interrupted, orphans, oauth>>

(* Logout deletes the session; an expired one resolves to nobody. *)
EndSession(s) ==
  /\ s \in sessions /\ sessions' = sessions \ {s}
  /\ UNCHANGED <<links, users, projects, memberships, interrupted, orphans, oauth>>

(* POST /api/app/projects: the project, then its owner. *)
CreateProject(s, ran) ==
  /\ s \in sessions /\ projects < MaxProjects
  /\ projects' = projects + 1
  /\ memberships' = memberships \cup If(ran = 2, {Membership(s.user, projects', "owner")})
  /\ orphans' = orphans \cup If(ran = 1, {projects'})
  /\ UNCHANGED <<links, users, sessions, interrupted, oauth>>

-------------------------------------------------------------------------------
(* OAuth.                                                                  *)

(* Mutant: whatever scopes the form names are granted. *)
GrantableUnfiltered(role, requested) ==
  {s \in requested : role # "viewer" \/ s = "read"}
(* Mutant: a viewer's client may write. *)
GrantableToViewers(role, requested) == requested \cap Scopes

Grantable(role, requested) ==
  {s \in requested \cap Scopes : role # "viewer" \/ s = "read"}

(* POST /oauth/authorize: the user allows a client a project it is a       *)
(* member of.                                                              *)
Authorize(s, client, m, requested) ==
  /\ s \in sessions /\ m \in memberships /\ m.user = s.user
  /\ Grantable(m.role, requested) # {}
  /\ Len(codes) < MaxCodes
  /\ codes' = Append(codes,
       [client |-> client, user |-> s.user, project |-> m.project,
        scopes |-> Grantable(m.role, requested), status |-> "open"])
  /\ UNCHANGED <<signIn, tokens>>

Token(kind, grant, code, family) ==
  [kind |-> kind, client |-> grant.client, user |-> grant.user, project |-> grant.project,
   scopes |-> grant.scopes, family |-> family, code |-> code, live |-> TRUE]

(* issueTokens, of whose two rows the first "count" are written. *)
Issue(rows, grant, code, family, count) ==
  rows \o SubSeq(<<Token("access", grant, code, family), Token("refresh", grant, code, family)>>, 1, count)

Revoke(rows, revoked) ==
  [i \in DOMAIN rows |-> IF i \in revoked THEN [rows[i] EXCEPT !.live = FALSE] ELSE rows[i]]

Families == {tokens[i].family : i \in DOMAIN tokens}
NewFamily == Cardinality(Families) + 1
RoomForTokens == Len(tokens) + 2 <= MaxTokens

(* Mutant: the code is marked used when its tokens have been issued. *)
RedeemCodeUsedLast(c, ran) ==
  /\ codes[c].status = "open" /\ RoomForTokens
  /\ codes' = [codes EXCEPT ![c].status = IF ran = 3 THEN "used" ELSE @]
  /\ tokens' = Issue(tokens, codes[c], c, NewFamily, IF ran = 3 THEN 2 ELSE ran)
  /\ UNCHANGED signIn

(* POST /oauth/token with a code: it is marked used, then the tokens of a  *)
(* new family are issued.                                                  *)
RedeemCode(c, ran) ==
  /\ codes[c].status = "open" /\ RoomForTokens
  /\ codes' = [codes EXCEPT ![c].status = "used"]
  /\ tokens' = Issue(tokens, codes[c], c, NewFamily, ran - 1)
  /\ UNCHANGED signIn

(* A used code is presented again: every token of that user, client and    *)
(* project is revoked.                                                     *)
ReplayCode(c) ==
  /\ codes[c].status = "used"
  /\ tokens' = Revoke(tokens, {i \in DOMAIN tokens : /\ tokens[i].user = codes[c].user
                                                     /\ tokens[i].client = codes[c].client
                                                     /\ tokens[i].project = codes[c].project})
  /\ UNCHANGED <<signIn, codes>>

RevokeFamily(rows, family) == Revoke(rows, {i \in DOMAIN rows : rows[i].family = family})

(* Mutant: a refresh token that was rotated away is as good as a new one. *)
RefreshRevoked(i, ran) ==
  /\ tokens[i].kind = "refresh" /\ RoomForTokens
  /\ tokens' = Issue(RevokeFamily(tokens, tokens[i].family), tokens[i], tokens[i].code,
                     tokens[i].family, ran - 1)
  /\ UNCHANGED <<signIn, codes>>

(* POST /oauth/token with a refresh token: its family is revoked, then it  *)
(* gets new tokens.                                                        *)
Refresh(i, ran) ==
  /\ tokens[i].kind = "refresh" /\ tokens[i].live /\ RoomForTokens
  /\ tokens' = Issue(RevokeFamily(tokens, tokens[i].family), tokens[i], tokens[i].code,
                     tokens[i].family, ran - 1)
  /\ UNCHANGED <<signIn, codes>>

(* A refresh token that was rotated away is presented, or /oauth/revoke    *)
(* gets a token of either kind: the family is revoked.                     *)
ReuseOrRevoke(i) ==
  /\ tokens' = RevokeFamily(tokens, tokens[i].family)
  /\ UNCHANGED <<signIn, codes>>

ExpireCode(c) ==
  /\ codes[c].status = "open" /\ codes' = [codes EXCEPT ![c].status = "expired"]
  /\ UNCHANGED <<signIn, tokens>>

ExpireToken(i) ==
  /\ tokens[i].live
  /\ tokens' = [tokens EXCEPT ![i].live = FALSE]
  /\ UNCHANGED <<signIn, codes>>

-------------------------------------------------------------------------------
SignInNext ==
  \/ \E email \in Emails : RequestMagicLink(email)
  \/ \E l \in DOMAIN links : ExpireLink(l) \/ \E ran \in 1..6 : RedeemMagicLink(l, ran)
  \/ \E s \in sessions : EndSession(s) \/ \E ran \in 1..2 : CreateProject(s, ran)

OAuthNext ==
  \/ \E s \in sessions, client \in Clients, m \in memberships,
       requested \in Requests : Authorize(s, client, m, requested)
  \/ \E c \in DOMAIN codes :
       ExpireCode(c) \/ ReplayCode(c) \/ \E ran \in 1..3 : RedeemCode(c, ran)
  \/ \E i \in DOMAIN tokens :
       ExpireToken(i) \/ ReuseOrRevoke(i) \/ \E ran \in 1..3 : Refresh(i, ran)

Next == SignInNext \/ OAuthNext

Spec == Init /\ [][Next]_vars

-------------------------------------------------------------------------------
(* Properties.                                                             *)

(* principalFromAccessToken takes the token. *)
Live(t) == t.live

Status == {"open", "used", "expired"}
LoginToken == [email : Emails, status : Status, sessions : Nat]
Grant == (SUBSET Scopes) \ {{}}
OAuthCode == [client : Clients, user : Emails, project : Nat, scopes : Grant, status : Status]
OAuthToken == [kind : {"access", "refresh"}, client : Clients, user : Emails, project : Nat,
               scopes : Grant, family : Nat, code : Nat, live : BOOLEAN]

(* The type of every variable; what a code or a token grants are scopes    *)
(* the server knows, and at least one.                                     *)
TypeOK ==
  /\ links \in Seq(LoginToken)
  /\ users \subseteq Emails /\ interrupted \subseteq Emails
  /\ projects \in Nat /\ orphans \subseteq 1..projects
  /\ memberships \subseteq [user : users, project : 0..projects, role : Roles]
  /\ sessions \subseteq [user : users, link : DOMAIN links]
  /\ codes \in Seq(OAuthCode)
  /\ tokens \in Seq(OAuthToken)

(* Who is signed in owns a project, and every project has an owner, but    *)
(* for what a crash in the middle of redeemMagicLink or of POST projects   *)
(* cut short; a link signs in once (auth.ts: "Consumes the token; creates  *)
(* the user (and a first project) on first login").                        *)
SignInComplete ==
  /\ \A s \in sessions : \/ s.user \in interrupted
                         \/ \E m \in memberships : m.user = s.user /\ m.role = "owner"
  /\ \A p \in 1..projects \ orphans : \E m \in memberships : m.project = p /\ m.role = "owner"
  /\ \A l \in DOMAIN links : links[l].sessions <= 1

(* A token that still works names a member of its project, and writes only *)
(* for one that may write: memberships are checked when the user consents  *)
(* and never again (oauth.ts authorize, principalFromAccessToken).         *)
GrantsBacked ==
  \A i \in DOMAIN tokens : Live(tokens[i]) =>
    \E m \in memberships :
      /\ m.user = tokens[i].user /\ m.project = tokens[i].project
      /\ "write" \in tokens[i].scopes => m.role = "owner"

(* A code starts one family of tokens, whatever crashed or was repeated,   *)
(* and a family has at most one working refresh token and one working      *)
(* access token (oauth.ts: rotation, one-time codes).                      *)
FamiliesRotate ==
  \A i, j \in DOMAIN tokens : i # j =>
    /\ tokens[i].code = tokens[j].code => tokens[i].family = tokens[j].family
    /\ tokens[i].family = tokens[j].family /\ Live(tokens[i]) /\ Live(tokens[j])
         => tokens[i].kind # tokens[j].kind

(* A family without a working refresh token never gets a working token     *)
(* again: reuse, replay, revocation and a crash in the middle of a         *)
(* rotation end it for good (oauth.ts, grant_type refresh_token).          *)
Working(f, kind) ==
  {i \in DOMAIN tokens : tokens[i].family = f /\ tokens[i].kind = kind /\ Live(tokens[i])}
DeadFamilyStaysDead ==
  [][\A f \in Families : Working(f, "refresh") = {} =>
       /\ Working(f, "refresh")' = {}
       /\ Working(f, "access")' \subseteq Working(f, "access")]_vars
=================================================================================
