------------------------------ MODULE Accounts ------------------------------
(***************************************************************************)
(* The accounts of one tenant in Django (django/apps/users): invitations   *)
(* and joining, roles and profiles, e-mail verification, login, the second *)
(* factor, refresh, logout, and the two ways to change a password.         *)
(*                                                                         *)
(* Almost every handler loads a row, works, and then calls save(), which   *)
(* writes every column of the row and inserts it again if it is gone.      *)
(* Nothing runs in a transaction except the two ways of joining and the    *)
(* confirmation of a device, and no row is locked.  So two requests that   *)
(* overlap on a row lose updates; what holds for requests that do not is   *)
(* stated below with `raced', the rows on which two of them overlapped.    *)
(*                                                                         *)
(* A password is a number, a token of a reset or of a verification the     *)
(* number of its row; people use their current password and the last       *)
(* refresh token they received.  Mail, audit rows, pictures, notifications *)
(* and the times of tokens and rows that nobody compares are left out.     *)
(***************************************************************************)
EXTENDS Integers, Sequences, FiniteSets, SequencesExt

CONSTANTS Owner,       \* the e-mail that registered the tenant
          Invitee,     \* e-mails that may be invited
          Invite,      \* identities of UserInvitation rows
          Session,     \* identities of UserSession rows
          Worker,      \* requests and tasks of Django that can run at the same time
          ProSeats, FreeSeats,   \* max_users of the two plans
          MaxFailures, \* failures until an address (logins) or a user (codes) is refused
          MaxOps,      \* bound: requests
          MaxCrashes   \* bound: requests that end half way

Email == {Owner} \cup Invitee
Role == {"owner", "admin", "engineer", "viewer"}

ASSUME AccountsAssumption ==
    /\ Owner \notin Invitee /\ IsFiniteSet(Invitee) /\ IsFiniteSet(Worker)
    /\ ProSeats \in Nat /\ FreeSeats \in Nat \ {0} /\ MaxFailures \in Nat \ {0}
    /\ MaxOps \in Nat /\ MaxCrashes \in Nat

VARIABLES
    user,        \* User rows
    team,        \* the users by created_at
    plan,        \* the tenant's plan_tier
    inv,         \* UserInvitation rows
    mail,        \* queued e-mail tasks
    session,     \* UserSession rows
    client,      \* what the browser of a session holds: user, role claim, refresh jti
    blocked,     \* Redis: session:blocklist:{sid}
    verification,\* the owner's EmailVerification row
    reset,       \* the owner's newest PasswordReset row
    device,      \* the owner's TOTPDevice row
    mfaToken,    \* the owner has an MFAVerificationToken
    attempts,    \* Redis: mfa_attempts:{email} of the owner
    failedLogins, failedLoginsTtl,   \* Redis: rl:login:ip:{ip}, and whether it has a TTL
    req,         \* the running requests and tasks
    ops, deaths,            \* counters of the bounds
    raced,       \* history: rows on which two requests overlapped, or one ended half way
    told,        \* history: what the answers so far make people expect of the rows
    ended        \* history: sessions whose end was answered

rows  == <<user, team, plan, inv, mail>>
login == <<session, client, blocked, mfaToken>>
proof == <<verification, reset, device>>
rate  == <<failedLogins, failedLoginsTtl, attempts>>
accountVars  == <<rows, login, proof, rate, req, ops, deaths, raced, told, ended>>

NoRow == [status |-> "none"]
UserRow == [status: {"member"}, role: Role, active: BOOLEAN, verified: BOOLEAN, password: Nat]
InvitationRow == [status: {"pending", "accepted", "expired", "cancelled"}, email: Invitee,
                  role: Role, by: Invitee \cup {"nobody"}, fresh: BOOLEAN]
SessionRow == [status: {"live", "revoked"}, user: Email, jti: Nat]
VerificationRow == [id: Nat, status: {"none", "pending", "verified"}]
ResetRow == [id: Nat, status: {"pending", "used"}]
DeviceRow == [id: Nat, status: {"none", "pending", "confirmed"}]

IdleReq == [pc |-> "idle", has |-> {}]

NewMember(role) ==
    [status |-> "member", role |-> role, active |-> TRUE, verified |-> TRUE, password |-> 1]

\* RegisterView: the owner's row, not verified yet, and the first verification token.
RegisteredOwner == [NewMember("owner") EXCEPT !.verified = FALSE]
FirstVerification == [id |-> 1, status |-> "pending"]

\* After the registration; the owner may have verified the address and signed in, and then
\* either an engineer has joined or the second factor is on.
AccountsInit ==
    \E verified \in BOOLEAN, joined \in SUBSET Invitee :
        /\ joined # {} => verified
        /\ LET first(S) == CHOOSE x \in S : TRUE
               used == IF joined = {} THEN {} ELSE {first(Invite)}
               open == IF verified THEN {first(Session)} ELSE {}
           IN  /\ Cardinality(joined) <= 1
               /\ user = [e \in Email |-> IF e = Owner
                                          THEN [RegisteredOwner EXCEPT !.verified = verified]
                                          ELSE IF e \in joined THEN NewMember("engineer")
                                          ELSE NoRow]
               /\ team = <<Owner>> \o SetToSeq(joined)
               /\ inv = [i \in Invite |-> IF i \in used
                                          THEN [email |-> first(joined), role |-> "engineer",
                                                by |-> first(joined), status |-> "accepted",
                                                fresh |-> TRUE]
                                          ELSE NoRow]
               /\ session = [s \in Session |-> IF s \in open
                                               THEN [status |-> "live", user |-> Owner, jti |-> 1]
                                               ELSE NoRow]
               /\ client = [s \in Session |-> IF s \in open
                                              THEN [status |-> "holds", user |-> Owner,
                                                    role |-> "owner", jti |-> 1]
                                              ELSE NoRow]
               /\ verification =
                     [FirstVerification EXCEPT !.status = IF verified THEN "verified" ELSE @]
               /\ device = IF verified /\ joined = {}
                           THEN [id |-> 1, status |-> "confirmed"]
                           ELSE [id |-> 0, status |-> "none"]
    /\ plan = "pro"
    /\ mail = {}
    /\ blocked = {}
    /\ reset = [id |-> 0, status |-> "used"]
    /\ mfaToken = FALSE /\ attempts = 0
    /\ failedLogins = 0 /\ failedLoginsTtl = FALSE
    /\ req = [w \in Worker |-> IdleReq]
    /\ ops = 0 /\ deaths = 0
    /\ raced = {}
    /\ told = [user |-> user,
               inv |-> [i \in Invite |-> IF inv[i] = NoRow THEN "none" ELSE inv[i].status],
               device |-> device.status]
    /\ ended = {}

-----------------------------------------------------------------------------
(* Requests *)

Idle(w) == req[w].pc = "idle"
Go(w, s) == req' = [req EXCEPT ![w] = s]
Done(w) == Go(w, IdleReq)

\* The identity of a verification or a device that is created now: above every one that a
\* running request has loaded.
NewId == ops + 2

\* Rows of S that a request other than w has loaded and may still write.
Contended(S, w) == {o \in S : \E v \in Worker \ {w} : o \in req[v].has}

\* A request begins with the rows s.has loaded.
Begin(w, s) ==
    /\ Idle(w)
    /\ Go(w, s)
    /\ raced' = raced \cup Contended(s.has, w)

Start(w, s) ==
    /\ ops < MaxOps
    /\ ops' = ops + 1
    /\ Begin(w, s)

Member(e) == user[e].status = "member"
Active == {e \in Email : Member(e) /\ user[e].active}

\* blocklist_session and is_session_revoked: a key of Redis that outlives the tokens.
Blocklist(s) == blocked' = blocked \cup {s}
Revoked(s) == s \in blocked

\* An access token is accepted until its session is on the blocklist; the row of the session
\* is not looked at.
TokenOf(s, e) == client[s] # NoRow /\ client[s].user = e /\ ~Revoked(s)
HoldsToken(e) == \E s \in Session : TokenOf(s, e)
AdminClaim(e) == \E s \in Session : TokenOf(s, e) /\ client[s].role \in {"admin", "owner"}

\* generate_tokens: the session and the tokens carry the role of the loaded user.
Unused == {s \in Session : client[s] = NoRow}
OpenSession(e, role) ==
    /\ Unused # {}
    /\ LET s == CHOOSE s \in Unused : TRUE
       IN  /\ session' = [session EXCEPT ![s] = [status |-> "live", user |-> e, jti |-> 1]]
           /\ client' = [client EXCEPT ![s] = [status |-> "holds", user |-> e, role |-> role,
                                               jti |-> 1]]

\* The worker process dies; its rows stay as the statements so far left them.
Crash(w) ==
    /\ ~Idle(w)
    /\ deaths < MaxCrashes
    /\ deaths' = deaths + 1
    /\ raced' = raced \cup req[w].has
    /\ Done(w)
    /\ UNCHANGED <<rows, login, proof, rate, ops, told, ended>>

-----------------------------------------------------------------------------
(* Invitations *)

Seats == IF plan = "pro" THEN ProSeats ELSE FreeSeats

\* unique_together (tenant, email, status): what a save or an update may not break.
Fits(i, e, s) ==
    \A j \in Invite \ {i} : inv[j] # NoRow => <<inv[j].email, inv[j].status>> # <<e, s>>
SaveInvite(i, row) == inv' = [inv EXCEPT ![i] = row]
Tell(i, s) == told' = [told EXCEPT !.inv[i] = s]

\* InviteEngineerSerializer: owners and admins are not invited.
Invitable == {"engineer", "viewer"}

\* send_invitation, first half: check_user_limit and the look-up of the e-mail.
CheckInvite(w, e, r) ==
    /\ \E a \in Email : AdminClaim(a)
    /\ Cardinality(Active) < Seats
    /\ ~Member(e)
    /\ Start(w, [pc |-> "invite", has |-> {}, email |-> e, role |-> r])
    /\ UNCHANGED <<rows, login, proof, rate, deaths, told, ended>>

Queue(task) == mail' = mail \cup {task} \/ mail' = mail

\* Second half: get_or_create by status "pending" (so the branch for an expired row cannot
\* be taken), then the e-mail task, unless the broker refuses it.
CreateInvite(w) ==
    /\ req[w].pc = "invite"
    /\ LET e == req[w].email
           pending == {i \in Invite : inv[i] # NoRow /\ inv[i].email = e
                                      /\ inv[i].status = "pending"}
           free == {i \in Invite : inv[i] = NoRow}
       IN  IF pending # {}
           THEN /\ \E i \in pending : Queue([id |-> i, kind |-> "invitation"])
                /\ UNCHANGED <<inv, told>>
           ELSE /\ free # {}
                /\ LET i == CHOOSE i \in free : TRUE
                   IN  /\ SaveInvite(i, [email |-> e, role |-> req[w].role, by |-> "nobody",
                                         status |-> "pending", fresh |-> TRUE])
                       /\ Queue([id |-> i, kind |-> "invitation"])
                       /\ Tell(i, "pending")
    /\ Done(w)
    /\ UNCHANGED <<user, team, plan, login, proof, rate, ops, deaths, raced, ended>>

\* send_invitation_email_task and the reminder: the row is loaded, the mail sent ...
BeginMail(w, m) ==
    /\ m \in mail
    /\ mail' = mail \ {m}
    /\ Begin(w, [pc |-> "mail", has |-> {m.id}, id |-> m.id, row |-> inv[m.id]])
    /\ UNCHANGED <<user, team, plan, inv, login, proof, rate, ops, deaths, told, ended>>

\* ... and mark_email_sent or increment_resend_count saves it.  (A mail that fails is not
\* sent again.)
EndMail(w) ==
    /\ req[w].pc = "mail"
    /\ \/ UNCHANGED inv
       \/ /\ Fits(req[w].id, req[w].row.email, req[w].row.status)
          /\ SaveInvite(req[w].id, req[w].row)
    /\ Done(w)
    /\ UNCHANGED <<user, team, plan, mail, login, proof, rate, ops, deaths, raced, told, ended>>

\* The serializer loads the invitation and asks is_valid.
LoadInvite(w, i, how) ==
    /\ inv[i] # NoRow
    /\ inv[i].status = "pending" /\ inv[i].fresh
    /\ Start(w, [pc |-> "join", has |-> {i}, id |-> i, row |-> inv[i], how |-> how])
    /\ UNCHANGED <<rows, login, proof, rate, deaths, told, ended>>

\* validate_invite_token of the two OAuth callbacks.
LoadOAuthInvite(w, i) == LoadInvite(w, i, "oauth")

NewUser(row) == NewMember(row.role)

\* The user is created and the invitation accepted, if the loaded row is pending.
Accepts(w) ==
    LET e == req[w].row.email
    IN  ~Member(e) /\ req[w].row.status = "pending" /\ Fits(req[w].id, e, "accepted")

Accept(w) ==
    LET i == req[w].id
        e == req[w].row.email
        row == [req[w].row EXCEPT !.status = "accepted", !.by = e]
    IN  /\ user' = [user EXCEPT ![e] = NewUser(row)]
        /\ team' = Append(team, e)
        /\ SaveInvite(i, row)
        /\ told' = [told EXCEPT !.inv[i] = "accepted", !.user[e] = NewUser(row)]

\* join_with_password: one transaction, the session in it.
Join(w) ==
    /\ req[w].pc = "join" /\ req[w].how = "password"
    /\ IF Accepts(w) THEN Accept(w) /\ OpenSession(req[w].row.email, req[w].row.role)
                     ELSE UNCHANGED <<user, team, inv, session, client, told>>
    /\ Done(w)
    /\ UNCHANGED <<plan, mail, blocked, mfaToken, proof, rate, ops, deaths, raced, ended>>

\* process_oauth_invitation: one transaction; the session follows.
OAuthJoin(w) ==
    /\ req[w].pc = "join" /\ req[w].how = "oauth"
    /\ IF Accepts(w)
       THEN /\ Accept(w)
            /\ Go(w, [pc |-> "finalise", has |-> {}, email |-> req[w].row.email,
                      row |-> NewUser(req[w].row)])
       ELSE Done(w) /\ UNCHANGED <<user, team, inv, told>>
    /\ UNCHANGED <<plan, mail, login, proof, rate, ops, deaths, raced, ended>>

LoadToCancel(w, i) ==
    /\ \E a \in Email : AdminClaim(a)
    /\ inv[i] # NoRow
    /\ inv[i].status = "pending"
    /\ Start(w, [pc |-> "cancel", has |-> {i}, id |-> i, row |-> inv[i]])
    /\ UNCHANGED <<rows, login, proof, rate, deaths, told, ended>>

\* A second cancelled row of one e-mail breaks the constraint: the request fails.
CancelInvite(w) ==
    /\ req[w].pc = "cancel"
    /\ IF Fits(req[w].id, req[w].row.email, "cancelled")
       THEN /\ SaveInvite(req[w].id, [req[w].row EXCEPT !.status = "cancelled"])
            /\ Tell(req[w].id, "cancelled")
       ELSE UNCHANGED <<inv, told>>
    /\ Done(w)
    /\ UNCHANGED <<user, team, plan, mail, login, proof, rate, ops, deaths, raced, ended>>

LoadToResend(w, i) ==
    /\ \E a \in Email : AdminClaim(a)
    /\ inv[i] # NoRow
    /\ inv[i].status = "pending"
    /\ Start(w, [pc |-> "resend", has |-> {i}, id |-> i, row |-> inv[i]])
    /\ UNCHANGED <<rows, login, proof, rate, deaths, told, ended>>

ResendInvite(w) ==
    /\ req[w].pc = "resend"
    /\ IF req[w].row.fresh THEN inv' = inv /\ Queue([id |-> req[w].id, kind |-> "reminder"])
       ELSE IF Fits(req[w].id, req[w].row.email, "pending")
       THEN /\ SaveInvite(req[w].id, [req[w].row EXCEPT !.fresh = TRUE])
            /\ Queue([id |-> req[w].id, kind |-> "reminder"])
       ELSE UNCHANGED <<inv, mail>>
    /\ Done(w)
    /\ UNCHANGED <<user, team, plan, login, proof, rate, ops, deaths, raced, told, ended>>

\* expires_at passes.
Lapse(i) ==
    /\ inv[i] # NoRow
    /\ inv[i].status = "pending" /\ inv[i].fresh
    /\ inv' = [inv EXCEPT ![i].fresh = FALSE]
    /\ UNCHANGED <<user, team, plan, mail, login, proof, rate, req, ops, deaths, raced, told,
                   ended>>

\* cleanup_expired_invitations_task: one UPDATE for all tenants, which fails as a whole when
\* a second row of one e-mail would become "expired".
CleanUp ==
    LET lapsed == {i \in Invite : inv[i] # NoRow /\ inv[i].status = "pending" /\ ~inv[i].fresh}
    IN  /\ lapsed # {}
        /\ \A i \in lapsed : Fits(i, inv[i].email, "expired")
        /\ inv' = [i \in Invite |-> IF i \in lapsed THEN [inv[i] EXCEPT !.status = "expired"]
                                    ELSE inv[i]]
        /\ raced' = raced \cup {i \in lapsed : \E w \in Worker : i \in req[w].has}
        /\ told' = [told EXCEPT !.inv = [i \in Invite |-> IF i \in lapsed THEN "expired"
                                                          ELSE @[i]]]
        /\ UNCHANGED <<user, team, plan, mail, login, proof, rate, req, ops, deaths, ended>>


-----------------------------------------------------------------------------
(* Members *)

\* UpdateTeamMemberRoleView: the claim admits, the rows decide.
RoleRead(w, e, r) ==
    /\ Member(e) /\ user[e].active
    /\ user[e].role # "owner"
    /\ \E a \in Email \ {e} : /\ AdminClaim(a)
                              /\ r = "owner" => user[a].role = "owner"
    /\ Start(w, [pc |-> "role", has |-> {e}, email |-> e, row |-> [user[e] EXCEPT !.role = r]])
    /\ UNCHANGED <<rows, login, proof, rate, deaths, told, ended>>

SaveRole(w) ==
    /\ req[w].pc = "role"
    /\ user' = [user EXCEPT ![req[w].email] = req[w].row]
    /\ told' = [told EXCEPT !.user[req[w].email].role = req[w].row.role]
    /\ Done(w)
    /\ UNCHANGED <<team, plan, inv, mail, login, proof, rate, ops, deaths, raced, ended>>

\* Mutant: request.user is made from the claims of the token.
ProfileReadClaims(w, e) ==
    /\ HoldsToken(e)
    /\ \E s \in Session :
          /\ TokenOf(s, e)
          /\ Start(w, [pc |-> "profile", has |-> {e}, email |-> e,
                       row |-> [user[e] EXCEPT !.role = client[s].role]])
    /\ UNCHANGED <<rows, login, proof, rate, deaths, told, ended>>

\* The picture of request.user, who was loaded when the token was checked.
ProfileRead(w, e) ==
    /\ HoldsToken(e)
    /\ Start(w, [pc |-> "profile", has |-> {e}, email |-> e, row |-> user[e]])
    /\ UNCHANGED <<rows, login, proof, rate, deaths, told, ended>>

SaveProfile(w) ==
    /\ req[w].pc = "profile"
    /\ user' = [user EXCEPT ![req[w].email] = req[w].row]
    /\ Done(w)
    /\ UNCHANGED <<team, plan, inv, mail, login, proof, rate, ops, deaths, raced, told, ended>>

\* A request that is one step.
Once(S) ==
    /\ ops < MaxOps
    /\ ops' = ops + 1
    /\ raced' = raced \cup {o \in S : \E w \in Worker : o \in req[w].has}
    /\ UNCHANGED <<req, deaths>>

Deactivate(S) ==
    /\ user' = [e \in Email |-> IF e \in S THEN [user[e] EXCEPT !.active = FALSE] ELSE user[e]]
    /\ told' = [told EXCEPT !.user = [e \in Email |-> IF e \in S THEN [@[e] EXCEPT !.active = FALSE]
                                                      ELSE @[e]]]
    /\ Once(S)

\* The active members created before and after e.
Before(first, last) ==
    \E m, n \in DOMAIN team : m < n /\ team[m] = first /\ team[n] = last
Older(e) == {a \in Active : Before(a, e)}
Newer(e) == {a \in Active : Before(e, a)}

\* Mutant: without order_by the model's own ordering applies, newest first.
DowngradeUnordered ==
    /\ plan = "pro"
    /\ plan' = "free"
    /\ Deactivate({e \in Active : Cardinality(Newer(e)) >= FreeSeats})
    /\ UNCHANGED <<team, inv, mail, login, proof, rate, ended>>

\* subscription.cancelled: the newest members beyond the free plan become inactive, by an
\* UPDATE of that column; whoever was invited before may still join.
Downgrade ==
    /\ plan = "pro"
    /\ plan' = "free"
    /\ Deactivate({e \in Active : Cardinality(Older(e)) >= FreeSeats})
    /\ UNCHANGED <<team, inv, mail, login, proof, rate, ended>>

\* subscription.activated; nothing makes the inactive members active again.
Upgrade ==
    /\ plan = "free"
    /\ plan' = "pro"
    /\ Once({})
    /\ UNCHANGED <<user, team, inv, mail, login, proof, rate, told, ended>>

-----------------------------------------------------------------------------
(* The e-mail address of the owner *)

VerifyRead(w) ==
    /\ verification.status = "pending"
    /\ Start(w, [pc |-> "verify", has |-> {}, token |-> verification.id])
    /\ UNCHANGED <<rows, login, proof, rate, deaths, told, ended>>

\* verify(): the token is saved (one that was deleted is inserted again, which the one-to-one
\* relation refuses beside its successor), then the user is loaded ...
VerifySave(w) ==
    /\ req[w].pc = "verify"
    /\ IF verification.id = req[w].token \/ verification.status = "none"
       THEN /\ verification' = [id |-> req[w].token, status |-> "verified"]
            /\ Go(w, [pc |-> "verified", has |-> {Owner}, row |-> user[Owner]])
            /\ raced' = raced \cup Contended({Owner}, w)
       ELSE Done(w) /\ UNCHANGED <<verification, raced>>
    /\ UNCHANGED <<rows, login, reset, device, rate, ops, deaths, told, ended>>

\* ... and saved, and signed in.
VerifyUser(w) ==
    /\ req[w].pc = "verified"
    /\ LET row == [req[w].row EXCEPT !.verified = TRUE]
       IN  /\ user' = [user EXCEPT ![Owner] = row]
           /\ told' = [told EXCEPT !.user[Owner].verified = TRUE]
           /\ OpenSession(Owner, row.role)
    /\ Done(w)
    /\ UNCHANGED <<team, plan, inv, mail, blocked, mfaToken, proof, rate, ops, deaths,
                   raced, ended>>

\* The verification of an unverified owner is deleted ...
DropVerification == verification' = [verification EXCEPT !.status = "none"]

ResendVerification(w) ==
    /\ ~user[Owner].verified
    /\ DropVerification
    /\ Start(w, [pc |-> "reissue", has |-> {}])
    /\ UNCHANGED <<rows, login, reset, device, rate, deaths, told, ended>>

\* ... and another is created, which the one-to-one relation refuses when there is one again:
\* the request fails.  A login then counts its failure.
RenewVerification(w) ==
    /\ req[w].pc \in {"reissue", "unverified"}
    /\ IF verification.status = "none"
       THEN /\ verification' = [id |-> NewId, status |-> "pending"]
            /\ Go(w, IF req[w].pc = "unverified" THEN [pc |-> "count", has |-> {}] ELSE IdleReq)
       ELSE Done(w) /\ UNCHANGED verification
    /\ UNCHANGED <<rows, login, reset, device, rate, ops, deaths, raced, told, ended>>

-----------------------------------------------------------------------------
(* Signing in *)

Finalise(w, e) == Go(w, [pc |-> "finalise", has |-> {}, email |-> e, row |-> user[e]])

\* is_login_blocked.
LoginBlocked == failedLogins >= MaxFailures

\* The request is admitted before the password is looked at ...
LoginAdmit(w) ==
    /\ ~LoginBlocked
    /\ Start(w, [pc |-> "login", has |-> {}])
    /\ UNCHANGED <<rows, login, proof, rate, deaths, told, ended>>

\* ... by LoginSerializer; then clear_login_failures.
LoginCheck(w, e) ==
    /\ req[w].pc = "login"
    /\ Member(e) /\ user[e].active /\ user[e].verified
    /\ user[e].password = told.user[e].password
    /\ failedLogins' = 0 /\ failedLoginsTtl' = FALSE
    /\ Finalise(w, e)
    /\ UNCHANGED <<rows, login, proof, attempts, ops, deaths, raced, told, ended>>

\* process_oauth_login verifies the address by an UPDATE of that column, and does not ask
\* whether the member is active.
LinkAccount(w, e) ==
    /\ Idle(w) /\ ops < MaxOps /\ ops' = ops + 1
    /\ user' = [user EXCEPT ![e].verified = TRUE]
    /\ told' = [told EXCEPT !.user[e].verified = TRUE]
    /\ raced' = raced \cup Contended({e}, w)
    /\ Finalise(w, e)
    /\ UNCHANGED <<team, plan, inv, mail, login, proof, rate, deaths, ended>>

OwnerOAuthLogin(w, e) == Member(e) /\ user[e].role = "owner" /\ LinkAccount(w, e)
EngineerOAuthLogin(w, e) == Member(e) /\ user[e].role # "owner" /\ LinkAccount(w, e)

\* Every sign-in creates an MFAVerificationToken of its own; the model has one or none.
IssueMfaToken == mfaToken' = TRUE

\* AuthService.login and _finalise_oauth_login: with a confirmed device a token for the second
\* factor, otherwise a session.
SignIn(w) ==
    /\ req[w].pc = "finalise"
    /\ IF req[w].email = Owner /\ device.status = "confirmed"
       THEN IssueMfaToken /\ UNCHANGED <<session, client>>
       ELSE OpenSession(req[w].email, req[w].row.role) /\ UNCHANGED mfaToken
    /\ Done(w)
    /\ UNCHANGED <<rows, blocked, proof, rate, ops, deaths, raced, told, ended>>

\* Mutant: the lifetime is set by the failure that closes the door, and not by the first.
FailLoginLate(w) ==
    /\ req[w].pc \in {"login", "count"}
    /\ failedLogins' = failedLogins + 1
    /\ Go(w, IF failedLogins' = MaxFailures THEN [pc |-> "ttl", has |-> {"counter"}] ELSE IdleReq)
    /\ UNCHANGED <<rows, login, proof, failedLoginsTtl, attempts, ops, deaths, raced, told, ended>>

\* increment_login_failure of a refused login: INCR, and EXPIRE after the first.  Requests that
\* were admitted together all count.
FailLogin(w) ==
    /\ req[w].pc \in {"login", "count"}
    /\ failedLogins' = failedLogins + 1
    /\ Go(w, IF failedLogins' = 1 THEN [pc |-> "ttl", has |-> {"counter"}] ELSE IdleReq)
    /\ UNCHANGED <<rows, login, proof, failedLoginsTtl, attempts, ops, deaths, raced, told, ended>>

\* A right password without a verified address: the verification is replaced first.
UnverifiedLogin(w) ==
    /\ req[w].pc = "login"
    /\ user[Owner].active /\ ~user[Owner].verified
    /\ user[Owner].password = told.user[Owner].password
    /\ DropVerification
    /\ Go(w, [pc |-> "unverified", has |-> {}])
    /\ UNCHANGED <<rows, login, reset, device, rate, ops, deaths, raced, told, ended>>

SetTtl(w) ==
    /\ req[w].pc = "ttl"
    /\ failedLoginsTtl' = (failedLogins > 0)
    /\ Done(w)
    /\ UNCHANGED <<rows, login, proof, failedLogins, attempts, ops, deaths, raced, told, ended>>

ExpireFailures ==
    /\ failedLoginsTtl
    /\ failedLogins' = 0 /\ failedLoginsTtl' = FALSE
    /\ UNCHANGED <<rows, login, proof, attempts, req, ops, deaths, raced, told, ended>>

-----------------------------------------------------------------------------
(* The second factor of the owner *)

\* setup: without a confirmed device the unconfirmed one is deleted ...
Setup(w) ==
    /\ HoldsToken(Owner)
    /\ device.status # "confirmed"
    /\ device' = [device EXCEPT !.status = "none"]
    /\ Start(w, [pc |-> "setup", has |-> {}])
    /\ UNCHANGED <<rows, login, verification, reset, rate, deaths, told, ended>>

\* ... and one is created; when there is one again the request fails.
SetupCreate(w) ==
    /\ req[w].pc = "setup"
    /\ device' = IF device.status = "none" THEN [id |-> NewId, status |-> "pending"]
                 ELSE device
    /\ Done(w)
    /\ UNCHANGED <<rows, login, verification, reset, rate, ops, deaths, raced, told, ended>>

\* The code matches the loaded secret.
ConfirmRead(w) ==
    /\ HoldsToken(Owner)
    /\ device.status = "pending"
    /\ Start(w, [pc |-> "confirm", has |-> {}, token |-> device.id])
    /\ UNCHANGED <<rows, login, proof, rate, deaths, told, ended>>

\* One transaction; the row of a device that was disabled meanwhile is inserted again, that of
\* one that was replaced is refused.
ConfirmSave(w) ==
    /\ req[w].pc = "confirm"
    /\ IF device.id = req[w].token \/ device.status = "none"
       THEN /\ device' = [id |-> req[w].token, status |-> "confirmed"]
            /\ told' = [told EXCEPT !.device = "confirmed"]
       ELSE UNCHANGED <<device, told>>
    /\ Done(w)
    /\ UNCHANGED <<rows, login, verification, reset, rate, ops, deaths, raced, ended>>

\* disable: the confirmed device is loaded and the code asked of it ...
DisableRead(w) ==
    /\ Idle(w) /\ ops < MaxOps /\ ops' = ops + 1
    /\ HoldsToken(Owner)
    /\ device.status = "confirmed"
    /\ Go(w, [pc |-> "disable", has |-> {}, token |-> device.id])
    /\ raced' = IF \E v \in Worker : req[v].pc = "disable" THEN raced \cup {"device"} ELSE raced
    /\ UNCHANGED <<rows, login, proof, rate, deaths, told, ended>>

\* ... and that very row is deleted in one transaction, whatever the user has by now.
Disable(w) ==
    /\ req[w].pc = "disable"
    /\ device' = IF device.id = req[w].token THEN [device EXCEPT !.status = "none"] ELSE device
    /\ told' = [told EXCEPT !.device = "none"]
    /\ Done(w)
    /\ UNCHANGED <<rows, login, verification, reset, rate, ops, deaths, raced, ended>>

\* mfa_attempts:{email}.
CountMfaAttempt == attempts' = attempts + 1
ResetMfaAttempts == attempts' = 0

\* verify_token: the token and the attempts are read ...
MfaRead(w) ==
    /\ mfaToken
    /\ attempts < MaxFailures
    /\ device.status # "none"
    /\ Start(w, [pc |-> "mfa", has |-> {}, row |-> user[Owner]])
    /\ UNCHANGED <<rows, login, proof, rate, deaths, told, ended>>

\* ... and a right code buys a session, whether or not the token is still there to delete.
MfaFinish(w) ==
    /\ req[w].pc = "mfa"
    /\ \/ /\ ResetMfaAttempts
          /\ mfaToken' = FALSE
          /\ OpenSession(Owner, req[w].row.role)
       \/ /\ CountMfaAttempt
          /\ UNCHANGED <<mfaToken, session, client>>
    /\ Done(w)
    /\ UNCHANGED <<rows, blocked, proof, failedLogins, failedLoginsTtl, ops, deaths, raced,
                   told, ended>>

\* A token lives five minutes, the attempts a quarter of an hour; both are dropped then.
MfaLapse ==
    /\ mfaToken \/ attempts > 0
    /\ mfaToken' = FALSE
    /\ attempts' \in {0, attempts}
    /\ UNCHANGED <<rows, session, client, blocked, proof, failedLogins, failedLoginsTtl, req,
                   ops, deaths, raced, told, ended>>

-----------------------------------------------------------------------------
(* Sessions *)

Live(s) == session[s].status = "live"

\* AuthService.refresh_token: the user and the session are loaded, the claim is compared and
\* a new jti drawn.
RefreshLoad(w, s) ==
    /\ client[s] # NoRow
    /\ Live(s)
    /\ session[s].jti = client[s].jti
    /\ Start(w, [pc |-> "refresh", has |-> {s}, id |-> s, row |-> session[s],
                 role |-> user[client[s].user].role, jti |-> ops + 2])
    /\ UNCHANGED <<rows, login, proof, rate, deaths, told, ended>>

\* A token that is not the current one ends the session.
ReuseDetected(s) ==
    /\ client[s] # NoRow
    /\ Live(s)
    /\ session[s].jti # client[s].jti
    /\ session' = [session EXCEPT ![s].status = "revoked"]
    /\ Blocklist(s)
    /\ Once({s})
    /\ UNCHANGED <<rows, client, mfaToken, proof, rate, told, ended>>

\* The session is saved with the new token's jti, and the answer may be lost.
RefreshSave(w) ==
    /\ req[w].pc = "refresh"
    /\ LET s == req[w].id
           jti == req[w].jti
       IN  /\ session' = [session EXCEPT ![s] = [req[w].row EXCEPT !.jti = jti]]
           /\ \/ /\ client' = [client EXCEPT ![s].jti = jti, ![s].role = req[w].role]
                 /\ UNCHANGED raced
              \/ UNCHANGED client /\ raced' = raced \cup {s}
    /\ Done(w)
    /\ UNCHANGED <<rows, blocked, mfaToken, proof, rate, ops, deaths, told, ended>>

\* The blocklist first, then the row is loaded ...
Logout(w, s) ==
    /\ client[s] # NoRow /\ ~Revoked(s)
    /\ Blocklist(s)
    /\ Start(w, [pc |-> "logout", has |-> {s}, id |-> s, row |-> session[s]])
    /\ UNCHANGED <<rows, session, client, mfaToken, proof, rate, deaths, told, ended>>

\* Mutant: a session on the blocklist counts as logged out.
LogoutSkipsRow(w) ==
    /\ req[w].pc = "logout"
    /\ ended' = ended \cup {req[w].id}
    /\ session' = IF req[w].id \in blocked THEN session
                  ELSE [session EXCEPT ![req[w].id].status = "revoked"]
    /\ Done(w)
    /\ UNCHANGED <<rows, client, blocked, mfaToken, proof, rate, ops, deaths, raced, told>>

\* ... and saved.
LogoutSave(w) ==
    /\ req[w].pc = "logout"
    /\ session' = IF req[w].row = NoRow THEN session
                  ELSE [session EXCEPT ![req[w].id] = [req[w].row EXCEPT !.status = "revoked"]]
    /\ ended' = ended \cup {req[w].id}
    /\ Done(w)
    /\ UNCHANGED <<rows, client, blocked, mfaToken, proof, rate, ops, deaths, raced, told>>

\* SessionService.revoke_session: the row is loaded, saved, and blocklisted.
RevokeLoad(w, s) ==
    /\ session[s] # NoRow
    /\ HoldsToken(session[s].user)
    /\ Start(w, [pc |-> "revoke", has |-> {s}, id |-> s, row |-> session[s]])
    /\ UNCHANGED <<rows, login, proof, rate, deaths, told, ended>>

RevokeSave(w) ==
    /\ req[w].pc = "revoke"
    /\ session' = [session EXCEPT ![req[w].id] = [req[w].row EXCEPT !.status = "revoked"]]
    /\ Go(w, [pc |-> "block", has |-> {req[w].id}, id |-> req[w].id])
    /\ UNCHANGED <<rows, client, blocked, mfaToken, proof, rate, ops, deaths, raced, told, ended>>

RevokeBlock(w) ==
    /\ req[w].pc = "block"
    /\ Blocklist(req[w].id)
    /\ ended' = ended \cup {req[w].id}
    /\ Done(w)
    /\ UNCHANGED <<rows, session, client, mfaToken, proof, rate, ops, deaths, raced, told>>

-----------------------------------------------------------------------------
(* Passwords *)

\* change_password: request.user was loaded with the token.
ChangePassword(w, e) ==
    /\ HoldsToken(e)
    /\ user[e].password = told.user[e].password
    /\ Start(w, [pc |-> "password", has |-> {e}, email |-> e, row |-> user[e], reset |-> 0])
    /\ UNCHANGED <<rows, login, proof, rate, deaths, told, ended>>

\* Old tokens are deleted, a new one is created.
ForgotPassword ==
    /\ reset' = [id |-> reset.id + 1, status |-> "pending"]
    /\ Once({})
    /\ UNCHANGED <<rows, login, verification, device, rate, told, ended>>

ResetPassword(w) ==
    /\ reset.status = "pending"
    /\ Start(w, [pc |-> "password", has |-> {Owner}, email |-> Owner,
                 row |-> user[Owner], reset |-> reset.id])
    /\ UNCHANGED <<rows, login, proof, rate, deaths, told, ended>>

SavePassword(w) ==
    /\ req[w].pc = "password"
    /\ LET e == req[w].email
           row == [req[w].row EXCEPT !.password = @ + 1]
       IN  /\ user' = [user EXCEPT ![e] = row]
           /\ told' = [told EXCEPT !.user[e].password = row.password]
           /\ Go(w, [req[w] EXCEPT !.pc = IF req[w].reset = 0 THEN "sessions" ELSE "use",
                                   !.has = {e}])
    /\ UNCHANGED <<team, plan, inv, mail, login, proof, rate, ops, deaths, raced, ended>>

\* use(): the token is saved as used (one that was replaced is inserted again beside its
\* successor, used).
UseReset(w) ==
    /\ req[w].pc = "use"
    /\ reset' = IF reset.id = req[w].reset THEN [reset EXCEPT !.status = "used"] ELSE reset
    /\ Go(w, [req[w] EXCEPT !.pc = "sessions"])
    /\ UNCHANGED <<rows, login, verification, device, rate, ops, deaths, raced, told, ended>>

\* The sessions of the user are deleted; their access tokens are not blocked.
EndSessions(w) ==
    /\ req[w].pc = "sessions"
    /\ LET gone == {s \in Session : session[s] # NoRow /\ session[s].user = req[w].email}
       IN  /\ session' = [s \in Session |-> IF s \in gone THEN NoRow ELSE session[s]]
           /\ raced' = raced \cup Contended(gone, w)
           /\ ended' = ended \cup gone
    /\ Done(w)
    /\ UNCHANGED <<rows, client, blocked, mfaToken, proof, rate, ops, deaths, told>>

-----------------------------------------------------------------------------
\* Requests are interchangeable.
Symmetry == Permutations(Worker)

InviteEngineerView(w) ==
    \/ \E e \in Invitee, r \in Invitable : CheckInvite(w, e, r)
    \/ CreateInvite(w)
JoinWithEmailPasswordView(w) == (\E i \in Invite : LoadInvite(w, i, "password")) \/ Join(w)
CancelInvitationView(w) == (\E i \in Invite : LoadToCancel(w, i)) \/ CancelInvite(w)
ResendInvitationView(w) == (\E i \in Invite : LoadToResend(w, i)) \/ ResendInvite(w)
UpdateTeamMemberRoleView(w) ==
    (\E e \in Email, r \in Role : RoleRead(w, e, r)) \/ SaveRole(w)
ProfilePictureViews(w) == (\E e \in Email : ProfileRead(w, e)) \/ SaveProfile(w)
VerifyEmailView(w) == VerifyRead(w) \/ VerifySave(w) \/ VerifyUser(w)
LoginView(w) == LoginAdmit(w) \/ (\E e \in Email : LoginCheck(w, e))
                \/ FailLogin(w) \/ UnverifiedLogin(w) \/ SetTtl(w) \/ SignIn(w)
OAuthCallbackViews(w) ==
    \/ \E i \in Invite : LoadOAuthInvite(w, i)
    \/ OAuthJoin(w)
    \/ \E e \in Email : OwnerOAuthLogin(w, e) \/ EngineerOAuthLogin(w, e)
ResendVerificationEmailView(w) == ResendVerification(w) \/ RenewVerification(w)
SetupMFAView(w) == Setup(w) \/ SetupCreate(w)
DisableMFAView(w) == DisableRead(w) \/ Disable(w)
ConfirmMFAView(w) == ConfirmRead(w) \/ ConfirmSave(w)
VerifyMFATokenView(w) == MfaRead(w) \/ MfaFinish(w)
TokenRefreshView(w) ==
    (\E s \in Session : RefreshLoad(w, s) \/ ReuseDetected(s)) \/ RefreshSave(w)
LogoutView(w) == (\E s \in Session : Logout(w, s)) \/ LogoutSave(w)
RevokeSessionView(w) == (\E s \in Session : RevokeLoad(w, s)) \/ RevokeSave(w) \/ RevokeBlock(w)
PasswordViews(w) ==
    \/ ForgotPassword
    \/ \E e \in Email : ChangePassword(w, e)
    \/ ResetPassword(w) \/ SavePassword(w) \/ UseReset(w) \/ EndSessions(w)
Tasks(w) == (\E m \in mail : BeginMail(w, m)) \/ EndMail(w)

AccountsNext ==
    \/ \E w \in Worker :
          \/ InviteEngineerView(w) \/ JoinWithEmailPasswordView(w) \/ CancelInvitationView(w)
          \/ ResendInvitationView(w) \/ UpdateTeamMemberRoleView(w) \/ ProfilePictureViews(w)
          \/ VerifyEmailView(w) \/ LoginView(w) \/ OAuthCallbackViews(w) \/ ConfirmMFAView(w)
          \/ VerifyMFATokenView(w) \/ TokenRefreshView(w) \/ LogoutView(w)
          \/ RevokeSessionView(w) \/ PasswordViews(w) \/ Tasks(w) \/ Crash(w)
          \/ ResendVerificationEmailView(w) \/ SetupMFAView(w) \/ DisableMFAView(w)
    \/ Downgrade \/ Upgrade \/ CleanUp
    \/ \E i \in Invite : Lapse(i)
    \/ ExpireFailures \/ MfaLapse

AccountsSpec == AccountsInit /\ [][AccountsNext]_accountVars

-----------------------------------------------------------------------------
(* Properties *)

\* Every row is a row of its table (users/models.py), an e-mail has one invitation of a status,
\* every session belongs to a member, and what a browser holds was issued to it.
AccountsTypeOK ==
    /\ user \in [Email -> UserRow \cup {NoRow}]
    /\ inv \in [Invite -> InvitationRow \cup {NoRow}]
    /\ session \in [Session -> SessionRow \cup {NoRow}]
    /\ verification \in VerificationRow /\ reset \in ResetRow /\ device \in DeviceRow
    /\ plan \in {"free", "pro"}
    /\ \A e \in Email : Member(e) <=> e \in Range(team)
    /\ \A i, j \in Invite : i # j /\ inv[i] # NoRow /\ inv[j] # NoRow =>
          <<inv[i].email, inv[i].status>> # <<inv[j].email, inv[j].status>>
    /\ \A s \in Session : session[s] # NoRow => client[s] # NoRow /\ Member(session[s].user)
    /\ blocked \subseteq {s \in Session : client[s] # NoRow}
    /\ failedLogins \in 0..MaxFailures - 1 + Cardinality(Worker)
    /\ attempts \in 0..MaxFailures - 1 + Cardinality(Worker)
    /\ ops \in 0..MaxOps /\ deaths \in 0..MaxCrashes

\* An accepted invitation has its member, whoever died or raced while joining: the two are one
\* transaction (join_with_password, process_oauth_invitation).
AcceptedHasMember ==
    \A i \in Invite : inv[i] # NoRow /\ inv[i].status = "accepted" =>
        inv[i].by = inv[i].email /\ Member(inv[i].email)

\* An invitation is what its last answered request made it -- sent, accepted, cancelled,
\* expired -- and an answered cancellation admits nobody, as long as no two requests or mail
\* tasks overlapped on its row.
InvitationAnswerHolds ==
    \A i \in Invite \ raced : inv[i] # NoRow => inv[i].status = told.inv[i]

\* The owner of a tenant remains its active owner through every change of role and plan, and
\* through every stale row that is saved over another (UpdateTeamMemberRoleView, the
\* downgrade of subscription.cancelled).
OwnerRemains == user[Owner].role = "owner" /\ user[Owner].active

\* Whoever is on the team came in by registration or an accepted invitation, and its owner
\* stays.
TeamConsistent == AccountsTypeOK /\ AcceptedHasMember /\ OwnerRemains

\* A member's row says what was last answered about the role, the password, the activity and
\* the address, as long as no two requests overlapped on it: every handler writes all columns.
UserAnswerHolds ==
    \A e \in Email \ raced : user[e] = told.user[e]

\* The second factor is on after it was confirmed and off after it was disabled, whatever
\* set-ups, confirmations and one request to disable it overlapped.  (A second one deletes the
\* row it loaded, which may no longer be the user's device, and answers "disabled".)
DeviceAnswerHolds ==
    "device" \notin raced => (device.status = "confirmed" <=> told.device = "confirmed")

\* So what users and admins were last told of invitations, members and devices is true, unless
\* requests overlapped on that very row or two requests disabled the device.
AnswersHold == InvitationAnswerHolds /\ UserAnswerHolds /\ DeviceAnswerHolds

\* A browser that receives the answers to its refreshes, and refreshes one at a time, keeps
\* its session: the row has the jti it holds, until the session is ended (the rotation in
\* AuthService.refresh_token).
LoneClientKeepsSession ==
    \A s \in Session \ (raced \cup ended) :
        client[s] # NoRow =>
            \/ Live(s) /\ session[s].jti = client[s].jti
            \/ \E w \in Worker : s \in req[w].has /\ req[w].pc = "block"

\* A session whose end was answered -- by logout, revocation or a new password -- cannot be
\* refreshed again, as long as no request held its row meanwhile.
EndedStaysEnded ==
    \A s \in ended \ raced : ~Live(s)

\* A session lives until it is ended and no longer.
SessionsHold == LoneClientKeepsSession /\ EndedStaysEnded

\* A count of failed logins goes away again, unless the request that set the first one died
\* between INCR and EXPIRE: the count has a lifetime or a request is about to set it
\* (increment_login_failure), whatever overlaps and whatever is cleared between.
CounterHasTtl ==
    failedLogins > 0 /\ "counter" \notin raced =>
        failedLoginsTtl \/ \E w \in Worker : req[w].pc = "ttl"
=============================================================================
