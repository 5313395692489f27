------------------------------ MODULE Accounts ------------------------------
(***************************************************************************)
(* Accounts, sessions and the tokens that set passwords (modules/auth),    *)
(* the access of unit owners (modules/owners) and of service providers     *)
(* (modules/service-providers), which an invited person earns by setting a *)
(* password with the token of the invitation.                              *)
(*                                                                         *)
(* A request reads, checks and writes in statements of their own, so its   *)
(* steps interleave with those of other requests, and it may die between   *)
(* two of them.  Only the two transactions of auth.repo.ts are atomic for  *)
(* their writes; they still read before they write.                        *)
(*                                                                         *)
(* Left out: passwords themselves (a caller who does not know the password *)
(* or the token takes no step), access tokens, e-mails (DeliveryTasks),    *)
(* audit rows and notifications of grants, the profile texts.              *)
(***************************************************************************)
EXTENDS Naturals, FiniteSets

CONSTANTS
    Handlers,            \* concurrent API requests
    Users,               \* people, by normalised email
    Owners, Providers,
    Tokens,              \* password reset tokens
    Grants,              \* OwnerAccessGrant rows
    ProviderGrants,      \* ServiceProviderAccessGrant rows
    MaxEpoch,            \* bound on the password resets of an account, plus one
    NoId

ASSUME AccountsAssumption ==
    /\ IsFiniteSet(Handlers)
    /\ MaxEpoch \in Nat \ {0}
    /\ NoId \notin Users \cup Owners \cup Providers \cup Tokens \cup Grants \cup ProviderGrants

VARIABLES
    account,     \* account[u]: the row of u in table User
    token,       \* token[t]: PasswordResetToken row
    invite,      \* invite[t]: ResidentInvite row with the hash of t
    owner,       \* owner[o]: the row and its isActive
    grant,       \* grant[g]: OwnerAccessGrant row
    provider,    \* provider[p]: the row and its isActive
    member,      \* member[p][u]: ServiceProviderUser row
    pgrant,      \* pgrant[q]: ServiceProviderAccessGrant row
    job,         \* job[h]: progress of request h
    late         \* history: rows that a request read before another one changed them

vars == <<account, token, invite, owner, grant, provider, member, pgrant, job, late>>

Nullable(S) == S \cup {NoId}
Purposes == {"PASSWORD_RESET", "RESIDENT_INVITE", "OWNER_INVITE", "PROVIDER_INVITE"}
Statuses == {"none", "PENDING", "ACTIVE", "DISABLED"}
Roles == {"none", "ADMIN", "WORKER"}
Activity == {"none", "active", "inactive"}

\* epoch counts the resets by token; session is the epoch of the sign-in behind the
\* stored refresh token, 0 when none is stored.
Account == [state: {"absent", "live"}, org: BOOLEAN, must: BOOLEAN,
            epoch: 1..MaxEpoch, session: 0..MaxEpoch]
Token == [state: {"none", "live", "used", "deleted"}, user: Nullable(Users),
          purpose: Purposes, uses: 0..Cardinality(Handlers)]
NoToken(state) == [state |-> state, user |-> NoId, purpose |-> "PASSWORD_RESET", uses |-> 0]
Grant == [status: Statuses, owner: Nullable(Owners), user: Nullable(Users)]
ProviderGrant == [status: Statuses, provider: Nullable(Providers), user: Nullable(Users)]
Member == [role: Roles, active: BOOLEAN, by: {"none", "invite", "admin"}]
Job == [pc: {"idle", "saveRefresh", "changePassword", "token", "insertToken", "residentInvite",
             "reset", "resetWrite", "pendingGrant", "activeGrant", "activate", "disable",
             "invite", "membership", "providerGrant", "disableProvider", "staff"},
        user: Nullable(Users), epoch: 0..MaxEpoch, purpose: Purposes, token: Nullable(Tokens),
        doomed: SUBSET Tokens, owner: Nullable(Owners), grant: Nullable(Grants \cup ProviderGrants),
        pending: SUBSET Grants, provider: Nullable(Providers), member: Member]
\* users reset while a sign-in was being stored, tokens used while another request had
\* read them, grants disabled while being activated, memberships whose invitation died
\* before its grant
Late == [sessions: SUBSET Users, tokens: SUBSET Tokens, grants: SUBSET Grants,
         members: SUBSET (Providers \X Users)]

\* Rows and request records have their types.
TypeOK ==
    /\ account \in [Users -> Account]
    /\ token \in [Tokens -> Token]
    /\ invite \in [Tokens -> {"none", "SENT", "ACCEPTED", "FAILED"}]
    /\ owner \in [Owners -> Activity]
    /\ grant \in [Grants -> Grant]
    /\ provider \in [Providers -> Activity]
    /\ member \in [Providers -> [Users -> Member]]
    /\ pgrant \in [ProviderGrants -> ProviderGrant]
    /\ job \in [Handlers -> Job]
    /\ late \in Late

NoMember == [role |-> "none", active |-> FALSE, by |-> "none"]
Idle == [pc |-> "idle", user |-> NoId, epoch |-> 0, purpose |-> "PASSWORD_RESET", token |-> NoId,
         doomed |-> {}, owner |-> NoId, grant |-> NoId, pending |-> {}, provider |-> NoId,
         member |-> NoMember]

\* Nobody has arrived yet.
Init ==
    /\ account = [u \in Users |-> [state |-> "absent", org |-> FALSE, must |-> FALSE,
                                   epoch |-> 1, session |-> 0]]
    /\ token = [t \in Tokens |-> NoToken("none")]
    /\ invite = [t \in Tokens |-> "none"]
    /\ owner = [o \in Owners |-> "none"]
    /\ grant = [g \in Grants |-> [status |-> "none", owner |-> NoId, user |-> NoId]]
    /\ provider = [p \in Providers |-> "none"]
    /\ member = [p \in Providers |-> [u \in Users |-> NoMember]]
    /\ pgrant = [q \in ProviderGrants |-> [status |-> "none", provider |-> NoId, user |-> NoId]]
    /\ job = [h \in Handlers |-> Idle]
    /\ late = [sessions |-> {}, tokens |-> {}, grants |-> {}, members |-> {}]

Open(status) == status \in {"PENDING", "ACTIVE"}
Live(u) == account[u].state = "live"

\* The request starts with its first step, and goes on or ends.
Begin(h, new) ==
    /\ job[h].pc = "idle"
    /\ job' = [job EXCEPT ![h] = new]
    /\ UNCHANGED late
Continue(h, new) == job' = [job EXCEPT ![h] = new] /\ UNCHANGED late
Finish(h) == Continue(h, Idle)

\* The row of u is locked by a transaction that resets its password.
Unlocked(u) == \A h \in Handlers : ~(job[h].pc = "resetWrite" /\ job[h].user = u)

CreateUser(u, inOrg, must) ==
    account' = [account EXCEPT ![u] = [state |-> "live", org |-> inOrg, must |-> must,
                                       epoch |-> 1, session |-> 0]]

------------------------------------------------------------------------------
(* Sessions (auth.service.ts).                                             *)

Register(h, u) ==
    /\ ~Live(u)
    /\ Begin(h, [Idle EXCEPT !.pc = "saveRefresh", !.user = u, !.epoch = 1])
    /\ CreateUser(u, FALSE, FALSE)
    /\ UNCHANGED <<token, invite, owner, grant, provider, member, pgrant>>

\* The password is verified and the tokens are issued; the refresh token is stored later.
Login(h, u) ==
    /\ Live(u)
    /\ Begin(h, [Idle EXCEPT !.pc = "saveRefresh", !.user = u, !.epoch = account[u].epoch])
    /\ UNCHANGED <<account, token, invite, owner, grant, provider, member, pgrant>>

\* The stored token is the one presented; its successor belongs to the same sign-in.
RefreshSession(h, u) ==
    /\ Live(u) /\ account[u].session # 0
    /\ Begin(h, [Idle EXCEPT !.pc = "saveRefresh", !.user = u, !.epoch = account[u].session])
    /\ UNCHANGED <<account, token, invite, owner, grant, provider, member, pgrant>>

SaveRefreshToken(h) ==
    /\ job[h].pc = "saveRefresh"
    /\ Unlocked(job[h].user)
    /\ account' = [account EXCEPT ![job[h].user].session = job[h].epoch]
    /\ Finish(h)
    /\ UNCHANGED <<token, invite, owner, grant, provider, member, pgrant>>

ChangePasswordCheck(h, u) ==
    /\ Live(u)
    /\ Begin(h, [Idle EXCEPT !.pc = "changePassword", !.user = u])
    /\ UNCHANGED <<account, token, invite, owner, grant, provider, member, pgrant>>

\* updatePasswordHash leaves the stored refresh token alone.
ChangePassword(h) ==
    /\ job[h].pc = "changePassword"
    /\ Unlocked(job[h].user)
    /\ account' = [account EXCEPT ![job[h].user].must = FALSE]
    /\ Finish(h)
    /\ UNCHANGED <<token, invite, owner, grant, provider, member, pgrant>>

\* mutant: the missing value is stored in place of no token
LogoutStoresNull(u) ==
    /\ Live(u) /\ Unlocked(u)
    /\ account' = [account EXCEPT ![u].session = NoId]
    /\ UNCHANGED <<token, invite, owner, grant, provider, member, pgrant, job, late>>

Logout(u) ==
    /\ Live(u) /\ Unlocked(u)
    /\ account' = [account EXCEPT ![u].session = 0]
    /\ UNCHANGED <<token, invite, owner, grant, provider, member, pgrant, job, late>>

------------------------------------------------------------------------------
(* Tokens: requestPasswordReset and resetPasswordByToken.                  *)

\* Where a request that issues a token for u continues.
IssueToken(u, purpose) == [Idle EXCEPT !.pc = "token", !.user = u, !.purpose = purpose]

ForgotPassword(h, u) ==
    /\ Live(u)
    /\ Begin(h, IssueToken(u, "PASSWORD_RESET"))
    /\ UNCHANGED <<account, token, invite, owner, grant, provider, member, pgrant>>

\* ResidentsService.onboard and createResidentInOrg: the account is new, and invited
\* unless the caller says otherwise.
CreateResident(h, u, sendInvite) ==
    /\ ~Live(u)
    /\ Begin(h, IF sendInvite THEN IssueToken(u, "RESIDENT_INVITE") ELSE Idle)
    /\ CreateUser(u, TRUE, TRUE)
    /\ UNCHANGED <<token, invite, owner, grant, provider, member, pgrant>>

\* sendResidentInvite; that the cooldown has passed is a matter of time.
SendResidentInvite(h, u) ==
    /\ Live(u) /\ account[u].org
    /\ Begin(h, IssueToken(u, "RESIDENT_INVITE"))
    /\ UNCHANGED <<account, token, invite, owner, grant, provider, member, pgrant>>

\* createPasswordResetToken: the DELETE takes the rows it sees ...
DeleteTokens(h) ==
    /\ job[h].pc = "token"
    /\ Continue(h, [job[h] EXCEPT !.pc = "insertToken",
                                  !.doomed = {t \in Tokens : /\ token[t].user = job[h].user
                                                             /\ token[t].state \in {"live", "used"}}])
    /\ UNCHANGED <<account, token, invite, owner, grant, provider, member, pgrant>>

\* ... and the transaction commits with the new row.
InsertToken(h, t) ==
    LET u == job[h].user IN
    /\ job[h].pc = "insertToken"
    /\ token[t].state = "none"
    /\ token' = [x \in Tokens |->
                   IF x = t THEN [state |-> "live", user |-> u, purpose |-> job[h].purpose,
                                  uses |-> 0]
                   ELSE IF x \in job[h].doomed THEN NoToken("deleted") ELSE token[x]]
    /\ IF job[h].purpose = "RESIDENT_INVITE" /\ account[u].org
       THEN Continue(h, [job[h] EXCEPT !.pc = "residentInvite", !.token = t, !.doomed = {}])
       ELSE Finish(h)
    /\ UNCHANGED <<account, invite, owner, grant, provider, member, pgrant>>

CreateResidentInvite(h) ==
    /\ job[h].pc = "residentInvite"
    /\ invite' = [invite EXCEPT ![job[h].token] = "SENT"]
    /\ Finish(h)
    /\ UNCHANGED <<account, token, owner, grant, provider, member, pgrant>>

\* markResidentInviteFailed, called by the delivery of the e-mail.
MarkResidentInviteFailed(t) ==
    /\ invite[t] = "SENT"
    /\ invite' = [invite EXCEPT ![t] = "FAILED"]
    /\ UNCHANGED <<account, token, owner, grant, provider, member, pgrant, job, late>>

\* mutant: a token that was used is accepted again
ResetReadUsed(h, t) ==
    /\ token[t].state \in {"live", "used"}
    /\ account[token[t].user].epoch < MaxEpoch
    /\ Begin(h, [Idle EXCEPT !.pc = "reset", !.user = token[t].user, !.token = t,
                             !.purpose = token[t].purpose])
    /\ UNCHANGED <<account, token, invite, owner, grant, provider, member, pgrant>>

\* resetPasswordByToken looks the token up (one that expired is one nobody resets with
\* any more) ...
ResetRead(h, t) ==
    /\ token[t].state = "live"
    /\ account[token[t].user].epoch < MaxEpoch
    /\ Begin(h, [Idle EXCEPT !.pc = "reset", !.user = token[t].user, !.token = t,
                             !.purpose = token[t].purpose])
    /\ UNCHANGED <<account, token, invite, owner, grant, provider, member, pgrant>>

\* ... writes the user's row, which locks it, and then lists the pending grants ...
ResetFindGrants(h) ==
    /\ job[h].pc = "reset"
    /\ Unlocked(job[h].user)
    /\ Continue(h, [job[h] EXCEPT !.pc = "resetWrite",
                      !.pending = {g \in Grants : /\ job[h].purpose = "OWNER_INVITE"
                                                  /\ grant[g].user = job[h].user
                                                  /\ grant[g].status = "PENDING"}])
    /\ UNCHANGED <<account, token, invite, owner, grant, provider, member, pgrant>>

\* The unique indexes on open owner grants (one ACTIVE of an owner, one open of an owner
\* and a user), were grant g made ACTIVE for u.
MayActivate(g, u) ==
    \A k \in Grants \ {g} : grant[k].owner = grant[g].owner =>
        /\ grant[k].status # "ACTIVE"
        /\ ~(grant[k].user = u /\ Open(grant[k].status))

\* requests about to store a refresh token of u, and those past the look-up of token t
Storing(u) == {h \in Handlers : job[h].pc = "saveRefresh" /\ job[h].user = u}
Resetting(t) == {h \in Handlers : job[h].pc \in {"reset", "resetWrite"} /\ job[h].token = t}

ResetUser(u) == [account EXCEPT ![u].must = FALSE, ![u].epoch = @ + 1, ![u].session = 0]

\* mutant: the provider's grant is activated whatever became of it
AcceptProviderGrantsAny(u) ==
    [q \in ProviderGrants |-> IF pgrant[q].user = u THEN [pgrant[q] EXCEPT !.status = "ACTIVE"]
                              ELSE pgrant[q]]

AcceptProviderGrants(u) ==
    [q \in ProviderGrants |-> IF pgrant[q].user = u /\ pgrant[q].status = "PENDING"
                              THEN [pgrant[q] EXCEPT !.status = "ACTIVE"] ELSE pgrant[q]]

\* ... and commits: the grants it listed become ACTIVE by id, the provider grants that are
\* still PENDING with one UPDATE, and the other tokens of the user go.
ResetCommit(h) ==
    LET u == job[h].user
        t == job[h].token IN
    /\ job[h].pc = "resetWrite"
    /\ token[t].state \in {"live", "used"}
    /\ account[u].epoch < MaxEpoch
    /\ \A g \in job[h].pending : /\ MayActivate(g, grant[g].user)
                                /\ \A k \in job[h].pending \ {g} : grant[k].owner # grant[g].owner
    /\ account' = ResetUser(u)
    /\ token' = [x \in Tokens |->
                   IF x = t THEN [token[x] EXCEPT !.state = "used", !.uses = @ + 1]
                   ELSE IF token[x].user = u /\ token[x].state \in {"live", "used"}
                        THEN NoToken("deleted") ELSE token[x]]
    /\ invite' = [invite EXCEPT ![t] = IF job[h].purpose = "RESIDENT_INVITE" /\ @ = "SENT"
                                       THEN "ACCEPTED" ELSE @]
    /\ grant' = [g \in Grants |-> IF g \in job[h].pending THEN [grant[g] EXCEPT !.status = "ACTIVE"]
                                  ELSE grant[g]]
    /\ pgrant' = IF job[h].purpose = "PROVIDER_INVITE" THEN AcceptProviderGrants(u) ELSE pgrant
    /\ job' = [job EXCEPT ![h] = Idle]
    /\ late' = [late EXCEPT !.sessions = @ \cup {x \in {u} : Storing(x) # {}},
                            !.tokens = @ \cup {x \in {t} : Resetting(x) \ {h} # {}}]
    /\ UNCHANGED <<owner, provider, member>>

------------------------------------------------------------------------------
(* Owner access grants (owner-access-grant.service.ts).                    *)

NoActiveGrant(o) == \A g \in Grants : ~(grant[g].owner = o /\ grant[g].status = "ACTIVE")
NoOpenGrant(u, o) ==
    \A g \in Grants : ~(grant[g].owner = o /\ grant[g].user = u /\ Open(grant[g].status))

\* createPendingInvite: an account that has set its password is linked at once, one
\* that has not is invited, and one that does not exist is created first.
InviteOwner(h, o, u) ==
    /\ owner[o] = "active" /\ NoActiveGrant(o) /\ NoOpenGrant(u, o)
    /\ Begin(h, [Idle EXCEPT !.pc = IF Live(u) /\ ~account[u].must THEN "activeGrant" ELSE "pendingGrant",
                             !.user = u, !.owner = o])
    /\ IF Live(u) THEN UNCHANGED account ELSE CreateUser(u, FALSE, TRUE)
    /\ UNCHANGED <<token, invite, owner, grant, provider, member, pgrant>>

\* mutant: the password need not be set
LinkExistingUserUnset(h, o, u) ==
    /\ owner[o] = "active" /\ NoActiveGrant(o) /\ NoOpenGrant(u, o) /\ Live(u)
    /\ Begin(h, [Idle EXCEPT !.pc = "activeGrant", !.user = u, !.owner = o])
    /\ UNCHANGED <<account, token, invite, owner, grant, provider, member, pgrant>>

LinkExistingUser(h, o, u) ==
    /\ owner[o] = "active" /\ NoActiveGrant(o) /\ NoOpenGrant(u, o)
    /\ Live(u) /\ ~account[u].must
    /\ Begin(h, [Idle EXCEPT !.pc = "activeGrant", !.user = u, !.owner = o])
    /\ UNCHANGED <<account, token, invite, owner, grant, provider, member, pgrant>>

\* createPendingEmailGrant, then the token; OwnerAccessGrant_user_owner_open_unique holds.
CreatePendingGrant(h, g) ==
    LET j == job[h] IN
    /\ j.pc = "pendingGrant"
    /\ grant[g].status = "none" /\ NoOpenGrant(j.user, j.owner)
    /\ grant' = [grant EXCEPT ![g] = [status |-> "PENDING", owner |-> j.owner, user |-> j.user]]
    /\ Continue(h, IssueToken(j.user, "OWNER_INVITE"))
    /\ UNCHANGED <<account, token, invite, owner, provider, member, pgrant>>

\* createActiveGrant and the insert of linkExistingUser; both unique indexes hold.
CreateActiveGrant(h, g) ==
    LET j == job[h] IN
    /\ j.pc = "activeGrant"
    /\ grant[g].status = "none" /\ NoOpenGrant(j.user, j.owner) /\ NoActiveGrant(j.owner)
    /\ grant' = [grant EXCEPT ![g] = [status |-> "ACTIVE", owner |-> j.owner, user |-> j.user]]
    /\ Finish(h)
    /\ UNCHANGED <<account, token, invite, owner, provider, member, pgrant>>

ActivatePendingGrantCheck(h, g, u) ==
    /\ grant[g].status = "PENDING"
    /\ owner[grant[g].owner] = "active" /\ NoActiveGrant(grant[g].owner)
    /\ Live(u) /\ ~account[u].must
    /\ u = grant[g].user \/ NoOpenGrant(u, grant[g].owner)
    /\ Begin(h, [Idle EXCEPT !.pc = "activate", !.user = u, !.grant = g])
    /\ UNCHANGED <<account, token, invite, owner, grant, provider, member, pgrant>>

\* The update is by id: it does not ask again whether the grant is PENDING.
ActivatePendingGrant(h) ==
    LET g == job[h].grant
        u == job[h].user IN
    /\ job[h].pc = "activate"
    /\ MayActivate(g, u)
    /\ grant' = [grant EXCEPT ![g].status = "ACTIVE", ![g].user = u]
    /\ Finish(h)
    /\ UNCHANGED <<account, token, invite, owner, provider, member, pgrant>>

DisableGrantCheck(h, g) ==
    /\ Open(grant[g].status)
    /\ Begin(h, [Idle EXCEPT !.pc = "disable", !.grant = g])
    /\ UNCHANGED <<account, token, invite, owner, grant, provider, member, pgrant>>

\* requests that are about to make grant g ACTIVE by its id
Activating(g) ==
    {h \in Handlers : \/ job[h].pc = "activate" /\ job[h].grant = g
                      \/ job[h].pc = "resetWrite" /\ g \in job[h].pending}

DisableGrant(h) ==
    /\ job[h].pc = "disable"
    /\ grant' = [grant EXCEPT ![job[h].grant].status = "DISABLED"]
    /\ job' = [job EXCEPT ![h] = Idle]
    /\ late' = [late EXCEPT !.grants = @ \cup {g \in {job[h].grant} : Activating(g) # {}}]
    /\ UNCHANGED <<account, token, invite, owner, provider, member, pgrant>>

\* resendInvite, and resendActiveSetupInvite for a grant that is ACTIVE already.
ResendInvite(h, g) ==
    LET u == grant[g].user IN
    /\ grant[g].status = "PENDING" \/ (grant[g].status = "ACTIVE" /\ account[u].must)
    /\ Begin(h, IssueToken(u, "OWNER_INVITE"))
    /\ UNCHANGED <<account, token, invite, owner, grant, provider, member, pgrant>>

\* The owner of the party that was found or created is made, or made active again.
CreateOrReuseOwner(o) ==
    /\ owner' = [owner EXCEPT ![o] = "active"]
    /\ UNCHANGED <<account, token, invite, grant, provider, member, pgrant, job, late>>

\* Deactivating an owner leaves its grants as they are.
UpdateOwner(o, active) ==
    /\ owner[o] # "none"
    /\ owner' = [owner EXCEPT ![o] = active]
    /\ UNCHANGED <<account, token, invite, grant, provider, member, pgrant, job, late>>

------------------------------------------------------------------------------
(* Service providers (provider-access-grant.service.ts, provider-access    *)
(* .service.ts and provider-portal.service.ts).                            *)

\* toAccessibleMembership: whoever was ever invited needs an ACTIVE grant.
Accessible(p, u) ==
    /\ provider[p] = "active" /\ member[p][u].role # "none" /\ member[p][u].active
    /\ LET granted == {q \in ProviderGrants : pgrant[q].provider = p /\ pgrant[q].user = u} IN
       granted # {} => \E q \in granted : pgrant[q].status = "ACTIVE"

\* requireProviderAdmin: the only accessible membership of u, and an ADMIN one
IsProviderAdmin(p, u) ==
    /\ Accessible(p, u) /\ member[p][u].role = "ADMIN"
    /\ \A x \in Providers \ {p} : ~Accessible(x, u)

\* An administrator to be may be invited with the provider, by the same request.
CreateServiceProvider(h, p, active, invited) ==
    /\ provider[p] = "none"
    /\ provider' = [provider EXCEPT ![p] = active]
    /\ Begin(h, IF invited = NoId THEN Idle
                ELSE [Idle EXCEPT !.pc = "invite", !.user = invited, !.provider = p])
    /\ UNCHANGED <<account, token, invite, owner, grant, member, pgrant>>

\* createPendingInvite
InviteProvider(h, p, u) ==
    /\ provider[p] # "none"
    /\ \A q \in ProviderGrants : ~(pgrant[q].provider = p /\ Open(pgrant[q].status))
    /\ ~account[u].org
    /\ LET new == [Idle EXCEPT !.pc = "membership", !.user = u, !.provider = p,
                               !.member = [role |-> "ADMIN", active |-> TRUE, by |-> "invite"]] IN
       \/ Begin(h, new)
       \/ job[h].pc = "invite" /\ job[h].user = u /\ job[h].provider = p /\ Continue(h, new)
    /\ IF Live(u) THEN UNCHANGED account ELSE CreateUser(u, FALSE, TRUE)
    /\ UNCHANGED <<token, invite, owner, grant, provider, member, pgrant>>

\* The membership is written before the grant that restrains it.
UpsertMembership(h) ==
    LET j == job[h] IN
    /\ j.pc \in {"membership", "staff"}
    /\ member' = [member EXCEPT ![j.provider][j.user] = j.member]
    /\ IF j.pc = "membership" THEN Continue(h, [j EXCEPT !.pc = "providerGrant"]) ELSE Finish(h)
    /\ UNCHANGED <<account, token, invite, owner, grant, provider, pgrant>>

\* mutant: the grant is forgotten
CreateProviderGrantNever(h, q) ==
    /\ job[h].pc = "providerGrant"
    /\ pgrant[q].status = "none"
    /\ Continue(h, IssueToken(job[h].user, "PROVIDER_INVITE"))
    /\ UNCHANGED <<account, token, invite, owner, grant, provider, member, pgrant>>

CreateProviderGrant(h, q) ==
    /\ job[h].pc = "providerGrant"
    /\ pgrant[q].status = "none"
    /\ pgrant' = [pgrant EXCEPT ![q] = [status |-> "PENDING", provider |-> job[h].provider,
                                        user |-> job[h].user]]
    /\ Continue(h, IssueToken(job[h].user, "PROVIDER_INVITE"))
    /\ UNCHANGED <<account, token, invite, owner, grant, provider, member>>

ResendProviderInvite(h, q) ==
    /\ pgrant[q].status = "PENDING"
    /\ Begin(h, IssueToken(pgrant[q].user, "PROVIDER_INVITE"))
    /\ UNCHANGED <<account, token, invite, owner, grant, provider, member, pgrant>>

DisableProviderGrantCheck(h, q) ==
    /\ Open(pgrant[q].status)
    /\ Begin(h, [Idle EXCEPT !.pc = "disableProvider", !.grant = q])
    /\ UNCHANGED <<account, token, invite, owner, grant, provider, member, pgrant>>

DisableProviderGrant(h) ==
    /\ job[h].pc = "disableProvider"
    /\ pgrant' = [pgrant EXCEPT ![job[h].grant].status = "DISABLED"]
    /\ Finish(h)
    /\ UNCHANGED <<account, token, invite, owner, grant, provider, member>>

CreateStaff(h, p, admin, u, role, active) ==
    /\ IsProviderAdmin(p, admin)
    /\ ~Live(u)
    /\ Begin(h, [Idle EXCEPT !.pc = "staff", !.user = u, !.provider = p,
                             !.member = [role |-> role, active |-> active, by |-> "admin"]])
    /\ CreateUser(u, FALSE, TRUE)
    /\ UNCHANGED <<token, invite, owner, grant, provider, member, pgrant>>

UpdateStaff(h, p, admin, u, role, active) ==
    /\ IsProviderAdmin(p, admin) /\ admin # u
    /\ member[p][u].role # "none"
    /\ Begin(h, [Idle EXCEPT !.pc = "staff", !.user = u, !.provider = p,
                             !.member = [role |-> role, active |-> active, by |-> "admin"]])
    /\ UNCHANGED <<account, token, invite, owner, grant, provider, member, pgrant>>

\* ServiceProvidersService.update by an organisation: no grant is ACTIVE.
UpdateProvider(p, active) ==
    /\ provider[p] # "none"
    /\ \A q \in ProviderGrants : ~(pgrant[q].provider = p /\ pgrant[q].status = "ACTIVE")
    /\ provider' = [provider EXCEPT ![p] = active]
    /\ UNCHANGED <<account, token, invite, owner, grant, member, pgrant, job, late>>

\* ProviderPortalService.updateProfile by an administrator of the provider.
UpdateProfile(p, active) ==
    /\ \E u \in Users : IsProviderAdmin(p, u)
    /\ provider' = [provider EXCEPT ![p] = active]
    /\ UNCHANGED <<account, token, invite, owner, grant, member, pgrant, job, late>>

\* A request fails or its process stops: an open transaction rolls back, what it
\* committed before stays.
Abandon(h) ==
    /\ job[h].pc # "idle"
    /\ job' = [job EXCEPT ![h] = Idle]
    /\ late' = [late EXCEPT !.members =
                    @ \cup {m \in {<<job[h].provider, job[h].user>>} : job[h].pc = "providerGrant"}]
    /\ UNCHANGED <<account, token, invite, owner, grant, provider, member, pgrant>>

------------------------------------------------------------------------------
AuthStep(h) ==
    \/ \E u \in Users : \/ Register(h, u) \/ Login(h, u) \/ RefreshSession(h, u)
                         \/ ChangePasswordCheck(h, u) \/ ForgotPassword(h, u)
                         \/ SendResidentInvite(h, u)
                         \/ \E sendInvite \in BOOLEAN : CreateResident(h, u, sendInvite)
    \/ SaveRefreshToken(h)
    \/ ChangePassword(h)
    \/ DeleteTokens(h)
    \/ \E t \in Tokens : InsertToken(h, t) \/ ResetRead(h, t)
    \/ CreateResidentInvite(h)
    \/ ResetFindGrants(h)
    \/ ResetCommit(h)

OwnerStep(h) ==
    \/ \E o \in Owners, u \in Users : InviteOwner(h, o, u) \/ LinkExistingUser(h, o, u)
    \/ \E g \in Grants : \/ CreatePendingGrant(h, g) \/ CreateActiveGrant(h, g)
                          \/ DisableGrantCheck(h, g) \/ ResendInvite(h, g)
                          \/ \E u \in Users : ActivatePendingGrantCheck(h, g, u)
    \/ ActivatePendingGrant(h)
    \/ DisableGrant(h)

ProviderStep(h) ==
    \/ \E p \in Providers, u \in Users :
         \/ InviteProvider(h, p, u)
         \/ \E admin \in Users, role \in {"ADMIN", "WORKER"}, active \in BOOLEAN :
              CreateStaff(h, p, admin, u, role, active) \/ UpdateStaff(h, p, admin, u, role, active)
    \/ \E p \in Providers, active \in {"active", "inactive"}, invited \in Nullable(Users) :
         CreateServiceProvider(h, p, active, invited)
    \/ UpsertMembership(h)
    \/ \E q \in ProviderGrants : \/ CreateProviderGrant(h, q) \/ ResendProviderInvite(h, q)
                                  \/ DisableProviderGrantCheck(h, q)
    \/ DisableProviderGrant(h)

Next ==
    \/ \E h \in Handlers : AuthStep(h) \/ OwnerStep(h) \/ ProviderStep(h) \/ Abandon(h)
    \/ \E u \in Users : Logout(u)
    \/ \E t \in Tokens : MarkResidentInviteFailed(t)
    \/ \E o \in Owners : \/ CreateOrReuseOwner(o)
                         \/ \E active \in {"active", "inactive"} : UpdateOwner(o, active)
    \/ \E p \in Providers, active \in {"active", "inactive"} :
         UpdateProvider(p, active) \/ UpdateProfile(p, active)

Spec == Init /\ [][Next]_vars

------------------------------------------------------------------------------
(* Properties.                                                             *)

\* An owner never has two ACTIVE representatives, nor a person two open grants for one
\* owner, and nobody holds an ACTIVE grant, of an owner or a provider, before having set
\* a password, however invitations, links, activations and resets interleave
\* (assertPasswordSetupComplete, resetPasswordByToken).
ActiveGrantsEarned ==
    /\ \A g, k \in Grants :
         (g # k /\ grant[g].owner = grant[k].owner /\ Open(grant[g].status) /\ Open(grant[k].status))
         => /\ ~(grant[g].status = "ACTIVE" /\ grant[k].status = "ACTIVE")
            /\ grant[g].user # grant[k].user
    /\ \A g \in Grants : grant[g].status = "ACTIVE" => ~account[grant[g].user].must
    /\ \A q \in ProviderGrants : pgrant[q].status = "ACTIVE" => ~account[pgrant[q].user].must

\* Nobody administers a provider without an ACTIVE grant unless an administrator of the
\* provider said so, however invitations, acceptances, disabling and staff updates
\* interleave.  The membership is written before the grant, so there are two exceptions:
\* between the two writes of createPendingInvite, and for good when the request dies there.
AdminsWereGranted ==
    \A p \in Providers, u \in Users :
        (Accessible(p, u) /\ member[p][u].role = "ADMIN" /\ <<p, u>> \notin late.members) =>
            \/ member[p][u].by = "admin"
            \/ \E q \in ProviderGrants : /\ pgrant[q].provider = p /\ pgrant[q].user = u
                                         /\ pgrant[q].status = "ACTIVE"
            \/ \E h \in Handlers : /\ job[h].pc = "providerGrant"
                                   /\ job[h].provider = p /\ job[h].user = u

\* A reset ends the sessions that began before it, and a token resets once.  The stored
\* refresh token and the use of the token are written without asking again, so this
\* excepts users who had a sign-in or refresh between its check and its write when a reset
\* committed, and tokens that two requests had looked up when the first of them committed.
ResetEndsSessions ==
    /\ \A u \in Users \ late.sessions : account[u].session \in {0, account[u].epoch}
    /\ \A t \in Tokens \ late.tokens : token[t].uses <= 1

\* A grant that was disabled stays disabled.  For a provider this holds in every
\* interleaving, as acceptance asks for PENDING in its UPDATE; the acceptance of an
\* owner's invitation and activatePendingGrant write by id, so an owner's grant may come
\* back if it was disabled between the check and the write of one of them, and only then.
DisabledStaysDisabled ==
    [][/\ \A q \in ProviderGrants : pgrant[q].status = "DISABLED" => pgrant'[q].status = "DISABLED"
       /\ \A g \in Grants \ late.grants :
              grant[g].status = "DISABLED" => grant'[g].status = "DISABLED"]_vars
=============================================================================
