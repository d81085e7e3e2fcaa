------------------------------- MODULE Teams -------------------------------
(***************************************************************************)
(* Organizations of the auth service: their members and roles, their       *)
(* single sign-on provider and their audit log.  An organization is named  *)
(* by the call that made it and holds one domain; an audit entry is its    *)
(* action.                                                                 *)
(***************************************************************************)
EXTENDS Handlers

CONSTANTS
    Members,        \* users
    Domains,        \* email domains
    MaxLog          \* bound: the length of an audit log

VARIABLES
    orgs,       \* organizations: the domain of each
    roles,      \* memberships: the role by organization and user
    providers,  \* sso_providers: the type by organization
    auditLog    \* audit_logs: the actions of each organization, oldest first

teamVars == <<orgs, roles, providers, auditLog>>

Actions == {"login", "update"}

(* The rank of a role; one that the map lacks counts as 0. *)
Rank(role) ==
    CASE role = "owner" -> 4
      [] role = "admin" -> 3
      [] role = "developer" -> 2
      [] role = "member" -> 1
      [] OTHER -> 0

-----------------------------------------------------------------------------
(* The tables *)

(* The domain of an organization is UNIQUE. *)
DomainTaken(d) == \E o \in Calls : orgs[o] = d

InsertOrganization(o, d) == orgs' = [orgs EXCEPT ![o] = d]

GetOrganization(o) == orgs[o]

(* Slip: ON CONFLICT DO UPDATE. *)
AddMemberOver(o, u, role) == roles' = [roles EXCEPT ![<<o, u>>] = role]

(* INSERT ... ON CONFLICT DO NOTHING: the role a member has stays. *)
AddMember(o, u, role) ==
    roles' = [roles EXCEPT ![<<o, u>>] = IF @ = None THEN role ELSE @]

RemoveMember(o, u) == roles[<<o, u>>] # None /\ roles' = [roles EXCEPT ![<<o, u>>] = None]

ListOrgMembers(o) == {<<u, roles[<<o, u>>]>> : u \in {v \in Members : roles[<<o, v>>] # None}}

GetUserMemberships(u) == {<<o, roles[<<o, u>>]>> : o \in {p \in Calls : roles[<<p, u>>] # None}}

GetMembership(o, u) == roles[<<o, u>>]

InsertSSOProvider(o, type) == providers' = [providers EXCEPT ![o] = type]

GetSSOProviderByID(o) == providers[o]

(* The providers of the organizations with this domain; LIMIT 1. *)
GetSSOProviderByDomain(d) == {o \in Calls : orgs[o] = d /\ providers[o] # None}

CreateAuditLog(o, action) == auditLog' = [auditLog EXCEPT ![o] = Append(@, action)]

Matching(o, action) ==
    SelectSeq(auditLog[o], LAMBDA a : action \in {None, a})

-----------------------------------------------------------------------------
TeamInit ==
    /\ orgs = [o \in Calls |-> None]
    /\ roles = [m \in Calls \X Members |-> None]
    /\ providers = [o \in Calls |-> None]
    /\ auditLog = [o \in Calls |-> <<>>]

(* POST /organizations: a membership that cannot be stored is only logged. *)
CreateOrganization(c) ==
    \/ /\ Begins(c, "org")
       /\ \/ /\ ~DomainTaken(ask[c].domain) /\ Refuse(c)
             /\ Unanswered(InsertOrganization(c, ask[c].domain), orgs)
          \/ /\ ~DomainTaken(ask[c].domain) /\ InsertOrganization(c, ask[c].domain)
             /\ Goto(c, "owner") /\ UNCHANGED held
          \/ DomainTaken(ask[c].domain) /\ Refuse(c) /\ UNCHANGED orgs
       /\ UNCHANGED <<roles, providers, auditLog>>
    \/ /\ Serving(c, "org", "owner")
       /\ AddMember(c, ask[c].user, "owner") \/ (MayFail /\ UNCHANGED roles)
       /\ Ok(c)
       /\ UNCHANGED <<orgs, providers, auditLog>>

(* AuthGRPCServer.AddTeamMember: insert, read back, answer what was read.  *)
(* The reference to an organization that does not exist fails the insert.  *)
AddTeamMember(c) ==
    \/ /\ Begins(c, "add")
       /\ \E o \in Calls :
            \/ /\ GetOrganization(o) # None
               /\ AddMember(o, ask[c].user, ask[c].role)
               /\ Hold(c, [org |-> o, role |-> None]) /\ Goto(c, "read")
            \/ /\ GetOrganization(o) # None /\ Refuse(c)
               /\ Unanswered(AddMember(o, ask[c].user, ask[c].role), roles)
            \/ GetOrganization(o) = None /\ Refuse(c) /\ UNCHANGED roles
       /\ UNCHANGED <<orgs, providers, auditLog>>
    \/ /\ Serving(c, "add", "read")
       /\ \/ \E m \in GetUserMemberships(ask[c].user) :
               m[1] = held[c].org /\ Hold(c, [org |-> m[1], role |-> m[2]]) /\ Answer(c, "ok")
          \/ /\ MayFail \/ \A m \in GetUserMemberships(ask[c].user) : m[1] # held[c].org
             /\ Refuse(c)
       /\ UNCHANGED teamVars

(* AuthGRPCServer.RemoveTeamMember *)
RemoveTeamMember(c) ==
    /\ Begins(c, "remove")
    /\ \E o \in Calls :
         \/ RemoveMember(o, ask[c].user) /\ Ok(c)
         \/ Unanswered(RemoveMember(o, ask[c].user), roles) /\ Refuse(c)
         \/ roles[<<o, ask[c].user>>] = None /\ Refuse(c) /\ UNCHANGED roles
    /\ UNCHANGED <<orgs, providers, auditLog>>

(* AuthGRPCServer.ListTeamMembers *)
ListTeamMembers(c) ==
    /\ Begins(c, "members")
    /\ \/ \E o \in Calls : Hold(c, [members |-> ListOrgMembers(o)]) /\ Answer(c, "ok")
       \/ MayFail /\ Refuse(c)
    /\ UNCHANGED teamVars

(* AuthService.HasPermission, for a caller that names the role it needs. *)
HasPermission(c) ==
    /\ Begins(c, "permission")
    /\ \E o \in Calls :
         LET role == GetMembership(o, ask[c].user) IN
         \/ role # None /\ Rank(role) >= Rank(ask[c].role) /\ Ok(c)
         \/ (MayFail \/ role = None \/ Rank(role) < Rank(ask[c].role)) /\ Refuse(c)
    /\ UNCHANGED teamVars

(* AuthGRPCServer.CreateSSOProvider; the column active defaults to TRUE. *)
CreateSSOProvider(c) ==
    /\ Begins(c, "provider")
    /\ \E o \in Calls :
         \/ GetOrganization(o) # None /\ InsertSSOProvider(o, ask[c].type) /\ Ok(c)
         \/ /\ GetOrganization(o) # None /\ Refuse(c)
            /\ Unanswered(InsertSSOProvider(o, ask[c].type), providers)
         \/ GetOrganization(o) = None /\ Refuse(c) /\ UNCHANGED providers
    /\ UNCHANGED <<orgs, roles, auditLog>>

(* AuthGRPCServer.GetSSOProvider *)
GetSSOProvider(c) ==
    /\ Begins(c, "getprovider")
    /\ \E o \in Calls :
         \/ GetSSOProviderByID(o) # None /\ Ok(c)
         \/ (MayFail \/ GetSSOProviderByID(o) = None) /\ Refuse(c)
    /\ UNCHANGED teamVars

(* AuthGRPCServer.InitiateSSO: the provider for the domain of an address. *)
InitiateSSO(c) ==
    /\ Begins(c, "initiate")
    /\ \/ \E o \in GetSSOProviderByDomain(ask[c].domain) : Hold(c, o) /\ Answer(c, "ok")
       \/ /\ MayFail \/ GetSSOProviderByDomain(ask[c].domain) = {}
          /\ Refuse(c)
    /\ UNCHANGED teamVars

(* An entry is added to the log of an organization. *)
Audit(o, action) ==
    /\ orgs[o] # None /\ Len(auditLog[o]) < MaxLog
    /\ CreateAuditLog(o, action)
    /\ UNCHANGED <<orgs, roles, providers, callVars>>

PageOf(s, limit) == IF Len(s) <= limit THEN Len(s) ELSE limit

(* SQLRepository.GetAuditLogs: the page, then, in a statement of its own,  *)
(* the number of all entries that match.                                   *)
GetAuditLogs(c) ==
    \/ /\ Begins(c, "logs")
       /\ \/ \E o \in Calls :
               /\ Hold(c, [org |-> o, total |-> 0,
                           page |-> PageOf(Matching(o, ask[c].action), ask[c].limit)])
               /\ Goto(c, "count")
          \/ MayFail /\ Refuse(c)
       /\ UNCHANGED teamVars
    \/ /\ Serving(c, "logs", "count")
       /\ \/ /\ Hold(c, [held[c] EXCEPT !.total = Len(Matching(held[c].org, ask[c].action))])
             /\ Answer(c, "ok")
          \/ MayFail /\ Refuse(c)
       /\ UNCHANGED teamVars

TeamOps == {"org", "add", "remove", "members", "permission", "provider", "getprovider",
            "initiate", "logs"}

TeamNext ==
    \/ \E c \in Calls :
         \/ ask[c].op \in TeamOps /\ Malformed(c) /\ UNCHANGED teamVars
         \/ CreateOrganization(c) \/ AddTeamMember(c) \/ RemoveTeamMember(c)
         \/ ListTeamMembers(c) \/ HasPermission(c) \/ CreateSSOProvider(c)
         \/ GetSSOProvider(c) \/ InitiateSSO(c) \/ GetAuditLogs(c)
    \/ \E o \in Calls, action \in Actions : Audit(o, action)

-----------------------------------------------------------------------------

(* The call d may have given the user u this role in the organization o:   *)
(* it added the user, or it made the organization.                         *)
Gives(d, o, u, role) ==
    /\ at[d] # "start"
    /\ \/ ask[d].op = "add" /\ ask[d].role = role
       \/ ask[d].op = "org" /\ d = o /\ role = "owner"
    /\ ask[d].user = u

(* The call d may have removed the user u. *)
Removes(d, u) == ask[d].op = "remove" /\ at[d] = "done" /\ ask[d].user = u

(* AddTeamMember answers what it reads back after an insert that may have  *)
(* done nothing.  If that is not the role that was asked for, another call *)
(* gave the user the one that is told; and as long as no call has removed  *)
(* the user, the role that was told is the one the user has, whoever adds  *)
(* it again and whichever answers are lost.                                *)
ToldRolesAreTrue ==
    \A c \in Calls : (ask[c].op = "add" /\ reply[c] = "ok") =>
        LET o == held[c].org
            u == ask[c].user
            told == held[c].role
        IN  /\ told # ask[c].role => \E d \in Calls \ {c} : Gives(d, o, u, told)
            /\ roles[<<o, u>>] # told => \E d \in Calls : Removes(d, u)
=============================================================================
