--------------------------- MODULE RoleLifecycle ---------------------------
(***************************************************************************)
(* The commands that provision and revoke the database login roles of a    *)
(* generation: worker_control_role_cli, worker_runtime_role_cli and        *)
(* worker_marker_control_role_cli.                                         *)
(*                                                                         *)
(* A generation has login roles in the database, a directory of credential *)
(* files on the host and, for a worker, an admission grant.  The roles of  *)
(* a family share one stable role, which holds the privileges: member is   *)
(* the set of generations whose roles are its members.  Roles, directory   *)
(* and membership change in separate transactions, and a command can stop  *)
(* between any two of them.  It can also fail to log in for a moment, and  *)
(* takes that for an invalid generation (CliErrs).                         *)
(*                                                                         *)
(* The roles of one generation (three for control and for marker, one for  *)
(* a worker) change in the same transactions and are one value here.  The  *)
(* checks of file modes, directory pins and role attributes are left out.  *)
(***************************************************************************)
EXTENDS AdmissionJournal

VARIABLES
  role,     \* role[g]: the login roles of a generation
  member,   \* the generations whose roles are members of their stable role
  files,    \* files[g]: the credential directory of a generation
  grant,    \* grant[g]: the admission grant of a worker generation
  cli,      \* the command that holds the database's DCL lock
  erred     \* history: generations quarantined for an error while validated

roleVars == <<role, member, files, grant, cli, erred>>

Gens == Authorities \cup {<<"marker", "rollback">>} \cup (Owners \X {"prior"})
WorkerGens == {g \in Gens : g[1] \in Workers}
ControlGens == {g \in Gens : g[1] = "control"}

RoleStates == {"none", "login", "nologin"}
FileStates == {"none", "some", "all"}
GrantStates == {"none", "pending", "active", "revoked"}
CliSteps == {"idle", "check", "scan", "ensure", "write", "quarantine", "drop", "unlink",
             "ok", "failed"}
NoCli == [cmd |-> "none", g |-> NoGen, step |-> "idle"]

RoleTypeOK ==
  /\ role \in [Gens -> RoleStates]
  /\ member \subseteq Gens
  /\ files \in [Gens -> FileStates]
  /\ grant \in [WorkerGens -> GrantStates]
  /\ cli \in [cmd : {"none", "provision", "confirm", "revoke", "undo", "retire", "expel"},
              g : Gens \cup {NoGen}, step : CliSteps]
  /\ erred \subseteq Gens

\* Before a deployment the prior generations are admitted.
RoleInit ==
  /\ role = [g \in Gens |-> IF g[2] = "prior" THEN "login" ELSE "none"]
  /\ member = {g \in Gens : g[2] = "prior"}
  /\ files = [g \in Gens |-> IF g[2] = "prior" THEN "all" ELSE "none"]
  /\ grant = [g \in WorkerGens |-> IF g[2] = "prior" THEN "active" ELSE "none"]
  /\ cli = NoCli /\ erred = {}

-----------------------------------------------------------------------------
(* What a command reads *)

Family(g) ==
  CASE g \in ControlGens -> ControlGens
    [] g \in WorkerGens -> WorkerGens
    [] OTHER -> {g}

Fresh(g) == files[g] = "none" /\ role[g] = "none"

\* _validate_existing_generation of the two commands: every file is there and
\* the role it names logs in.
ValidControl(g) == files[g] = "all" /\ role[g] = "login"
ValidRuntime(g) == files[g] = "all" /\ role[g] = "login"

\* _classify_generation_authority: the grant row of the generation.
Authority(g) == grant[g]

\* _generation_has_any_authority
HasAnyAuthority(g) == grant[g] # "none"

\* Mutant: a scan takes an admitted generation for a foreign one.
MemberUntilActive(g) == ValidRuntime(g) /\ Authority(g) \in {"none", "pending"}

\* _scan_authorized_runtime_members accepts a directory unless its grant is
\* revoked.
RuntimeMember(g) == ValidRuntime(g) /\ Authority(g) \in {"none", "pending", "active"}

\* _scan_authorized_control_members
ControlMember(g) == ValidControl(g)

\* A scan goes through the directories: a role without one is not seen.
Scanned(g) == {h \in Family(g) : files[h] # "none"}
Accepted(g) ==
  {h \in Scanned(g) : IF h \in WorkerGens THEN RuntimeMember(h) ELSE ControlMember(h)}

-----------------------------------------------------------------------------
(* The transactions *)

At(step) == cli.step = step
Goto(step) == cli' = [cli EXCEPT !.step = step]
Become(cmd, step) == cli' = [cli EXCEPT !.cmd = cmd, !.step = step]

\* quarantine_login_roles: no login and no membership, in one transaction.
Quarantine(gs) ==
  /\ role' = [g \in Gens |-> IF g \in gs /\ role[g] # "none" THEN "nologin" ELSE role[g]]
  /\ member' = member \ gs

\* revoke_role_membership_authority, by _converge_reverse_memberships: every
\* edge of the stable role goes, and _grant_canonical_role_membership adds
\* those of the authorized roles that exist and can log in.
WithoutEdges(g) == member \ Family(g)
Canonical(gs) == {g \in gs : role[g] = "login"}

\* ensure_stable_role
EnsureStable(g, authorized) == WithoutEdges(g) \cup Canonical(authorized)

\* create_login_role: the new role and its membership.
CreateLogin(g) == [role EXCEPT ![g] = "login"]

-----------------------------------------------------------------------------
(* The operator's database functions, which change roles too *)

\* _operator_quarantine_principal_sql: superseded roles lose their login.
Superseded(grants) == {g \in WorkerGens : grants[g] = "revoked"}

\* _operator_runtime_role_graph_sql: the members of the stable role are
\* exactly the login roles with a live grant.
RoleGraph(grants) ==
  {g \in WorkerGens : grants[g] \in {"pending", "active"} /\ role[g] = "login"}

Regrant(grants) ==
  /\ grant' = grants
  /\ role' = [g \in Gens |->
               IF g \in Superseded(grants) /\ role[g] # "none" THEN "nologin" ELSE role[g]]
  /\ member' = (member \ WorkerGens) \cup RoleGraph(grants)

\* vp_worker_grant_upsert, vp_worker_grant_activate, vp_worker_grant_revoke.
MayUpsert(g) == grant[g] \in {"none", "pending"}
Upserted(g) == [grant EXCEPT ![g] = "pending"]

MayActivate(g) == role[g] = "login" /\ grant[g] \in {"pending", "active"}
Activated(g) ==
  [h \in WorkerGens |->
     CASE h = g -> "active"
       [] h # g /\ h[1] = g[1] /\ grant[h] = "active" -> "revoked"
       [] OTHER -> grant[h]]

Revoked(g) == [grant EXCEPT ![g] = "revoked"]

-----------------------------------------------------------------------------
(* The steps of a command *)

\* A command waits for the DCL lock, for those of the stable roles and of the
\* services, and for that of the generation: one is at work at a time.
Start(cmd, g) ==
  /\ cli.step = "idle"
  /\ cli' = [cmd |-> cmd, g |-> g, step |-> "check"]
  /\ UNCHANGED <<role, member, files, grant, erred>>

\* A complete control generation is confirmed, an interrupted one is
\* quarantined, and only a generation without any trace is made.
ProvisionControl ==
  /\ At("check") /\ cli.cmd = "provision" /\ cli.g \in ControlGens
  /\ IF Fresh(cli.g) THEN Goto("scan") /\ UNCHANGED <<role, member>>
     ELSE IF ValidControl(cli.g) THEN Become("confirm", "scan") /\ UNCHANGED <<role, member>>
     ELSE Quarantine({cli.g}) /\ Become("expel", "scan")
  /\ UNCHANGED <<files, grant>>

\* _reconstruct_generation_state: with a live grant, the missing state file is
\* written again.
Reconstructed(g) ==
  files[g] = "some" /\ role[g] = "login" /\ Authority(g) \in {"pending", "active"}

\* The same for a worker, whose grant decides too: a revoked generation is
\* retired, and a new one must have no grant yet.
ProvisionRuntime ==
  /\ At("check") /\ cli.cmd = "provision" /\ cli.g \in WorkerGens
  /\ IF Fresh(cli.g)
     THEN /\ Goto(IF HasAnyAuthority(cli.g) THEN "failed" ELSE "scan")
          /\ UNCHANGED <<role, member, files>>
     ELSE IF Reconstructed(cli.g)
     THEN /\ Become("confirm", "scan")
          /\ files' = [files EXCEPT ![cli.g] = "all"]
          /\ UNCHANGED <<role, member>>
     ELSE IF ValidRuntime(cli.g)
     THEN /\ IF Authority(cli.g) = "revoked" THEN Become("retire", "quarantine")
             ELSE Become("confirm", "scan")
          /\ UNCHANGED <<role, member, files>>
     ELSE Quarantine({cli.g}) /\ Become("expel", "scan") /\ UNCHANGED files
  /\ UNCHANGED grant

\* The marker's command has no scan and no locks: it refuses a directory or a
\* role that is there already.
ProvisionMarker ==
  /\ At("check") /\ cli.cmd = "provision" /\ cli.g[1] = "marker"
  /\ IF Fresh(cli.g)
     THEN role' = CreateLogin(cli.g) /\ member' = member \cup {cli.g} /\ Goto("write")
     ELSE Goto("failed") /\ UNCHANGED <<role, member>>
  /\ UNCHANGED <<files, grant>>

RevokeControl ==
  /\ At("check") /\ cli.cmd = "revoke" /\ cli.g \in ControlGens
  /\ Goto("quarantine")
  /\ UNCHANGED <<role, member, files, grant>>

\* Refused while the grant lives.
RevokeRuntime ==
  /\ At("check") /\ cli.cmd = "revoke" /\ cli.g \in WorkerGens
  /\ Goto(IF Authority(cli.g) \in {"pending", "active"} THEN "failed" ELSE "quarantine")
  /\ UNCHANGED <<role, member, files, grant>>

RevokeMarker ==
  /\ At("check") /\ cli.cmd = "revoke" /\ cli.g[1] = "marker"
  /\ Goto("drop")
  /\ UNCHANGED <<role, member, files, grant>>

\* Directories that are not accepted are quarantined one by one.
Scan ==
  /\ At("scan")
  /\ Quarantine(Scanned(cli.g) \ Accepted(cli.g))
  /\ Goto("ensure")
  /\ UNCHANGED <<files, grant>>

\* The provision's transaction: stable role, members, new roles.
CreateRoles ==
  /\ member' = EnsureStable(cli.g, Accepted(cli.g)) \cup {cli.g}
  /\ role' = CreateLogin(cli.g)
  /\ Goto("write")
  /\ UNCHANGED <<files, grant>>

CreateControl ==
  At("ensure") /\ cli.cmd = "provision" /\ cli.g \in ControlGens /\ CreateRoles

CreateRuntime ==
  At("ensure") /\ cli.cmd = "provision" /\ cli.g \in WorkerGens /\ CreateRoles

\* A complete generation is a member again, and must log in.
Confirm ==
  /\ member' = EnsureStable(cli.g, Accepted(cli.g) \cup {cli.g})
  /\ Goto(IF role[cli.g] = "login" THEN "ok" ELSE "failed")
  /\ UNCHANGED <<role, files, grant>>

ConfirmControl ==
  At("ensure") /\ cli.cmd = "confirm" /\ cli.g \in ControlGens /\ Confirm

\* _converge_existing_generation
ConfirmRuntime ==
  At("ensure") /\ cli.cmd = "confirm" /\ cli.g \in WorkerGens /\ Confirm

\* The others stay members; a provision that led here fails.
ConvergeOthers ==
  /\ member' = EnsureStable(cli.g, Accepted(cli.g) \ {cli.g})
  /\ Goto(IF cli.cmd = "revoke" THEN "ok" ELSE "failed")
  /\ UNCHANGED <<role, files, grant>>

\* _quarantine_control_generation, after an interrupted generation was found.
ConvergeControl ==
  At("ensure") /\ cli.cmd \in {"expel", "revoke"} /\ cli.g \in ControlGens /\ ConvergeOthers

\* _converge_members_after_quarantine
ConvergeRuntime ==
  /\ At("ensure") /\ cli.cmd \in {"expel", "retire", "revoke"} /\ cli.g \in WorkerGens
  /\ ConvergeOthers

\* write_secure_files: one file after the other.
WriteFile ==
  /\ files' = [files EXCEPT ![cli.g] = IF @ = "none" THEN "some" ELSE "all"]
  /\ Goto(IF files[cli.g] = "none" THEN "write" ELSE "ok")
  /\ UNCHANGED <<role, member, grant>>

WriteFiles == At("write") /\ cli.g[1] # "marker" /\ WriteFile

\* _write_generation_credentials
WriteMarkerFiles == At("write") /\ cli.g[1] = "marker" /\ WriteFile

\* drop_login_roles, first transaction: sessions end before the role goes.
QuarantineRole ==
  /\ At("quarantine")
  /\ Quarantine({cli.g})
  /\ Goto("drop")
  /\ UNCHANGED <<files, grant>>

Dropped ==
  /\ role' = [role EXCEPT ![cli.g] = "none"]
  /\ member' = member \ {cli.g}
  /\ UNCHANGED <<files, grant>>

DropRole == At("drop") /\ cli.g[1] # "marker" /\ Dropped /\ Goto("unlink")

\* _revoke_roles: sessions and roles go in one transaction.
DropMarker ==
  At("drop") /\ cli.g[1] = "marker" /\ Dropped /\ Goto(IF cli.cmd = "undo" THEN "failed" ELSE "unlink")

\* remove_secure_files, then a scan after a revocation.
Unlink ==
  /\ At("unlink") /\ cli.g[1] # "marker"
  /\ files' = [files EXCEPT ![cli.g] = IF @ = "all" THEN "some" ELSE "none"]
  /\ Goto(IF files[cli.g] = "all" THEN "unlink"
          ELSE IF cli.cmd = "undo" THEN "failed" ELSE "scan")
  /\ UNCHANGED <<role, member, grant>>

\* _remove_generation_credentials; a failed provision unlinks before it drops.
UnlinkMarker ==
  /\ At("unlink") /\ cli.g[1] = "marker"
  /\ files' = [files EXCEPT ![cli.g] = IF @ = "all" THEN "some" ELSE "none"]
  /\ Goto(IF files[cli.g] = "all" THEN "unlink"
          ELSE IF cli.cmd = "undo" THEN "drop" ELSE "ok")
  /\ UNCHANGED <<role, member, grant>>

\* A statement or a write fails.  After the roles are made, a provision takes
\* them and the files back before it reports the error; the marker's drops the
\* roles even if its files stay.
CliFails ==
  /\ cli.step \notin {"idle", "ok", "failed"}
  /\ CASE At("write") -> Become("undo", IF cli.g[1] = "marker" THEN "unlink" ELSE "quarantine")
       [] At("unlink") /\ cli.cmd = "undo" /\ cli.g[1] = "marker" -> Goto("drop")
       [] OTHER -> Goto("failed")
  /\ UNCHANGED <<role, member, files, grant, erred>>

\* To validate a generation is to log in with its credentials.  A scan takes
\* any error of that for an invalid generation: it quarantines the one it could
\* not reach and goes on.
ScanErrs(unreached) ==
  /\ At("scan") /\ unreached \in Accepted(cli.g)
  /\ Quarantine((Scanned(cli.g) \ Accepted(cli.g)) \cup {unreached})
  /\ Goto("ensure")
  /\ erred' = erred \cup {unreached}
  /\ UNCHANGED <<files, grant>>

\* So does the check of a complete generation that is provisioned again.
CheckErrs ==
  /\ At("check") /\ cli.cmd = "provision" /\ cli.g[1] # "marker"
  /\ ValidControl(cli.g) \/ (cli.g \in WorkerGens /\ Reconstructed(cli.g))
  /\ Quarantine({cli.g}) /\ Become("expel", "scan")
  /\ erred' = erred \cup {cli.g}
  /\ UNCHANGED <<files, grant>>

CliErrs == CheckErrs \/ \E unreached \in Gens : ScanErrs(unreached)

CliMoves ==
  \/ ProvisionControl \/ ProvisionRuntime \/ ProvisionMarker
  \/ RevokeControl \/ RevokeRuntime \/ RevokeMarker
  \/ Scan \/ CreateControl \/ CreateRuntime
  \/ ConfirmControl \/ ConfirmRuntime \/ ConvergeControl \/ ConvergeRuntime
  \/ WriteFiles \/ WriteMarkerFiles \/ QuarantineRole \/ DropRole \/ DropMarker
  \/ Unlink \/ UnlinkMarker

\* A role that was dropped is forgotten.
CliStep == CliMoves /\ erred' = {g \in erred : role'[g] # "none"}
=============================================================================
