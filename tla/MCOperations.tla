---------------------------- MODULE MCOperations ----------------------------
(***************************************************************************)
(* Instances of the components an operator works with: the commands that   *)
(* change the configuration, the clients' files, the installed release,    *)
(* the backups and the deployment; the upkeep of the database; and the     *)
(* reports on the server's state.                                          *)
(*                                                                         *)
(* The components share no variable, so a behaviour runs one of them       *)
(* (part), from each of its initial states, while the others rest in one   *)
(* of theirs.  The upkeep runs in two parts, because its two kinds of rows *)
(* meet only in the transaction gate: usage metrics, and retention.        *)
(***************************************************************************)
EXTENDS ConfigMutation, ConnectTransaction, UpdateTransition, BackupRestore,
        IntegrationLifecycle, ConfigEdit, Deployment, ConfigAssembly,
        DatabaseMaintenance, StatusView

CONSTANT Parts    \* the components this instance runs

VARIABLE part

-----------------------------------------------------------------------------
(* Constants.                                                              *)

\* Documents of "eggpool config": two providers with an account each, one
\* provider without an account, and an API key taken from the environment.
ProviderBlock(p) == Block(Provider(p), One("id", p))
AccountBlock(p, n, k) == Block(AccountTable(p), AccountKeys(<<p, n>>, k))
ServerBlock == Block(Server, One("port", <<"1">>))
MCLayouts ==
    {<<ServerBlock, ProviderBlock("x"), AccountBlock("x", 1, "k1"),
       Block(AuthTable("x"), One("mode", <<"bearer">>)), ProviderBlock("y"), AccountBlock("y", 2, "k2")>>,
     <<ServerBlock, ProviderBlock("x"), ProviderBlock("y"), AccountBlock("y", 1, "k2"),
       Block(Dashboard, One("public", <<"false">>))>>,
     <<Block(Server, One("port", <<"1">>) @@ One("api_key_env", <<"E">>))>>}
MCSettings == {<<"1">>, <<"2">>}

\* Configurations a server may start with or reload: two that differ in
\* accounts and in provider, one of the old form, a router policy past the
\* size compiled, an unresolved proxy, and two that do not validate.
MCAccount(n, key, env, on) ==
    [DefaultAccount EXCEPT !.name = n, !.api_key = key, !.api_key_env = env, !.enabled = on]
MCOn(p, accounts) ==
    [DefaultConfig EXCEPT !.providers = [i \in {p} |-> [DefaultProvider EXCEPT !.id = p, !.accounts = accounts]]]
MCRouter(size) ==
    [DefaultRouter EXCEPT !.selector = "m1", !.default = "m1",
                          !.routes = [label \in {"fast"} |-> "m1"], !.size = size]
MCBoth == MCOn("p1", <<MCAccount("a", "k1", "", TRUE), MCAccount("b", "", "KEY", TRUE)>>)
MCDocuments ==
    {MCBoth,
     [MCOn("p2", <<MCAccount("a", "k1", "", TRUE), MCAccount("c", "k3", "", FALSE)>>)
        EXCEPT !.models.refresh_interval_s = 0, !.backup.enabled = TRUE, !.backup.interval_s = 0],
     [DefaultConfig EXCEPT !.accounts = <<MCAccount("b", "k2", "", TRUE)>>],
     [MCOn("p1", <<MCAccount("c", "k3", "", TRUE)>>) EXCEPT !.routers = [v \in {"auto"} |-> MCRouter(65537)]],
     [MCOn("p1", <<[MCAccount("c", "k3", "", TRUE) EXCEPT !.proxy_url_env = "PROXY"]>>)
        EXCEPT !.routers = [v \in {"auto"} |-> MCRouter(64)]],
     [MCBoth EXCEPT !.server.port = 0],
     [MCBoth EXCEPT !.metrics.cleanup_interval_s = 0]}
MCSurroundings == {{}, {"KEY"}}

\* Two accounts of one provider; the second has no credential yet.
MCAccountProvider == [a \in StatusAccounts |-> "p1"]
MCAccountLayouts == {[a \in StatusAccounts |-> [enabled |-> TRUE, credentials |-> a = "a1"]]}

-----------------------------------------------------------------------------
suiteVars == <<part, mutationVars, connectVars, updateVars, backupVars, integrationVars, editVars,
               deploymentVars, assemblyVars, maintenanceVars, statusVars>>

Init ==
    /\ part \in Parts
    /\ DeploymentInit /\ AssemblyInit /\ MaintenanceInit /\ StatusInit
    /\ MutationInit /\ (part = "mutation" \/ file = (CHOOSE c \in Configs : TRUE))
    /\ ConnectInit /\ (part = "connect" \/ config = NoFile)
    /\ UpdateInit /\ (part = "update" \/ /\ install.owner = (CHOOSE o \in InstallOwners : TRUE)
                                         /\ install.exec = (CHOOSE r \in Releases : TRUE)
                                         /\ ~service.up /\ ~service.systemd /\ updlock = "none")
    /\ BackupInit /\ (part = "backup" \/ live.env = 1)
    /\ IntegrationInit /\ (part = "integration" \/ /\ client = "codex"
                                                   /\ \A p \in ClientPaths : parents[p].blank)
    /\ EditInit /\ (part = "edit" \/ document = (CHOOSE d \in Layouts : TRUE))
    /\ suiteVars = suiteVars     \* has TLC enumerate the values the view leaves out

\* Only the component that runs takes steps.
Next ==
    /\ UNCHANGED part
    /\ IF part = "mutation" THEN MutationNext ELSE UNCHANGED mutationVars
    /\ IF part = "connect" THEN ConnectNext ELSE UNCHANGED connectVars
    /\ IF part = "update" THEN UpdateNext ELSE UNCHANGED updateVars
    /\ IF part = "backup" THEN BackupNext ELSE UNCHANGED backupVars
    /\ IF part = "integration" THEN IntegrationNext ELSE UNCHANGED integrationVars
    /\ IF part = "edit" THEN EditNext ELSE UNCHANGED editVars
    /\ IF part = "deployment" THEN DeploymentNext ELSE UNCHANGED deploymentVars
    /\ IF part = "assembly" THEN AssemblyNext ELSE UNCHANGED assemblyVars
    /\ CASE part = "usage" -> MaintenanceNext /\ UNCHANGED retentionVars
         [] part = "retention" -> MaintenanceNext /\ UNCHANGED metricsVars
         [] OTHER -> UNCHANGED maintenanceVars
    /\ IF part = "status" THEN StatusNext ELSE UNCHANGED statusVars

\* The view of the model checker: what rests never changes, and tells no
\* states apart.
Running ==
    <<part, CASE part = "mutation" -> mutationVars [] part = "connect" -> connectVars
              [] part = "update" -> updateVars [] part = "backup" -> backupVars
              [] part = "integration" -> integrationVars [] part = "edit" -> editVars
              [] part = "deployment" -> deploymentVars [] part = "assembly" -> assemblyVars
              [] part = "status" -> statusVars [] OTHER -> maintenanceVars>>

Spec == Init /\ [][Next]_suiteVars
=============================================================================
