----------------------------- MODULE NginxProxy -----------------------------
(***************************************************************************)
(* proxy.go: the nginx_proxy_configurations table, the files CreateProxy   *)
(* writes for a domain, and the routes of the running nginx (external).    *)
(***************************************************************************)
EXTENDS DeploymentTable

VARIABLES
  nginxConfigs,  \* the row reserved for each deployment, by the deployment
  certs,         \* <domain>.cer: whose key pair it holds, 0 when no file
  keys,          \* <domain>.key: likewise
  sites,         \* MDS-<domain>.conf: the destination port, None: no file
  routes         \* what the running nginx serves, after its last reload

proxyVars == <<nginxConfigs, certs, keys, sites, routes>>
fileVars  == <<certs, keys, sites>>

(* One createDeployment reserves exactly one row, so rows are indexed by   *)
(* the deployment that asked for them; the row itself names its deployment *)
(* only through the column deploymentID.                                   *)
NginxConfig ==
  [ row          : {"absent", "live", "deleted"},
    domainName   : Domains \cup {None},
    deploymentID : 0..MaxId ]

ProxyInit ==
  /\ nginxConfigs =
       [id \in Ids |->
          [row |-> "absent", domainName |-> None, deploymentID |-> 0]]
  /\ certs = [d \in Domains |-> 0]
  /\ keys = [d \in Domains |-> 0]
  /\ sites = [d \in Domains |-> None]
  /\ routes = [d \in Domains |-> None]

-----------------------------------------------------------------------------

LiveConfigs == {id \in Ids : nginxConfigs[id].row = "live"}

(* Slip: the name is looked for among the live deployments.                *)
IsDomainNameUnique_Deployments(d) == \A id \in live : deployments[id].url # d

IsDomainNameUnique(d) == \A id \in LiveConfigs : nginxConfigs[id].domainName # d

(* The insert of ReserveDomainName.  createDeployment sets DeploymentID on *)
(* its copy only after this, and nothing saves the copy again: the column  *)
(* keeps its zero value.                                                   *)
InsertConfig(id, d) ==
  /\ nginxConfigs' =
       [nginxConfigs EXCEPT ![id] =
          [row |-> "live", domainName |-> d, deploymentID |-> 0]]
  /\ UNCHANGED <<certs, keys, sites, routes>>

(* DeleteProxyConfiguration.  Its query names a column that does not exist *)
(* ("DomainName", the table has domain_name), so the lookup fails with an  *)
(* SQL error that is not ErrRecordNotFound and the early return is not     *)
(* taken; the struct is still blank, so no file is removed, and db.Delete  *)
(* with a zero primary key has no condition on id: every row goes.         *)
DeleteProxyConfiguration ==
  /\ nginxConfigs' =
       [id \in Ids |->
          IF nginxConfigs[id].row = "live"
          THEN [nginxConfigs[id] EXCEPT !.row = "deleted"]
          ELSE nginxConfigs[id]]
  /\ UNCHANGED <<certs, keys, sites, routes>>

(* The files CreateProxy writes, in this order.  A key pair is identified  *)
(* by the deployment it was generated for.                                 *)
WriteCertificateToFile(d, pair) ==
  certs' = [certs EXCEPT ![d] = pair] /\ UNCHANGED <<nginxConfigs, keys, sites, routes>>

WritePrivateKeyToFile(d, pair) ==
  keys' = [keys EXCEPT ![d] = pair] /\ UNCHANGED <<nginxConfigs, certs, sites, routes>>

WriteSite(d, port) ==
  sites' = [sites EXCEPT ![d] = port] /\ UNCHANGED <<nginxConfigs, certs, keys, routes>>

(* nginx refuses a configuration with a site whose certificate or key is   *)
(* missing, or whose key does not belong to the certificate, and goes on   *)
(* with the configuration it has.                                          *)
HasKeyPair(d) == certs[d] # 0 /\ certs[d] = keys[d]
ConfigValid == \A d \in Domains : sites[d] # None => HasKeyPair(d)

ApplyChanges ==
  /\ ConfigValid
  /\ routes' = sites
  /\ UNCHANGED <<nginxConfigs, certs, keys, sites>>

=============================================================================
