------------------------------- MODULE Policy -------------------------------
(***************************************************************************)
(* Which workflow may use which deployment: config.Validate, policy.New    *)
(* and Policy.Authorise (src/internal/config/validation.go,                *)
(* src/internal/policy/policy.go).  A configuration is the default for     *)
(* job_workflow_ref and a sequence of deployments.  Repository and         *)
(* environment are compared alike: both are scope here.  Rules on the form *)
(* of single values are left out.                                          *)
(***************************************************************************)
EXTENDS Naturals

CONSTANT None   \* an absent claim, an optional setting that is not given

Names(config)    == [i \in DOMAIN config.deployments |-> config.deployments[i].name]
Services(config) == [i \in DOMAIN config.deployments |-> config.deployments[i].service]

Distinct(values) == \A i, j \in DOMAIN values : values[i] = values[j] => i = j

ValidIfServicesDiffer(config) ==   \* mutant: names may be used twice
  config.deployments # <<>> /\ Distinct(Services(config))

Valid(config) ==
  /\ config.deployments # <<>>
  /\ Distinct(Names(config))
  /\ Distinct(Services(config))

(* policy.New: the last deployment of a name stays in the map, with the      *)
(* default filled in.                                                        *)
Policy(config) ==
  LET names == Names(config)
      last(name) == CHOOSE i \in DOMAIN names :
        names[i] = name /\ \A j \in DOMAIN names : names[j] = name => j <= i
  IN  [name \in {names[i] : i \in DOMAIN names} |->
         [config.deployments[last(name)] EXCEPT !.job = IF @ = None THEN config.job ELSE @]]

(* A workflow that calls no reusable one presents itself as the job's, or    *)
(* no job_workflow_ref at all.                                               *)
MatchesJobWorkflow(expected, claims) ==
  IF expected # None THEN claims.job = expected
                     ELSE claims.job = None \/ claims.job = claims.workflow

Matches(deployment, claims) ==
  /\ MatchesJobWorkflow(deployment.job, claims)
  /\ claims.scope = deployment.scope
  /\ claims.workflow = deployment.workflow

Authorised(policy, name, claims) ==
  name \in DOMAIN policy /\ Matches(policy[name], claims)
=============================================================================
