------------------------------ MODULE Startup -------------------------------
(* From the configuration to a running server: load_config, validate, and    *)
(* the assembly of the runtime step by step, each of which can fail.  An     *)
(* option is present or absent (None), and its value is what the checks look *)
(* at: whether a URL parses, which scheme it has, whether a path exists.     *)
EXTENDS Integers

CONSTANTS
  Files,         \* what the configuration file can set
  Environments,  \* what JWTLET__* variables can set
  Defaults,      \* of every option
  MAX_TOKEN_TTL_SECS,
  None

VARIABLES
  stage,      \* the next step
  config,     \* option -> value
  errors,     \* what validate has reported
  failure,    \* why the start-up has ended
  contacted,  \* services and files it has touched
  cluster_ca, \* the CA certificate of the cluster
  http_client \* whether one can be built on this host

host == <<cluster_ca, http_client>>
svars == <<stage, config, errors, failure, contacted, host>>

VALID_SSL_MODES == {"disable", "prefer", "require", "verify-ca", "verify-full"}
Stages == {"load", "validate", "connect", "migrate", "vault", "keys",
           "settings", "exchange_verifier", "management_verifier", "running", "failed"}
Errors == {"Load", "Validation", "Configuration", "Database", "Vault", "Verifier", "Io"}

\* The options without which a step of the start-up cannot be stated.
Consulted == {"storage_backend", "url", "pool.sslmode", "vault.url", "vault.token",
              "vault.token_file", "token.client_audience", "token.audience", "issuer",
              "k8s.api_server_url", "k8s.cluster_issuer"}

ASSUME StartupAssumption ==
  /\ Consulted \subseteq DOMAIN Defaults
  /\ None \notin Errors

(* The variables range over their types. *)
SuTypeOK ==
  /\ stage \in Stages
  /\ DOMAIN config \subseteq DOMAIN Defaults
  /\ errors \subseteq DOMAIN Defaults
  /\ failure \in Errors \cup {None}
  /\ (stage = "failed") = (failure # None)
  /\ contacted \subseteq {"postgres", "schema", "token file", "vault", "sa token"}
  /\ cluster_ca \in {"absent", "valid", "invalid"} /\ http_client \in {"builds", "fails"}

-----------------------------------------------------------------------------
(* The later of two sources wins. *)
Override(base, over) ==
  [o \in DOMAIN base |-> IF o \in DOMAIN over THEN over[o] ELSE base[o]]

SuInit ==
  /\ stage = "load"
  /\ config = Defaults
  /\ errors = {} /\ failure = None /\ contacted = {}
  /\ cluster_ca \in {"absent", "valid", "invalid"} /\ http_client \in {"builds", "fails"}

\* Mutant: the reason of a failure is swallowed.
FailSilently(error) == stage' = "failed" /\ UNCHANGED failure

Fail(error) == stage' = "failed" /\ failure' = error

Go(next) == stage' = next /\ UNCHANGED failure

(* The variables of the environment go over the file, the file over the      *)
(* defaults.  It fails when the file cannot be read, a value does not have   *)
(* its type, or the Postgres backend has no URL.                             *)
load_config ==
  /\ stage = "load"
  /\ \/ /\ \E f \in Files, e \in Environments :
             config' = Override(Override(Defaults, f), e)
        /\ IF config'["storage_backend"] = "postgres" /\ config'["url"] = None
           THEN Fail("Load")
           ELSE Go("validate")
     \/ Fail("Load") /\ UNCHANGED config
  /\ UNCHANGED <<errors, contacted, host>>

-----------------------------------------------------------------------------
IsPostgres == config["storage_backend"] = "postgres"

IsUrl(o) == config[o] \notin {None, "unparsable"}

(* Whether the rule that validate has for an option is broken. *)
Broken(o) ==
  \/ o \in {"issuer", "vault.url", "k8s.api_server_url"} /\ ~IsUrl(o)
  \/ o = "k8s.api_server_url" /\ config[o] = "http"
  \/ o = "vault.token" /\ config[o] = None /\ config["vault.token_file"] = None
  \/ o \in {"k8s.cluster_issuer", "token.client_audience", "token.audience"} /\ config[o] = None
  \/ o \in {"k8s.token_file", "token.participant_context_claim"} /\ config[o] = ""
  \/ o = "token.token_ttl_secs" /\ (config[o] <= 0 \/ config[o] > MAX_TOKEN_TTL_SECS)
  \/ o \in {"token_exchange_port", "management_port"} /\ config[o] = 0
  \/ o = "management_port" /\ config[o] = config["token_exchange_port"]
  \/ /\ IsPostgres
     /\ \/ o = "url" /\ config[o] = ""
        \/ o = "pool.max_connections" /\ config[o] = 0
        \/ /\ o = "pool.min_connections"
           /\ config[o] # None /\ config["pool.max_connections"] # None
           /\ config[o] > config["pool.max_connections"]
        \/ o = "pool.acquire_timeout" /\ config[o] = 0
        \/ o = "pool.sslmode" /\ config[o] \notin VALID_SSL_MODES \cup {None}
        \/ o = "pool.ssl_root_cert" /\ config[o] = "missing"

\* Mutant: only rules about values are kept, an absent option passes.
LaxValidate ==
  /\ stage = "validate"
  /\ errors' = {o \in DOMAIN config : config[o] # None /\ Broken(o)}
  /\ IF errors' = {} THEN Go(IF IsPostgres THEN "connect" ELSE "vault")
                     ELSE Fail("Validation")
  /\ UNCHANGED <<config, contacted, host>>

\* Mutant: what validate finds is logged, and the start-up goes on.
ValidateAndGoOn ==
  /\ stage = "validate"
  /\ errors' = {o \in DOMAIN config : Broken(o)}
  /\ Go(IF IsPostgres THEN "connect" ELSE "vault")
  /\ UNCHANGED <<config, contacted, host>>

(* All errors are collected before the start-up ends with them. *)
validate ==
  /\ stage = "validate"
  /\ errors' = {o \in DOMAIN config : Broken(o)}
  /\ IF errors' = {} THEN Go(IF IsPostgres THEN "connect" ELSE "vault")
                     ELSE Fail("Validation")
  /\ UNCHANGED <<config, contacted, host>>

-----------------------------------------------------------------------------
(* A call of a service, which goes on to the next step or fails. *)
Contact(service, next, error) ==
  /\ contacted' = contacted \cup {service}
  /\ Go(next) \/ Fail(error)

Refused == Fail("Configuration") /\ UNCHANGED contacted

parse_ssl_mode(mode) ==
  mode \in {"disable", "prefer", "require", "verify-ca", "verify-full"}

(* assemble_postgres and build_connect_options. *)
connect_postgres ==
  /\ stage = "connect"
  /\ IF \/ config["url"] \in {"", "unparsable"}
        \/ config["pool.sslmode"] # None /\ ~parse_ssl_mode(config["pool.sslmode"])
     THEN Refused
     ELSE Contact("postgres", "migrate", "Database")
  /\ UNCHANGED <<config, errors, host>>

initialize_schema ==
  /\ stage = "migrate"
  /\ IF config["pool.run_migrations_on_startup"] \in {None, TRUE}
     THEN Contact("schema", "vault", "Database")
     ELSE Go("vault") /\ UNCHANGED contacted
  /\ UNCHANGED <<config, errors, host>>

(* A literal token is written to a private file first. *)
create_vault_client ==
  /\ stage = "vault"
  /\ LET literal == config["vault.token_file"] = None IN
     IF config["vault.url"] = None \/ (literal /\ config["vault.token"] = None)
     THEN Refused
     ELSE \/ literal /\ Fail("Io") /\ UNCHANGED contacted
          \/ /\ contacted' = contacted \cup {"vault"}
                               \cup (IF literal THEN {"token file"} ELSE {})
             /\ Go("keys") \/ Fail("Vault")
  /\ UNCHANGED <<config, errors, host>>

create_key_resolver ==
  /\ stage = "keys"
  /\ Contact("vault", "settings", "Verifier")
  /\ UNCHANGED <<config, errors, host>>

assemble ==
  /\ stage = "settings"
  /\ IF None \in {config["token.client_audience"], config["token.audience"], config["issuer"]}
     THEN Refused
     ELSE Go("exchange_verifier") /\ UNCHANGED contacted
  /\ UNCHANGED <<config, errors, host>>

(* Once for the exchange and once for the management API.  A certificate     *)
(* that is there has to be readable, and the client has to be buildable.     *)
create_k8s_verifier ==
  /\ stage \in {"exchange_verifier", "management_verifier"}
  /\ IF None \in {config["k8s.api_server_url"], config["k8s.cluster_issuer"]}
     THEN Refused
     ELSE \/ cluster_ca # "absent" /\ Fail("Io") /\ UNCHANGED contacted
          \/ (cluster_ca = "invalid" \/ http_client = "fails") /\ Refused
          \/ /\ cluster_ca # "invalid" /\ http_client = "builds"
             /\ Contact("sa token",
                        IF stage = "exchange_verifier" THEN "management_verifier" ELSE "running",
                        "Verifier")
  /\ UNCHANGED <<config, errors, host>>

SuNext ==
  \/ load_config \/ validate \/ connect_postgres \/ initialize_schema
  \/ create_vault_client \/ create_key_resolver \/ assemble \/ create_k8s_verifier

SuSpec == SuInit /\ [][SuNext]_svars

-----------------------------------------------------------------------------
(* "fail fast before starting any services": with a configuration that       *)
(* breaks a rule, nothing outside the process is touched.                    *)
FailFast == errors # {} => contacted = {}

(* The rules of validate cover what the assembly insists on much later: the  *)
(* configuration is the reason of a failure of the assembly only when the    *)
(* Postgres URL, of which validate checks the presence, does not parse,      *)
(* which is found before anything is contacted, or, which is no fault of the *)
(* configuration, when the cluster's CA certificate is no certificate or no  *)
(* HTTP client can be built on the host.                                     *)
NoLateConfigurationError ==
  failure = "Configuration" =>
    \/ IsPostgres /\ config["url"] = "unparsable" /\ contacted = {}
    \/ cluster_ca = "invalid" \/ http_client = "fails"
=============================================================================
