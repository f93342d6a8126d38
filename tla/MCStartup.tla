----------------------------- MODULE MCStartup ------------------------------
(* Configurations around one that is good, with one option changed in the    *)
(* file and one in the environment.                                          *)
EXTENDS Startup, TLC

MCDefaults ==
  [o \in {"issuer", "vault.url", "vault.token", "vault.token_file",
          "k8s.api_server_url", "k8s.cluster_issuer", "token.client_audience",
          "token.audience", "url", "pool.max_connections", "pool.min_connections",
          "pool.acquire_timeout", "pool.sslmode", "pool.ssl_root_cert",
          "pool.run_migrations_on_startup"} |-> None]
  @@ ("k8s.token_file" :> "path") @@ ("token.participant_context_claim" :> "jwtlet_pc")
  @@ ("token.token_ttl_secs" :> 3600)
  @@ ("token_exchange_port" :> 8080) @@ ("management_port" :> 8081)
  @@ ("storage_backend" :> "memory")

Good ==
  ("issuer" :> "https") @@ ("vault.url" :> "https") @@ ("vault.token_file" :> "path")
  @@ ("k8s.api_server_url" :> "https") @@ ("k8s.cluster_issuer" :> "https")
  @@ ("token.client_audience" :> "jwtlet") @@ ("token.audience" :> "edc")
  @@ ("storage_backend" :> "postgres") @@ ("url" :> "parsable")

(* The values that some check tells apart. *)
Choices ==
  [o \in {"issuer", "vault.url", "k8s.api_server_url"} |-> {"https", "http", "unparsable"}]
  @@ [o \in {"vault.token", "vault.token_file", "k8s.cluster_issuer",
             "token.client_audience", "token.audience"} |-> {"set"}]
  @@ [o \in {"k8s.token_file", "token.participant_context_claim"} |-> {"", "set"}]
  @@ ("token.token_ttl_secs" :> {-1, 0, 1, 86400, 86401})
  @@ ("token_exchange_port" :> {0, 8081}) @@ ("management_port" :> {0, 8080})
  @@ ("storage_backend" :> {"memory"}) @@ ("url" :> {"", "unparsable"})
  @@ ("pool.max_connections" :> {0, 5, 11}) @@ ("pool.min_connections" :> {0, 5, 11})
  @@ ("pool.acquire_timeout" :> {0, 1})
  @@ ("pool.sslmode" :> {"disable", "verify-full", "on"})
  @@ ("pool.ssl_root_cert" :> {"missing", "present"})
  @@ ("pool.run_migrations_on_startup" :> {TRUE, FALSE})

Settings == UNION {{o :> v : v \in Choices[o]} : o \in DOMAIN Choices}

Without(o) == [p \in DOMAIN Good \ {o} |-> Good[p]]

MCFiles == {Good} \cup {s @@ Good : s \in Settings} \cup {Without(o) : o \in DOMAIN Good}

MCEnvironments == {<<>>} \cup Settings
=============================================================================
