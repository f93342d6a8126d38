--------------------------- MODULE Startup_proofs ---------------------------
(* Proofs about the start-up.  The rules of validate are all that the        *)
(* assembly relies on, whatever the file and the environment set.            *)
EXTENDS Startup, TLAPS

\* The steps that only a configuration without a broken rule gets to.
Assembly == {"connect", "migrate", "vault", "keys", "settings",
             "exchange_verifier", "management_verifier", "running"}

\* No rule of validate is broken.
Sound == \A o \in DOMAIN config : ~Broken(o)

\* The inductive invariant: nothing is contacted up to the first step of the
\* assembly, errors end the start-up there, and what the assembly works with
\* has passed validate.
Reached ==
  /\ DOMAIN config = DOMAIN Defaults
  /\ errors # {} => failure = "Validation" /\ contacted = {}
  /\ stage \in {"load", "validate", "connect"} => contacted = {}
  /\ stage = "connect" => IsPostgres
  /\ stage \in Assembly => errors = {} /\ Sound
  /\ stage \in {"load", "validate"} => errors = {}

SuInv == SuTypeOK /\ Reached /\ NoLateConfigurationError

(* Nothing has happened before load_config. *)
LEMMA StartupInit == SuInit => SuInv
BY StartupAssumption
   DEF SuInit, SuInv, SuTypeOK, Reached, NoLateConfigurationError, Stages, Assembly, Errors

(* What the rules of validate say of the options that the assembly insists   *)
(* on (the checks of JwtletConfig::validate).                                *)
LEMMA SoundOptions ==
  ASSUME DOMAIN config = DOMAIN Defaults, Sound
  PROVE  /\ config["issuer"] # None
         /\ config["vault.url"] # None
         /\ config["vault.token"] # None \/ config["vault.token_file"] # None
         /\ config["k8s.api_server_url"] # None
         /\ config["k8s.cluster_issuer"] # None
         /\ config["token.client_audience"] # None
         /\ config["token.audience"] # None
         /\ IsPostgres => config["url"] # ""
         /\ IsPostgres => config["pool.sslmode"] \in VALID_SSL_MODES \cup {None}
<1>1. \A o \in Consulted : ~Broken(o)
  BY StartupAssumption DEF Sound
<1>2. ~Broken("issuer") /\ ~Broken("vault.url") /\ ~Broken("k8s.api_server_url")
  BY <1>1 DEF Consulted
<1>3. config["issuer"] # None /\ config["vault.url"] # None /\ config["k8s.api_server_url"] # None
  BY <1>2 DEF Broken, IsUrl
<1>4. ~Broken("vault.token")
  BY <1>1 DEF Consulted
<1>5. config["vault.token"] # None \/ config["vault.token_file"] # None
  BY <1>4 DEF Broken
<1>6. ~Broken("k8s.cluster_issuer") /\ ~Broken("token.client_audience") /\ ~Broken("token.audience")
  BY <1>1 DEF Consulted
<1>7. /\ config["k8s.cluster_issuer"] # None
      /\ config["token.client_audience"] # None
      /\ config["token.audience"] # None
  BY <1>6 DEF Broken
<1>8. ~Broken("url") /\ ~Broken("pool.sslmode")
  BY <1>1 DEF Consulted
<1>9. /\ IsPostgres => config["url"] # ""
      /\ IsPostgres => config["pool.sslmode"] \in VALID_SSL_MODES \cup {None}
  BY <1>8 DEF Broken
<1> QED
  BY <1>3, <1>5, <1>7, <1>9

(* A step of the assembly that leaves the configuration alone leaves its     *)
(* soundness alone.                                                          *)
LEMMA SoundSame == Sound /\ UNCHANGED config => Sound'
BY DEF Sound, Broken, IsUrl, IsPostgres

(* Every step of the start-up keeps the inductive invariant. *)
LEMMA StartupStep == SuInv /\ [SuNext]_svars => SuInv'
<1> SUFFICES ASSUME SuInv, [SuNext]_svars
             PROVE  SuInv'
  OBVIOUS
<1> USE StartupAssumption DEF SuInv, SuTypeOK, Reached, NoLateConfigurationError, Stages,
                              Assembly, Errors, Go, Fail, host
<1>1. CASE load_config
  <2>1. DOMAIN config' = DOMAIN Defaults
    <3>1. \/ \E f \in Files, e \in Environments :
               config' = Override(Override(Defaults, f), e)
          \/ config' = config
      BY <1>1, Zenon DEF load_config
    <3>2. CASE \E f \in Files, e \in Environments :
                 config' = Override(Override(Defaults, f), e)
      <4>1. PICK f \in Files, e \in Environments :
                   config' = Override(Override(Defaults, f), e)
        BY <3>2
      <4>2. DOMAIN Override(Override(Defaults, f), e) = DOMAIN Defaults
        BY DEF Override
      <4> QED
        BY <4>1, <4>2
    <3>3. CASE config' = config
      BY <3>3
    <3> QED
      BY <3>1, <3>2, <3>3
  <2> QED
    BY <1>1, <2>1 DEF load_config
<1>2. CASE validate
  <2>1. errors' \subseteq DOMAIN Defaults
    BY <1>2 DEF validate
  <2>2. CASE errors' = {}
    <3>1. Sound'
      BY <1>2, <2>2, SoundSame DEF validate, Sound
    <3> QED
      BY <1>2, <2>2, <3>1 DEF validate, IsPostgres
  <2>3. CASE errors' # {}
    BY <1>2, <2>1, <2>3 DEF validate
  <2> QED
    BY <2>2, <2>3
<1>3. CASE connect_postgres
  <2>1. Sound /\ IsPostgres /\ errors = {} /\ contacted = {}
    BY <1>3 DEF connect_postgres
  <2>2. config["url"] # "" /\ config["pool.sslmode"] \in VALID_SSL_MODES \cup {None}
    BY <2>1, SoundOptions
  <2>3. Sound'
    BY <1>3, <2>1, SoundSame DEF connect_postgres
  <2> QED
    BY <1>3, <2>1, <2>2, <2>3
       DEF connect_postgres, Refused, Contact, parse_ssl_mode, VALID_SSL_MODES, IsPostgres
<1>4. CASE initialize_schema
  <2>1. Sound /\ errors = {}
    BY <1>4 DEF initialize_schema
  <2>2. Sound'
    BY <1>4, <2>1, SoundSame DEF initialize_schema
  <2> QED
    BY <1>4, <2>1, <2>2 DEF initialize_schema, Contact, IsPostgres
<1>5. CASE create_vault_client
  <2>1. Sound /\ errors = {}
    BY <1>5 DEF create_vault_client
  <2>2. /\ config["vault.url"] # None
        /\ config["vault.token"] # None \/ config["vault.token_file"] # None
    BY <2>1, SoundOptions
  <2>3. Sound'
    BY <1>5, <2>1, SoundSame DEF create_vault_client
  <2> QED
    BY <1>5, <2>1, <2>2, <2>3 DEF create_vault_client, IsPostgres
<1>6. CASE create_key_resolver
  <2>1. Sound /\ errors = {}
    BY <1>6 DEF create_key_resolver
  <2>2. Sound'
    BY <1>6, <2>1, SoundSame DEF create_key_resolver
  <2> QED
    BY <1>6, <2>1, <2>2 DEF create_key_resolver, Contact, IsPostgres
<1>7. CASE assemble
  <2>1. Sound /\ errors = {}
    BY <1>7 DEF assemble
  <2>2. /\ config["token.client_audience"] # None
        /\ config["token.audience"] # None
        /\ config["issuer"] # None
    BY <2>1, SoundOptions
  <2>3. Sound'
    BY <1>7, <2>1, SoundSame DEF assemble
  <2> QED
    BY <1>7, <2>1, <2>2, <2>3 DEF assemble, IsPostgres
<1>8. CASE create_k8s_verifier
  <2>1. Sound /\ errors = {}
    BY <1>8 DEF create_k8s_verifier
  <2>2. config["k8s.api_server_url"] # None /\ config["k8s.cluster_issuer"] # None
    BY <2>1, SoundOptions
  <2>3. Sound'
    BY <1>8, <2>1, SoundSame DEF create_k8s_verifier
  <2> QED
    BY <1>8, <2>1, <2>2, <2>3 DEF create_k8s_verifier, Refused, Contact, IsPostgres
<1>9. CASE UNCHANGED svars
  <2>1. Sound => Sound'
    BY <1>9, SoundSame DEF svars
  <2>2. UNCHANGED <<stage, config, errors, failure, contacted, cluster_ca, http_client>>
    BY <1>9 DEF svars
  <2> HIDE DEF Stages, Assembly, Errors
  <2>3. SuTypeOK' /\ NoLateConfigurationError'
    BY <2>2 DEF IsPostgres
  <2>4. Reached'
    BY <2>1, <2>2 DEF IsPostgres
  <2> QED
    BY <2>3, <2>4
<1> QED
  BY <1>1, <1>2, <1>3, <1>4, <1>5, <1>6, <1>7, <1>8, <1>9 DEF SuNext

(* The start-up never leaves the inductive invariant. *)
LEMMA StartupInvariant == SuSpec => []SuInv
BY StartupInit, StartupStep, PTL DEF SuSpec

(* The start-up keeps to its types, and ends with a reason exactly when it   *)
(* fails.                                                                    *)
THEOREM StartupTypeCorrect == SuSpec => []SuTypeOK
<1>1. SuInv => SuTypeOK
  BY DEF SuInv
<1> QED
  BY <1>1, StartupInvariant, PTL

(* With a broken rule nothing outside the process is touched, for every      *)
(* configuration file and environment (validate before the assembly).        *)
THEOREM AlwaysFailsFast == SuSpec => []FailFast
<1>1. SuInv => FailFast
  BY DEF SuInv, Reached, FailFast
<1> QED
  BY <1>1, StartupInvariant, PTL

(* What passes validate lacks nothing that the assembly insists on later: a  *)
(* late configuration error comes from a Postgres URL that does not parse,   *)
(* before anything is contacted, or from the host: a CA certificate of the   *)
(* cluster that is none, or an HTTP client that cannot be built.             *)
THEOREM ConfigurationNeverLate == SuSpec => []NoLateConfigurationError
<1>1. SuInv => NoLateConfigurationError
  BY DEF SuInv
<1> QED
  BY <1>1, StartupInvariant, PTL
=============================================================================
