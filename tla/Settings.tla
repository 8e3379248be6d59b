------------------------------ MODULE Settings ------------------------------
(***************************************************************************)
(* Where a process takes its settings from (config.rs, AppState::open):    *)
(* the shell, .env.local, .env, the template .env.example, config.json.    *)
(* Files are edited between the starts of the process, and a start may     *)
(* itself write .env, or fail to.  A value is known by where it was first  *)
(* written.                                                                *)
(***************************************************************************)
EXTENDS Naturals, FiniteSets, Functions

CONSTANTS
  Variables,     \* names of environment variables
  Secret,        \* JWT_SECRET
  Modes,         \* NODE_ENV and ENV
  Referenced,    \* the variable that config.json's connection string names
  MaxEdits       \* bound on the edits

Files == {"env", "local", "example"}

\* Values: "shell" is a long secret; "short" is one too short, or cut short; a variable set
\* from a file has the name of the file it was written in, "linked" when that is behind a
\* link.  Of Modes, "short" and the template's value are not production, the others are.
Undefined == "undefined"

VARIABLES
  shell,       \* the variables the process is started with
  kindOf,      \* kindOf[f]: "absent", "regular" or "link"
  holds,       \* holds[f]: the definitions in file f
  config,      \* config.json: "absent", "malformed", "plain", "templated", "other"
  process,     \* "down", "refused", "up"
  environment, \* std::env of the process
  unread,      \* the files that it could not make ready, or not read
  database,    \* where its database is
  edits

settingsVars ==
  <<shell, kindOf, holds, config, process, environment, unread, database, edits>>

None == [v \in {} |-> Undefined]

Written(S, value) == [v \in S |-> value]

\* A map that prefers the definitions of g.
Extended(f, g) == [v \in DOMAIN f \cup DOMAIN g |-> IF v \in DOMAIN g THEN g[v] ELSE f[v]]

\* is_prod().
IsProd(env) == \E mode \in Modes \cap DOMAIN env : env[mode] \notin {"short", "example"}

-----------------------------------------------------------------------------
\* ensure_regular_env_file(): what becomes of .env.  A regular file stays.  A link is
\* removed, or that fails; then the template is copied, or it is not there, not read or no
\* file can be made, or the writing fails: what was written stays, its last definition
\* perhaps cut short.
EnvFile(kind, definitions, ready) ==
  [kind |-> kind, definitions |-> definitions, ready |-> ready]

TornCopies ==
  {Extended(Written(S, "short"), Restrict(holds["example"], T)) :
     S \in {cut \in SUBSET DOMAIN holds["example"] : Cardinality(cut) <= 1},
     T \in SUBSET DOMAIN holds["example"]}

EnvFiles ==
  IF kindOf["env"] = "regular" THEN {EnvFile("regular", holds["env"], TRUE)}
  ELSE {EnvFile("absent", None, FALSE)}
       \cup (IF kindOf["env"] = "link" THEN {EnvFile("link", holds["env"], FALSE)} ELSE {})
       \cup (IF kindOf["example"] = "absent" THEN {}
             ELSE {EnvFile("regular", holds["example"], TRUE)}
                  \cup {EnvFile("regular", copy, FALSE) : copy \in TornCopies})

\* parse_env_file(): nothing is read from an absent file, a link or one that cannot be read.
Parsed(kind, definitions, readable) ==
  IF kind = "regular" /\ readable THEN definitions ELSE None

\* Plausible bug: the files overwrite what the shell has set.
FilesOverShell(files) == Extended(shell, files)

\* load_local_env(): a variable that is set stays.
LoadOver(files) == Extended(files, shell)

\* resolve_env_placeholders(): an undefined variable leaves its placeholder.
Resolved(env) == IF Referenced \in DOMAIN env THEN env[Referenced] ELSE "placeholder"

\* load_config(): the defaults, unless config.json can be used.
Database(env) ==
  CASE config = "templated" -> Resolved(env)
    [] config = "plain" -> "configured"
    [] config = "other" -> "not_sqlite"
    [] OTHER -> "default"

\* check_prod_jwt_secret(): neither missing, nor short, nor the one of the template.
SecretAccepted(env) == Secret \in DOMAIN env /\ env[Secret] \notin {"short", "example"}

-----------------------------------------------------------------------------
SettingsInit ==
  /\ shell = None
  /\ kindOf = [f \in Files |-> IF f = "example" THEN "regular" ELSE "absent"]
  /\ holds = [f \in Files |-> IF f = "example" THEN Written(Variables, "example") ELSE None]
  /\ config = "templated"
  /\ process = "down"
  /\ environment = None
  /\ unread = {}
  /\ database = "none"
  /\ edits = 0

Edit == process = "down" /\ edits < MaxEdits /\ edits' = edits + 1

\* The operator writes a file, links it, or removes it.
EditFile(f, kind) ==
  /\ Edit
  /\ kindOf' = [kindOf EXCEPT ![f] = kind]
  /\ \E S \in SUBSET Variables :
       holds' = [holds EXCEPT ![f] = CASE kind = "regular" -> Written(S, f)
                                       [] kind = "link" -> Written(Variables, "linked")
                                       [] OTHER -> None]
  /\ UNCHANGED <<shell, config, process, environment, unread, database>>

\* The operator changes the variables of the deployment, or its config.json.
EditShell ==
  /\ Edit
  /\ \E S \in SUBSET Variables, production \in SUBSET Modes,
        secret \in {"shell", "short", "example"} :
       shell' = [v \in S |-> IF v = Secret THEN secret
                            ELSE IF v \in Modes \ production THEN "short"
                            ELSE "shell"]
  /\ UNCHANGED <<kindOf, holds, config, process, environment, unread, database>>

EditConfig ==
  /\ Edit
  /\ config' \in {"absent", "malformed", "plain", "templated", "other"}
  /\ UNCHANGED <<shell, kindOf, holds, process, environment, unread, database>>

\* load_local_env(), outside production only.
LoadLocalEnv ==
  IF IsProd(shell)
  THEN environment' = shell /\ unread' = {} /\ UNCHANGED <<kindOf, holds>>
  ELSE \E env \in EnvFiles :
         /\ unread' \in SUBSET {"env", "local"}
         /\ ~env.ready => "env" \in unread'
         /\ kindOf' = [kindOf EXCEPT !["env"] = env.kind]
         /\ holds' = [holds EXCEPT !["env"] = env.definitions]
         /\ environment' =
              LoadOver(Extended(Parsed(env.kind, env.definitions, "env" \notin unread'),
                                Parsed(kindOf["local"], holds["local"], "local" \notin unread')))

\* AppState::open() up to the database: whether files are read is asked of the shell,
\* whether the secret is checked, of what they have added.
StartUp ==
  /\ process = "down"
  /\ LoadLocalEnv
  /\ database' = Database(environment')
  /\ process' = IF /\ IsProd(environment') => SecretAccepted(environment')
                   /\ database' # "not_sqlite"
                THEN "up" ELSE "refused"
  /\ UNCHANGED <<shell, config, edits>>

Stop ==
  /\ process # "down"
  /\ process' = "down"
  /\ environment' = None
  /\ unread' = {}
  /\ database' = "none"
  /\ UNCHANGED <<shell, kindOf, holds, config, edits>>

SettingsNext ==
  \/ \E f \in Files, kind \in {"regular", "link", "absent"} : EditFile(f, kind)
  \/ EditShell
  \/ EditConfig
  \/ StartUp
  \/ Stop

-----------------------------------------------------------------------------
\* Where a value may come from, the first that defines it.
Sources ==
  IF IsProd(shell) THEN <<shell>>
  ELSE <<shell, Parsed(kindOf["local"], holds["local"], "local" \notin unread),
         Parsed(kindOf["env"], holds["env"], "env" \notin unread)>>

\* load_local_env(), load_config() and check_prod_jwt_secret(): whatever was edited between
\* the starts, and whatever failed in them, a running process has each setting from the
\* first place that defines it, production nothing from a file, nobody anything from behind
\* a link (the template excepted: a link there is copied), though one that could not be
\* removed stays; and a production process has a secret of its own.
SettingsFromTheirPlace ==
  process = "up" =>
    /\ \A v \in Variables :
         LET defining == {i \in DOMAIN Sources : v \in DOMAIN Sources[i]}
         IN  IF defining = {} THEN v \notin DOMAIN environment
             ELSE \E i \in defining : /\ \A j \in defining : i <= j
                                      /\ environment[v] = Sources[i][v]
    /\ kindOf["env"] = "link" => IsProd(shell) \/ "env" \in unread
    /\ \A v \in DOMAIN environment : environment[v] = "linked" =>
         kindOf["env"] = "regular" /\ v \in DOMAIN holds["env"] /\ holds["env"][v] = "linked"
    /\ IsProd(environment) =>
         Secret \in DOMAIN environment /\ environment[Secret] \notin {"short", "example"}
    /\ config = "templated" /\ Referenced \in DOMAIN environment
         => database = environment[Referenced]

=============================================================================
