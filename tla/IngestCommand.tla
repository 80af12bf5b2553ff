----------------------------- MODULE IngestCommand -----------------------------
(***************************************************************************)
(* One run of the fraud-ingest command: whether the YAML file and the      *)
(* environment give its settings, the connection, and the subcommand under *)
(* its `finally`.  The schema of --create-table is SchemaInference; what   *)
(* load_csv and reconcile do to the table is in Ingestion, and here only   *)
(* whether they return or raise.                                           *)
(***************************************************************************)
EXTENDS SchemaInference

CONSTANT Settings   \* the keys of _ENV_OVERRIDES

VARIABLES
    inYaml,     \* what the config file says of each setting
    inEnv,      \* what the environment says of it
    command,    \* the subcommand and its flag
    conn,       \* the Snowflake connection
    step,       \* how far run() is
    exit        \* how the process ended

cvars == <<inYaml, inEnv, command, conn, step, exit>>

\* A setting is not given, given as an empty string, or has a value.  A file
\* that does not exist or is empty says nothing of any setting.
Says == {"nothing", "empty", "value"}
Commands == {"load", "load --create-table", "reconcile"}
InTry == {"ddl", "load", "reconcile"}
Steps == {"config", "connect", "close", "ended"} \cup InTry

CommandTypeOK ==
    /\ SchemaTypeOK
    /\ inYaml \in [Settings -> Says] /\ inEnv \in [Settings -> Says]
    /\ command \in Commands
    /\ conn \in {"none", "open", "closed", "close failed"}
    /\ step \in Steps
    /\ exit \in {"none", "0", "1", "raised"}

CommandInit ==
    /\ SchemaInit
    /\ inYaml \in [Settings -> Says] /\ inEnv \in [Settings -> Says]
    /\ command \in Commands
    /\ conn = "none"
    /\ step = "config"
    /\ exit = "none"

-----------------------------------------------------------------------------
(* load_config *)

\* A non-empty environment variable overrides the file; an empty one does not,
\* and an empty string in the file is as good as none.
Missing == {s \in Settings : "value" \notin {inEnv[s], inYaml[s]}}

LoadConfig ==
    /\ step = "config" /\ Missing = {}
    /\ step' = "connect"
    /\ UNCHANGED <<inYaml, inEnv, command, conn, exit>>

\* ValueError, or a file that is no YAML mapping.
ConfigFails ==
    /\ step = "config"
    /\ step' = "ended" /\ exit' = "raised"
    /\ UNCHANGED <<inYaml, inEnv, command, conn>>

(* run *)

First == IF command = "load --create-table" THEN "ddl" ELSE command

Connect ==
    /\ step = "connect"
    /\ conn' = "open" /\ step' = First
    /\ UNCHANGED <<inYaml, inEnv, command, exit>>

\* connect_fn is called outside the try.
ConnectFails ==
    /\ step = "connect"
    /\ step' = "ended" /\ exit' = "raised"
    /\ UNCHANGED <<inYaml, inEnv, command, conn>>

Leaves(result) ==
    /\ step' = "close" /\ exit' = result
    /\ UNCHANGED <<inYaml, inEnv, command, conn>>

ExitsAtOnce ==              \* mutant: no try, so an exception skips close()
    /\ step \in InTry
    /\ step' = "ended" /\ exit' = "raised"
    /\ UNCHANGED <<inYaml, inEnv, command, conn>>

\* Anything in the try raises: the file, the warehouse, or infer_schema, after
\* which nothing else can happen.
Raises ==
    /\ step \in InTry
    /\ Leaves("raised")

\* infer_schema returned, and the DDL is executed.
CreateTable ==
    /\ step = "ddl" /\ stage = "inferred"
    /\ step' = "load"
    /\ UNCHANGED <<inYaml, inEnv, command, conn, exit>>

LoadReturns == step = "load" /\ Leaves("0")

\* 0 for MATCH, 1 for MISMATCH.
ReconcileReturns == step = "reconcile" /\ \E result \in {"0", "1"} : Leaves(result)

\* The finally clause; close() may raise, also over a return.
Close ==
    /\ step = "close"
    /\ step' = "ended"
    /\ \/ conn' = "closed" /\ UNCHANGED exit
       \/ conn' = "close failed" /\ exit' = "raised"
    /\ UNCHANGED <<inYaml, inEnv, command>>

Over == step = "ended" /\ UNCHANGED <<svars, cvars>>

CommandNext ==
    \/ step = "ddl" /\ (SampleRow \/ ShortRow \/ Override) /\ UNCHANGED cvars
    \/ /\ \/ LoadConfig \/ ConfigFails \/ Connect \/ ConnectFails
          \/ CreateTable \/ LoadReturns \/ ReconcileReturns \/ Raises \/ Close
       /\ UNCHANGED svars
    \/ Over

CommandSpec == CommandInit /\ [][CommandNext]_<<svars, cvars>>

-----------------------------------------------------------------------------
(* Properties *)

(***************************************************************************)
(* A process that ended has closed its connection or tried to, however     *)
(* run() was left, and it reports success only if it had one, closed it    *)
(* and did not fail: exit 0 after --create-table means that a schema was   *)
(* inferred.                                                               *)
(***************************************************************************)
ConnectionClosed ==
    step = "ended" =>
        /\ conn # "open"
        /\ exit = "0" => conn = "closed" /\ (command = "load --create-table" => stage = "inferred")
=============================================================================
