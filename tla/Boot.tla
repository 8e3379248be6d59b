-------------------------------- MODULE Boot --------------------------------
(***************************************************************************)
(* AppState::open(): a process checks its configuration, brings the        *)
(* database file to this build's schema, opens the pool and serves, or     *)
(* exits and is started again.  Every statement commits by itself, so a    *)
(* process may die between any two of them, and two processes (the old and *)
(* the new one of a deployment) may boot on one file.  The pool that is    *)
(* opened is DbPool's.                                                     *)
(***************************************************************************)
EXTENDS DbPool, Sequences

CONSTANTS
  Processes,     \* processes on the database file
  CoreTables,    \* SCHEMA, a sequence
  CoreIndexes,   \* INDEXES
  AppTables,     \* APPSCHOOL_SCHEMA
  AppIndexes,    \* APPSCHOOL_INDEXES
  Unique,        \* the indexes that are unique
  TableOf,       \* the table of an index
  ColumnsOf,     \* USERS_COLUMNS and the like: the columns an older table may lack
  Unread,        \* table_info has not been read
  Secrets        \* JWT_SECRET as the processes may find it: "none", "short", "long"

ASSUME BootAssumption ==
  /\ \A s \in {CoreTables, CoreIndexes, AppTables, AppIndexes} :
       s \in Seq({s[i] : i \in DOMAIN s})
  /\ Unread # {}

VARIABLES
  tables,      \* the database file: its tables,
  columns,     \* those of the repairable columns they have,
  indexes,     \* its indexes,
  duplicated,  \* and the unique indexes to come whose columns hold duplicates
  secret,      \* JWT_SECRET of this deployment
  step,        \* step[p]: 0 when p is down, else the statement it is at
  missing      \* missing[p]: the columns add_missing_columns has yet to add

fileVars == <<tables, columns, indexes, duplicated, secret>>
bootVars == <<fileVars, step, missing>>
vars == <<poolVars, bootVars>>

Each(op, names) == [i \in DOMAIN names |-> [op |-> op, name |-> names[i]]]

\* ensure_schema().
Plan == Each("create", CoreTables) \o Each("repair", CoreTables)
        \o Each("index", CoreIndexes)
        \o Each("create", AppTables) \o Each("index", AppIndexes)

Names(op) == {Plan[i].name : i \in {j \in DOMAIN Plan : Plan[j].op = op}}

ColumnsIn(ts) == UNION {ColumnsOf[t] : t \in ts \cap Names("repair")}

Down == 0
Opening == Len(Plan) + 1      \* the schema stands; the other connections follow
Up == Len(Plan) + 2

Serving(p) == step[p] = Up

EverybodyServes == \A p \in Processes : Serving(p)

\* The next statement of p, if it has one of this kind.
Runs(p, op) == step[p] \in DOMAIN Plan /\ Plan[step[p]].op = op

Subject(p) == Plan[step[p]].name

\* No file yet, or the file of an earlier build: tables may be missing, core tables
\* narrower, indexes missing, and without the index there may be duplicates.
BootInit ==
  /\ PoolInit
  /\ tables \in SUBSET Names("create")
  /\ columns \in SUBSET ColumnsIn(tables)
  /\ indexes \in SUBSET {i \in Names("index") : TableOf[i] \in tables}
  /\ duplicated \in SUBSET {i \in Unique \ indexes : TableOf[i] \in tables}
  /\ secret \in Secrets
  /\ step = [p \in Processes |-> Down]
  /\ missing = [p \in Processes |-> Unread]

Advance(p) ==
  /\ step' = [step EXCEPT ![p] = @ + 1]
  /\ missing' = [missing EXCEPT ![p] = Unread]

\* main(): any error of AppState::open() ends in exit(1).
Abort(p) ==
  /\ step' = [step EXCEPT ![p] = Down]
  /\ missing' = [missing EXCEPT ![p] = Unread]

-----------------------------------------------------------------------------
\* check_prod_jwt_secret(): production must not start without a secret of some length.
SecretFits == secret = "long"

\* The supervisor starts the process; the configuration is checked first.
Start(p) ==
  /\ step[p] = Down
  /\ SecretFits
  /\ Advance(p)
  /\ UNCHANGED <<poolVars, fileVars>>

\* Plausible bug: the statements lack IF NOT EXISTS.
CreateStrictly(p) ==
  /\ Runs(p, "create")
  /\ IF Subject(p) \in tables
     THEN Abort(p) /\ UNCHANGED <<tables, columns>>
     ELSE /\ tables' = tables \cup {Subject(p)}
          /\ columns' = columns \cup ColumnsIn({Subject(p)})
          /\ Advance(p)
  /\ UNCHANGED <<poolVars, indexes, duplicated, secret>>

\* CREATE TABLE IF NOT EXISTS: a new table is whole, an older one stays as it is.
CreateTable(p) ==
  /\ Runs(p, "create")
  /\ tables' = tables \cup {Subject(p)}
  /\ columns' = columns \cup (IF Subject(p) \in tables THEN {} ELSE ColumnsIn({Subject(p)}))
  /\ Advance(p)
  /\ UNCHANGED <<poolVars, indexes, duplicated, secret>>

\* add_missing_columns(): PRAGMA table_info.
TableInfo(p) ==
  /\ Runs(p, "repair")
  /\ missing[p] = Unread
  /\ missing' = [missing EXCEPT ![p] = ColumnsOf[Subject(p)] \ columns]
  /\ UNCHANGED <<poolVars, fileVars, step>>

\* Plausible bug: when another process has added the column, the rest is left to it.
AddColumnOrLeave(p) ==
  /\ Runs(p, "repair")
  /\ missing[p] \notin {Unread, {}}
  /\ \E c \in missing[p] :
       IF c \in columns
       THEN Advance(p) /\ UNCHANGED columns
       ELSE /\ columns' = columns \cup {c}
            /\ missing' = [missing EXCEPT ![p] = @ \ {c}]
            /\ UNCHANGED step
  /\ UNCHANGED <<poolVars, tables, indexes, duplicated, secret>>

\* ALTER TABLE ADD COLUMN, which fails when another process has added the column since
\* table_info was read.
AddColumn(p) ==
  /\ Runs(p, "repair")
  /\ missing[p] \notin {Unread, {}}
  /\ \E c \in missing[p] :
       IF c \in columns
       THEN Abort(p) /\ UNCHANGED columns
       ELSE /\ columns' = columns \cup {c}
            /\ missing' = [missing EXCEPT ![p] = @ \ {c}]
            /\ UNCHANGED step
  /\ UNCHANGED <<poolVars, tables, indexes, duplicated, secret>>

TableRepaired(p) ==
  /\ Runs(p, "repair")
  /\ missing[p] = {}
  /\ Advance(p)
  /\ UNCHANGED <<poolVars, fileVars>>

\* CREATE INDEX IF NOT EXISTS: a unique one cannot be built over duplicates.
CreateIndex(p) ==
  /\ Runs(p, "index")
  /\ IF Subject(p) \in duplicated
     THEN Abort(p) /\ UNCHANGED indexes
     ELSE indexes' = indexes \cup {Subject(p)} /\ Advance(p)
  /\ UNCHANGED <<poolVars, tables, columns, duplicated, secret>>

\* The other connections are opened, and main() serves.
OpenRest(p) ==
  /\ step[p] = Opening
  /\ Advance(p)
  /\ UNCHANGED <<poolVars, fileVars>>

\* A statement fails, the port is taken, or the process is killed; a process that serves
\* is killed before it has had traffic (a bound).
Die(p) ==
  /\ step[p] # Down
  /\ calls = 0 /\ ~closed
  /\ Failure
  /\ Abort(p)
  /\ UNCHANGED <<guardVars, idle, closed, open, freed, closer, calls, fileVars>>

-----------------------------------------------------------------------------
BootStep(p) ==
  \/ Start(p)
  \/ CreateTable(p)
  \/ TableInfo(p)
  \/ AddColumn(p)
  \/ TableRepaired(p)
  \/ CreateIndex(p)
  \/ OpenRest(p)

\* The traffic begins once every process serves (a bound: they share only the file).
Traffic == EverybodyServes /\ PoolNext /\ UNCHANGED bootVars

BootNext ==
  \/ \E p \in Processes : BootStep(p) \/ Die(p)
  \/ Traffic

BootSpec == BootInit /\ [][BootNext]_vars

\* Whoever is down is started again, and SQLite answers.
BootFairness == \A p \in Processes : WF_vars(BootStep(p))

FairBootSpec == BootSpec /\ BootFairness /\ PoolFairness

-----------------------------------------------------------------------------
(***************************************************************************)
(* Properties.                                                             *)
(***************************************************************************)

\* ensure_schema(): whichever build made the file, wherever an earlier boot died and
\* however two boots interleave, who serves has every table, column and index the
\* queries name, and a production process has its secret.
ServesWholeSchema ==
  \A p \in Processes :
    Serving(p) => /\ tables = Names("create")
                  /\ columns = ColumnsIn(tables)
                  /\ indexes = Names("index")
                  /\ SecretFits

-----------------------------------------------------------------------------
\* The inductive strengthening: nobody takes away what a statement has made, and what a
\* process has yet to repair is in its list, whoever else repairs the same table.
Done(s) ==
  CASE s.op = "create" -> s.name \in tables
    [] s.op = "repair" -> ColumnsOf[s.name] \subseteq columns
    [] s.op = "index" -> s.name \in indexes

BootTypeOK ==
  /\ tables \subseteq Names("create")
  /\ columns \subseteq ColumnsIn(Names("create"))
  /\ indexes \subseteq Names("index")
  /\ step \in [Processes -> Down .. Up]
  /\ missing \in [Processes -> {Unread} \cup SUBSET ColumnsIn(Names("create"))]

BootInv ==
  /\ BootTypeOK
  /\ \A p \in Processes :
       /\ step[p] # Down => SecretFits
       /\ \A i \in DOMAIN Plan : i < step[p] => Done(Plan[i])
       /\ Runs(p, "repair") /\ missing[p] # Unread =>
            ColumnsOf[Subject(p)] \subseteq columns \cup missing[p]

-----------------------------------------------------------------------------
\* ensure_schema() can be run again after any failure, and a boot that loses the race for
\* a column wins in the end: without duplicates every process comes to serve for good.
BootsAtLast ==
  duplicated = {} /\ SecretFits => <>[]EverybodyServes

=============================================================================
