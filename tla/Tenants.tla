------------------------------- MODULE Tenants -------------------------------
(***************************************************************************)
(* Tenants in schemas of one PostgreSQL database: runners that are built   *)
(* for a schema, the pools they take their connections from, and the       *)
(* administrator who creates and removes tenants under them.               *)
(*                                                                         *)
(* No table is qualified in the DAL: where a row goes is decided by the    *)
(* search path of the connection, "<schema>, public", which belongs to the *)
(* session and stays when a connection goes back to its pool.  A schema is *)
(* named here as the database folds it (lower case).                       *)
(***************************************************************************)
EXTENDS Naturals, FiniteSets

CONSTANTS
    Tenant, Public,   \* the schemas
    Runner, Home,     \* the runners, and the schema each is built for
    PoolSize,         \* connections in the pool of a runner
    MaxCalls,         \* bound on the calls of the administrator
    MaxFaults         \* bound on the statements that fail

ASSUME TenantsAssumption ==
    /\ Public \notin Tenant
    /\ Home \in [Runner -> Tenant \cup {Public}]
    /\ PoolSize \in Nat \ {0}
    /\ MaxCalls \in Nat /\ MaxFaults \in Nat

Schema == Tenant \cup {Public}
Conn == 1 .. PoolSize

\* A pool opens its connections with the search path of the server.
NewPool == [c \in Conn |-> Public]

\* build sets up a schema if it was given one, and the database is PostgreSQL.
HasSchema(r) == Home[r] # Public

VARIABLES
    tables,       \* of each schema: "none" (no schema), "bare" or "ready"
    user,         \* of each tenant: the call that made its user, 0 if none
    stage,        \* of each runner: how far DefaultRunnerBuilder::build is
    path,         \* of each connection: the first schema of its search path
    out,          \* the connections that are checked out
    rows,         \* who wrote a row into which schema
    calls, faults,
    unrouted,     \* the runners for which a SET search_path failed
    removed       \* the tenants that were removed

tenantsVars == <<tables, user, stage, path, out, rows, calls, faults, unrouted, removed>>

TenantsTypeOK ==
    /\ tables \in [Schema -> {"none", "bare", "ready"}]
    /\ tables[Public] # "none"
    /\ user \in [Tenant -> 0 .. MaxCalls]
    /\ stage \in [Runner -> {"new", "created", "routed", "up", "failed"}]
    /\ path \in [Runner -> [Conn -> Schema]]
    /\ out \in [Runner -> SUBSET Conn]
    /\ rows \subseteq Runner \X Schema
    /\ calls \in 0 .. MaxCalls /\ faults \in 0 .. MaxFaults
    /\ unrouted \subseteq Runner /\ removed \subseteq Tenant

TenantsInit ==
    /\ tables = [s \in Schema |-> IF s = Public THEN "bare" ELSE "none"]
    /\ user = [t \in Tenant |-> 0]
    /\ stage = [r \in Runner |-> "new"]
    /\ path = [r \in Runner |-> NewPool]
    /\ out = [r \in Runner |-> {}]
    /\ rows = {} /\ calls = 0 /\ faults = 0 /\ unrouted = {} /\ removed = {}

-----------------------------------------------------------------------------
(***************************************************************************)
(* What the database makes of a search path: tables are created in its     *)
(* first schema that exists, and found in the first that has them.  A path *)
(* to a schema that does not exist is no error.                            *)
(***************************************************************************)

CreatedIn(schema) == IF tables[schema] = "none" THEN Public ELSE schema
\* The migrations make all tables of a schema or, in their transaction, none.
Migrated(schema) == [tables EXCEPT ![schema] = "ready"]

FoundIn(schema) == IF tables[schema] = "ready" THEN schema ELSE Public

-----------------------------------------------------------------------------
(***************************************************************************)
(* Building a runner: Database::setup_schema makes three calls on one      *)
(* connection, the first of the pool, in no transaction; without a schema  *)
(* there are only the migrations.                                          *)
(***************************************************************************)

CreateSchema(r) ==
    /\ stage[r] = "new" /\ HasSchema(r)
    /\ tables' = [tables EXCEPT ![Home[r]] = IF @ = "none" THEN "bare" ELSE @]
    /\ stage' = [stage EXCEPT ![r] = "created"]
    /\ UNCHANGED <<user, path, out, rows, calls, faults, unrouted, removed>>

SetSearchPath(r) ==
    /\ stage[r] = "created"
    /\ path' = [path EXCEPT ![r][1] = Home[r]]
    /\ stage' = [stage EXCEPT ![r] = "routed"]
    /\ UNCHANGED <<tables, user, out, rows, calls, faults, unrouted, removed>>

RunMigrations(r) ==
    /\ stage[r] = IF HasSchema(r) THEN "routed" ELSE "new"
    /\ tables' = Migrated(CreatedIn(path[r][1]))
    /\ stage' = [stage EXCEPT ![r] = "up"]
    /\ UNCHANGED <<user, path, out, rows, calls, faults, unrouted, removed>>

BuildFails(r) ==
    /\ stage[r] \in {"new", "created", "routed"}
    /\ faults < MaxFaults
    /\ faults' = faults + 1
    /\ stage' = [stage EXCEPT ![r] = "failed"]
    /\ UNCHANGED <<tables, user, path, out, rows, calls, unrouted, removed>>

-----------------------------------------------------------------------------
(***************************************************************************)
(* Using the database.                                                     *)
(***************************************************************************)

\* Mutant of Checkout: the connection is taken as it comes from the pool.
CheckoutAsIs(r, c) ==
    /\ stage[r] = "up" /\ c \notin out[r]
    /\ out' = [out EXCEPT ![r] = @ \cup {c}]
    /\ UNCHANGED <<tables, user, stage, path, rows, calls, faults, unrouted, removed>>

\* get_postgres_connection: the path is set at every checkout; the result of
\* the statement that sets it is dropped.
Checkout(r, c) ==
    /\ stage[r] = "up" /\ c \notin out[r]
    /\ out' = [out EXCEPT ![r] = @ \cup {c}]
    /\ \/ /\ path' = [path EXCEPT ![r][c] = Home[r]]
          /\ UNCHANGED <<faults, unrouted>>
       \/ /\ HasSchema(r)
          /\ faults < MaxFaults
          /\ faults' = faults + 1
          /\ unrouted' = unrouted \cup {r}
          /\ path' = path
    /\ UNCHANGED <<tables, user, stage, rows, calls, removed>>

\* A call of the DAL writes through the connection and gives it back; where no
\* schema of the path has the tables it only gets an error.
Write(r, c) ==
    /\ c \in out[r]
    /\ out' = [out EXCEPT ![r] = @ \ {c}]
    /\ rows' = LET schema == FoundIn(path[r][c])
               IN  IF tables[schema] = "ready" THEN rows \cup {<<r, schema>>} ELSE rows
    /\ UNCHANGED <<tables, user, stage, path, calls, faults, unrouted, removed>>

-----------------------------------------------------------------------------
(***************************************************************************)
(* The administrator: DatabaseAdmin::create_tenant and remove_tenant are   *)
(* one transaction each.  What the transaction returns is dropped: a call  *)
(* that was rolled back answers Ok too.                                    *)
(***************************************************************************)

\* Mutant of CreateTenant: the user stays when the migrations fail.
CreateTenantBare(t) ==
    /\ calls < MaxCalls
    /\ calls' = calls + 1
    /\ \/ /\ user[t] = 0
          /\ tables' = [tables EXCEPT ![t] = IF @ = "none" THEN "bare" ELSE @]
          /\ user' = [user EXCEPT ![t] = calls']
       \/ UNCHANGED <<tables, user>>
    /\ UNCHANGED <<stage, path, out, rows, faults, unrouted, removed>>

\* CREATE USER fails if there is one, CREATE SCHEMA IF NOT EXISTS does not;
\* then grants and migrations.
CreateTenant(t) ==
    /\ calls < MaxCalls
    /\ calls' = calls + 1
    /\ \/ /\ user[t] = 0
          /\ tables' = Migrated(t)
          /\ user' = [user EXCEPT ![t] = calls']
       \/ UNCHANGED <<tables, user>>
    /\ UNCHANGED <<stage, path, out, rows, faults, unrouted, removed>>

\* The first statements revoke what the user was granted.  Their errors are
\* passed over, but not by the database: it has aborted the transaction, as it
\* does when there is no such user, and nothing is removed.
RemoveTenant(t) ==
    /\ calls < MaxCalls
    /\ calls' = calls + 1
    /\ \/ /\ user[t] # 0
          /\ tables' = [tables EXCEPT ![t] = "none"]
          /\ user' = [user EXCEPT ![t] = 0]
          /\ removed' = removed \cup {t}
       \/ UNCHANGED <<tables, user, removed>>
    /\ UNCHANGED <<stage, path, out, rows, faults, unrouted>>

-----------------------------------------------------------------------------

TenantsNext ==
    \/ \E r \in Runner :
          \/ CreateSchema(r) \/ SetSearchPath(r) \/ RunMigrations(r) \/ BuildFails(r)
          \/ \E c \in Conn : Checkout(r, c) \/ Write(r, c)
    \/ \E t \in Tenant : CreateTenant(t) \/ RemoveTenant(t)

TenantsSpec == TenantsInit /\ [][TenantsNext]_tenantsVars

-----------------------------------------------------------------------------
(***************************************************************************)
(* Properties                                                              *)
(***************************************************************************)

\* What a runner writes goes to its own schema.  It goes to the public one,
\* and never to that of another tenant, only if a SET search_path failed for
\* the runner, or its tenant was removed while it ran, or before its build was
\* over: the code notices neither.
RowsStayHome ==
    \A row \in rows :
        LET r == row[1]
        IN  \/ row[2] = Home[r]
            \/ row[2] = Public /\ (r \in unrouted \/ Home[r] \in removed)

\* A tenant that has a user has a schema with all tables: creation and removal
\* are all or nothing, also next to a runner that sets up the same schema.
TenantIsWhole == \A t \in Tenant : user[t] # 0 => tables[t] = "ready"
=============================================================================
