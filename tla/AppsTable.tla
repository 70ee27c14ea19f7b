------------------------------- MODULE AppsTable -------------------------------
(***************************************************************************)
(* The "apps" table (app/models/app_model.py) and what an SQLAlchemy       *)
(* session does to one of its rows (app/database.py: expire_on_commit and  *)
(* autoflush are off).  A session works on a copy of the row: it writes at *)
(* commit, and only the columns whose value in memory differs from the     *)
(* value it last loaded or wrote.                                          *)
(*                                                                         *)
(* Of the row only what requests compete for is kept: the status, the host *)
(* port (internal_port) and one of the columns a deployment may override   *)
(* (branch; dockerfile_path, build_path and env are handled as it is).     *)
(***************************************************************************)
EXTENDS Naturals

CONSTANTS
  MaxId,        \* bound: app ids are 1..MaxId
  Ports,        \* the host ports PORT_RANGE_START..PORT_RANGE_END
  Branches,     \* branch names
  UniquePort,   \* TRUE: the table create_all makes, with UNIQUE (internal_port);
                \* FALSE: the one migration 0001 makes, without it
  ReuseIds      \* TRUE: SQLite, which hands out the largest id + 1 again

NoPort   == 0
NoBranch == "no branch"

ASSUME TableAssumption ==
  /\ MaxId \in Nat
  /\ Ports \subseteq Nat \ {NoPort}
  /\ NoBranch \notin Branches
  /\ UniquePort \in BOOLEAN
  /\ ReuseIds \in BOOLEAN

AppIds   == 1..MaxId
Statuses == {"created", "prepared", "running", "error"}

NoRow == [status |-> "absent", port |-> NoPort, branch |-> NoBranch]
Row   == [status : Statuses \cup {"absent"},
          port   : Ports \cup {NoPort},
          branch : Branches \cup {NoBranch}]

VARIABLES
  rows,    \* rows[a]: the committed row of app a, NoRow if there is none
  lastId   \* the largest id ever handed out (PostgreSQL's sequence)

Exists(a)   == rows[a].status # "absent"
LeasedPorts == {rows[a].port : a \in AppIds} \ {NoPort}

TableTypeOK ==
  /\ rows \in [AppIds -> Row]
  /\ lastId \in 0..MaxId

TableInit ==
  /\ rows = [a \in AppIds |-> NoRow]
  /\ lastId = 0

\* mutant: an UPDATE that writes every column
WholeRow(a, base, mem) == IF Exists(a) THEN mem ELSE rows[a]

(***************************************************************************)
(* What an UPDATE leaves in the row of app a: the columns that are dirty   *)
(* in the session (base: last loaded or written, mem: now in memory) take  *)
(* the session's value, the others keep whatever another request wrote.    *)
(***************************************************************************)
Updated(a, base, mem) ==
  [status |-> IF mem.status # base.status THEN mem.status ELSE rows[a].status,
   port   |-> IF mem.port   # base.port   THEN mem.port   ELSE rows[a].port,
   branch |-> IF mem.branch # base.branch THEN mem.branch ELSE rows[a].branch]

\* mutant: no UNIQUE constraint
RejectedIfGone(a, base, mem) == mem # base /\ ~Exists(a)

\* mutant: an upsert instead of an UPDATE
RejectedIfTaken(a, base, mem) ==
  /\ mem.port # base.port /\ mem.port # NoPort
  /\ \E b \in AppIds \ {a} : rows[b].port = mem.port

(***************************************************************************)
(* The flush inside commit() raises when the row is gone (StaleDataError)  *)
(* or when the port belongs to another row (IntegrityError).               *)
(***************************************************************************)
Rejected(a, base, mem) ==
  /\ mem # base
  /\ \/ ~Exists(a)
     \/ /\ UniquePort
        /\ mem.port # base.port
        /\ mem.port # NoPort
        /\ \E b \in AppIds \ {a} : rows[b].port = mem.port

Flush(a, base, mem) ==
  /\ ~Rejected(a, base, mem)
  /\ rows' = [rows EXCEPT ![a] = Updated(a, base, mem)]
  /\ UNCHANGED lastId

NextId(a) ==
  IF ReuseIds
  THEN /\ \A b \in AppIds : b >= a => ~Exists(b)
       /\ a = 1 \/ (\E b \in AppIds : b = a - 1 /\ Exists(b))
  ELSE a = lastId + 1

Insert(a, b) ==
  /\ NextId(a)
  /\ rows' = [rows EXCEPT ![a] = [status |-> "created", port |-> NoPort, branch |-> b]]
  /\ lastId' = IF a > lastId THEN a ELSE lastId

DeleteRow(a) ==
  /\ rows' = [rows EXCEPT ![a] = NoRow]
  /\ UNCHANGED lastId
================================================================================
